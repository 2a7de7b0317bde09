----------------------- MODULE DeferredsCausesProofs -----------------------
(***************************************************************************)
(* Proof that with no code running, and none that threw, every promise made  *)
(* by then or when has been settled if, and as, something it depends on has, *)
(* for any number of deferreds, handlers and calls.                          *)
(*                                                                          *)
(* Two things have to be shown of what then and when wire.  Nothing comes of *)
(* nothing: a call that settles a promise is only made when its cause has    *)
(* come about.  And nothing is lost: what was wired is on its way to a list, *)
(* in it and still to be called, handed to the library's next call, or done. *)
(***************************************************************************)
EXTENDS DeferredsProofs, FiniteSetTheorems

Name(i) == <<"resolved", "rejected">>[i]
SomeFired(d) == lists[d][1].fired \/ lists[d][2].fired

\* An entry is to be called from Position on: the one the page's function runs for is
\* still there, the one the library is making the calls of is not.
Busy(d, i) == \E k \in 2..Depth : frames[k].d = d /\ frames[k].i = i /\ frames[k].in /\ ~frames[k].user
Position(d, i) ==
    IF ~lists[d][i].firing THEN 1
    ELSE IF Busy(d, i) THEN lists[d][i].at + 1 ELSE lists[d][i].at
Comes(d, i, e) == \E p \in Position(d, i)..Len(lists[d][i].list) : lists[d][i].list[p] = e

Listed(d, i, e) == \E p \in 1..Len(lists[d][i].list) : lists[d][i].list[p] = e

\* The calls the frames still make.
Makes(k, op) == \E j \in 1..Len(frames[k].todo) : frames[k].todo[j] = op
Owing(op) == \E k \in 1..Depth : Makes(k, op)
OwesFire(d, i) == \E v \in Vals : Owing(DoFire(d, i, v))
OwesCount(e) == \E v \in Vals : Owing(DoCount(e, v))

\* What the variables of the library and of the history hold.
BooksRight ==
    /\ Made \subseteq Ids
    /\ \A m \in Made :
          /\ made[m].kind = "then" => Len(made[m].of) = 1 /\ made[m].of[1] \in Made
          /\ made[m].kind = "when" => Len(made[m].of) = 2 /\ \A k \in 1..2 : made[m].of[k] \in Made \cup {Page}
    /\ state = [d \in Ids |-> state[d]]
    /\ remaining = [d \in Ids |-> remaining[d]]
    /\ arrived \in [Ids -> SUBSET (1..2)]
    /\ adopted \in [Ids -> SUBSET Made]
    /\ passed \subseteq Made
    /\ \A d \in Ids \ Made : arrived[d] = {} /\ adopted[d] = {} /\ ~SomeFired(d)

\* The state says what was fired, from the first entry of the round on.
Opening(d, i) ==
    /\ Depth > 1 /\ Top.d = d /\ Top.i = i /\ ~Top.in
    /\ lists[d][i].at = 1 /\ Begins(lists[d][i])
StateRight ==
    \A d \in Ids :
        /\ ~SomeFired(d) => state[d] = "pending"
        /\ \A i \in Sides : lists[d][i].fired => state[d] = Name(i) \/ Opening(d, i)

\* A list that settles is only disabled when the other one was fired.
DisabledRight == \A d \in Ids, i \in Sides : lists[d][i].disabled => lists[d][3 - i].fired

\* The deferred that an entry of list i of d settles, or counts for, waits for d.
Owns(e, d, i) ==
    /\ e.i = i
    /\ e.fn \in {"state", "disable", "lock"} => i \in Sides
    /\ e.fn \in {"then", "settle", "count"} => e.to \in Made
    /\ e.fn = "then" => made[e.to].kind = "then" /\ made[e.to].of[1] = d
    /\ e.fn = "settle" =>
          \/ made[e.to].kind = "then" /\ d \in adopted[e.to]
          \/ made[e.to].kind = "when" /\ i # 1 /\ \E k \in 1..2 : made[e.to].of[k] = d
    /\ e.fn = "count" => made[e.to].kind = "when" /\ i = 1 /\ e.n \in 1..2 /\ made[e.to].of[e.n] = d
EntriesRight == \A d \in Ids, i \in Lists : \A e \in Item : Listed(d, i, e) => Owns(e, d, i)

\* Why d is settled, or about to be, as i says.
Cause(d, i) ==
    /\ made[d].kind = "then" =>
          \/ \E r \in adopted[d] : lists[r][i].fired
          \/ d \in passed /\ lists[made[d].of[1]][i].fired
    /\ made[d].kind = "when" /\ i = 1 => \A k \in 1..2 : made[d].of[k] # Page => lists[made[d].of[k]][1].fired
    /\ made[d].kind = "when" /\ i = 2 => \E k \in 1..2 : made[d].of[k] # Page /\ lists[made[d].of[k]][2].fired
CausesRight == \A d \in Made, i \in Sides : lists[d][i].fired => Cause(d, i)

Justified(op) ==
    /\ op.d \in Made
    /\ op.op = "add" => Owns(op.entry, op.d, op.i)
    /\ op.op = "fire" /\ op.i \in Sides => Cause(op.d, op.i)
CallsRight == \A op \in Adding \cup Firing : Owing(op) => Justified(op)

\* A call that counts is made by the entry it counts for, the one its frame is in.
Counted(k, op) ==
    /\ k # 1 /\ frames[k].in /\ ~frames[k].user /\ frames[k].i = 1
    /\ op.entry = lists[frames[k].d][1].list[lists[frames[k].d][1].at]
    /\ op.entry.fn = "count" /\ op.entry.to = op.d /\ op.entry.n \notin arrived[op.d]
CountsRight ==
    \A k \in 1..Depth : \A op \in Firing :
        Makes(k, op) /\ op.op = "count" => Len(frames[k].todo) = 1 /\ Counted(k, op)

\* An argument of when has one entry: on its way, in its list, or counted.
SentOnce ==
    \A op \in Adding, k \in 1..Depth : \A j \in 1..Len(frames[k].todo) :
        frames[k].todo[j] = op /\ op.entry.fn = "count" =>
            /\ op.entry.n \notin arrived[op.entry.to] /\ ~Listed(op.d, op.i, op.entry)
            /\ \A o \in Adding, h \in 1..Depth : \A i \in 1..Len(frames[h].todo) :
                  frames[h].todo[i] = o /\ o.entry = op.entry => h = k /\ i = j
ListedOnce ==
    \A d \in Ids : \A p, q \in 1..Len(lists[d][1].list) :
        lists[d][1].list[p].fn = "count" /\ lists[d][1].list[p] = lists[d][1].list[q] => p = q

\* The entry at p was called, in the round that frame k is.
CalledIn(k, d, p) ==
    frames[k].d = d /\ frames[k].i = 1 =>
        p < lists[d][1].at \/ (p = lists[d][1].at /\ frames[k].in /\ ~frames[k].user)
ArrivedOnce ==
    \A d \in Ids : \A p \in 1..Len(lists[d][1].list) :
        LET e == lists[d][1].list[p]
        IN  e.fn = "count" /\ e.n \in arrived[e.to] =>
                lists[d][1].firing /\ \A k \in 2..Depth : CalledIn(k, d, p)

\* when counts down the arguments that have not arrived; those that have were resolved.
Left(m, k) == IF made[m].of[k] # Page /\ k \notin arrived[m] THEN 1 ELSE 0
CountRight ==
    \A m \in Made : made[m].kind = "when" =>
        /\ remaining[m] = Left(m, 1) + Left(m, 2)
        /\ \A k \in arrived[m] : made[m].of[k] # Page /\ lists[made[m].of[k]][1].fired

\* What is wired to d, and what becomes of an entry that is called.
Wires == [fn : {"then", "settle"}, n : {0}, to : Ids, i : Sides] \cup [fn : {"count"}, n : 1..2, to : Ids, i : {1}]
Handed(e) ==
    /\ e.fn = "then" => e.to \in passed \/ adopted[e.to] # {}
    /\ e.fn = "settle" => SomeFired(e.to) \/ OwesFire(e.to, e.i)
    /\ e.fn = "count" => e.n \in arrived[e.to] \/ OwesCount(e)
Linked(e, d) ==
    lists[d][e.i].disabled \/ Comes(d, e.i, e) \/ Owing(DoAdd(d, e.i, e)) \/ Handed(e)

\* Nothing that was wired is lost, nor the value a function returned, nor the last count.
WiresKept == \A d \in Made : \A e \in Wires : Owns(e, d, e.i) => Linked(e, d)
ValuesKept == \A d \in passed : SomeFired(d) \/ OwesFire(d, 1) \/ OwesFire(d, 2)
CountKept == \A m \in Made : made[m].kind = "when" /\ remaining[m] = 0 => SomeFired(m) \/ OwesFire(m, 1)
NothingLost == WiresKept /\ ValuesKept /\ CountKept

\* The page's code is in an entry.
LoopsRight == \A k \in 1..Depth : frames[k].in \/ ~frames[k].user

Tokens == CountsRight /\ SentOnce /\ ListedOnce /\ ArrivedOnce /\ CountRight
Justice == BooksRight /\ StateRight /\ DisabledRight /\ EntriesRight /\ CausesRight /\ CallsRight
CausesInv == Justice /\ Tokens /\ LoopsRight /\ (~broken => NothingLost)

-------------------------------------------------------------------------------
(* Where the rounds are. *)

LEMMA BusyOwn ==
  ASSUME Structure, Depth > 1
  PROVE  Busy(Top.d, Top.i) <=> Top.in /\ ~Top.user
  <1>1. Depth \in Nat /\ Depth \in 2..Depth
    BY StackIs DEF Structure
  <1>2. \A k \in 2..Depth : frames[k].d = Top.d /\ frames[k].i = Top.i => k = Depth
    BY <1>1 DEF Structure, FramesOK, Top
  <1> QED
    BY <1>1, <1>2 DEF Busy, Top

LEMMA BusyIs ==
  ASSUME Structure, NEW d \in Ids, NEW i \in Lists, Busy(d, i)
  PROVE  lists[d][i].firing /\ lists[d][i].at \in 1..Len(lists[d][i].list)
  <1>1. PICK k \in 2..Depth : frames[k].d = d /\ frames[k].i = i /\ frames[k].in
    BY DEF Busy
  <1>2. lists[d][i].firing /\ lists[d][i].at <= Len(lists[d][i].list)
    BY <1>1 DEF Structure, FramesOK
  <1>3. lists[d][i].at \in 1..Len(lists[d][i].list) + 1 /\ Len(lists[d][i].list) \in Nat
    BY <1>2, ListIs DEF Structure
  <1> QED
    BY <1>2, <1>3

LEMMA PositionIs ==
  ASSUME Structure, NEW d \in Ids, NEW i \in Lists
  PROVE  Position(d, i) \in 1..Len(lists[d][i].list) + 1
  <1>1. Len(lists[d][i].list) \in Nat
    BY ListIs DEF Structure
  <1>2. lists[d][i].firing => lists[d][i].at \in 1..Len(lists[d][i].list) + 1
    BY ListIs DEF Structure
  <1>3. Busy(d, i) => lists[d][i].at \in 1..Len(lists[d][i].list)
    BY BusyIs
  <1> QED
    BY <1>1, <1>2, <1>3 DEF Position

\* The top frame does something.
LEMMA BusyTop ==
  ASSUME Structure, NEW f \in Frames, f.d = Top.d, f.i = Top.i, frames' = WithTop(f)
  PROVE  /\ \A d, i : d # Top.d \/ i # Top.i \/ ((f.in /\ ~f.user) <=> (Top.in /\ ~Top.user)) => (Busy(d, i)' <=> Busy(d, i))
         /\ Depth > 1 => \A d, i : d = Top.d /\ i = Top.i => (Busy(d, i)' <=> f.in /\ ~f.user)
  <1>1. Depth \in Nat \ {0} /\ Top = frames[Depth]
    BY StackIs DEF Top, Structure
  <1>2. Depth' = Depth /\ frames'[Depth] = f /\ \A k \in 1..Depth : k # Depth => frames'[k] = frames[k]
    BY TopIs DEF Structure
  <1>3. \A k \in 2..Depth : /\ frames'[k].d = frames[k].d /\ frames'[k].i = frames[k].i
                            /\ k # Depth \/ ((f.in /\ ~f.user) <=> (Top.in /\ ~Top.user)) =>
                                  ((frames'[k].in /\ ~frames'[k].user) <=> (frames[k].in /\ ~frames[k].user))
    BY <1>1, <1>2
  <1>4. \A d, i : Busy(d, i)' <=> \E k \in 2..Depth : frames'[k].d = d /\ frames'[k].i = i /\ frames'[k].in /\ ~frames'[k].user
    BY <1>2 DEF Busy
  <1>5. ASSUME NEW d, NEW i, d # Top.d \/ i # Top.i \/ ((f.in /\ ~f.user) <=> (Top.in /\ ~Top.user))
        PROVE  Busy(d, i)' <=> Busy(d, i)
    <2>1. \A k \in 2..Depth : (frames'[k].d = d /\ frames'[k].i = i /\ frames'[k].in /\ ~frames'[k].user)
                             <=> (frames[k].d = d /\ frames[k].i = i /\ frames[k].in /\ ~frames[k].user)
      BY <1>1, <1>3, <1>5
    <2> QED
      BY <1>4, <2>1 DEF Busy
  <1>6. ASSUME Depth > 1
        PROVE  \A d, i : d = Top.d /\ i = Top.i => (Busy(d, i)' <=> f.in /\ ~f.user)
    <2>1. Depth \in 2..Depth
      BY <1>1, <1>6
    <2>2. \A k \in 2..Depth : frames[k].d = Top.d /\ frames[k].i = Top.i => k = Depth
      BY <1>1, <2>1 DEF Structure, FramesOK
    <2> QED
      BY <1>1, <1>2, <1>3, <1>4, <2>1, <2>2
  <1> QED
    BY <1>5, <1>6

\* The code of the top frame goes on, below a round of list i of d if one begins.
LEMMA BusyGoes ==
  ASSUME Structure, NEW f \in Frames, f.d = Top.d, f.i = Top.i, f.in, Top.in, f.user = Top.user,
         NEW d \in Ids, NEW i \in Lists, GoesOn(f, d, i)
  PROVE  \A e, j : Busy(e, j)' <=> Busy(e, j)
  <1>1. Depth \in Nat \ {0} /\ Top = frames[Depth] /\ Types
    BY StackIs DEF Top, Structure
  <1>2. /\ frames'[Depth] = f
        /\ \A k \in 1..Depth : k # Depth => frames'[k] = frames[k]
        /\ Starts(d, i) => Depth' = Depth + 1 /\ frames'[Depth + 1] = Round(d, i)
        /\ ~Starts(d, i) => Depth' = Depth
    BY <1>1, StackAfter
  <1>3. ~Round(d, i).in
    BY RoundIs
  <1>4. \A k \in 2..Depth : /\ frames'[k].d = frames[k].d /\ frames'[k].i = frames[k].i
                            /\ frames'[k].in <=> frames[k].in
                            /\ frames'[k].user <=> frames[k].user
    BY <1>1, <1>2
  <1>5. CASE Starts(d, i)
    <2>1. \A k : k \in 2..Depth + 1 <=> k = Depth + 1 \/ k \in 2..Depth
      BY <1>1
    <2> QED
      BY <1>2, <1>3, <1>4, <1>5, <2>1 DEF Busy
  <1>6. CASE ~Starts(d, i)
    BY <1>2, <1>4, <1>6 DEF Busy
  <1> QED
    BY <1>5, <1>6

\* What still comes in a list.
LEMMA ComesSame ==
  ASSUME NEW d, NEW i, lists'[d][i] = lists[d][i], Busy(d, i)' <=> Busy(d, i), NEW e
  PROVE  Comes(d, i, e)' <=> Comes(d, i, e)
  <1>1. Position(d, i)' = Position(d, i)
    BY DEF Position
  <1> QED
    BY <1>1 DEF Comes

LEMMA NoneComes ==
  ASSUME NEW d, NEW i, lists[d][i].list = <<>>, NEW e, Structure, d \in Ids, i \in Lists
  PROVE  ~Comes(d, i, e)
  <1>1. Position(d, i) \in 1..Len(<<>>) + 1
    BY PositionIs
  <1>2. Len(<<>>) = 0
    BY NoEntries
  <1>3. Position(d, i) \in Nat /\ Position(d, i) > Len(lists[d][i].list) /\ Len(lists[d][i].list) = 0
    BY <1>1, <1>2
  <1> QED
    BY <1>3 DEF Comes

\* The page, or the round that runs, hands the entry at `at' over, or nothing.
LEMMA ComesOn ==
  ASSUME Structure, NEW f \in Frames, f.d = Top.d, f.i = Top.i, f.in, frames' = WithTop(f), lists' = lists,
         NEW d \in Ids, NEW i \in Lists, NEW e, Comes(d, i, e)
  PROVE  \/ Comes(d, i, e)'
         \/ Depth > 1 /\ d = Top.d /\ i = Top.i /\ e = Running /\ ~f.user /\ (~Top.in \/ Top.user)
  <1>1. CASE d # Top.d \/ i # Top.i \/ (~f.user <=> (Top.in /\ ~Top.user))
    BY <1>1, BusyTop, ComesSame
  <1>2. CASE d = Top.d /\ i = Top.i /\ ~(~f.user <=> (Top.in /\ ~Top.user)) /\ Depth > 1
    <2>1. (Busy(d, i) <=> Top.in /\ ~Top.user) /\ (Busy(d, i)' <=> ~f.user)
      BY <1>2, BusyTop, BusyOwn
    <2>2. PICK p \in Position(d, i)..Len(lists[d][i].list) : lists[d][i].list[p] = e
      BY DEF Comes
    <2>3. Position(d, i) \in Nat /\ Len(lists[d][i].list) \in Nat /\ lists[d][i].at \in Nat
      BY PositionIs, ListIs DEF Structure
    <2>4. Depth \in 2..Depth /\ Depth \in Nat
      BY <1>2, StackIs DEF Structure
    <2>5. lists[d][i].firing
      BY <1>2, <2>4 DEF Structure, FramesOK, Top
    <2>6. CASE f.user
      <3>1. ~Busy(d, i)' /\ Busy(d, i)
        BY <1>2, <2>1, <2>6
      <3>2. Position(d, i)' = lists[d][i].at /\ Position(d, i) = lists[d][i].at + 1
        BY <2>5, <3>1 DEF Position
      <3>3. p \in Position(d, i)'..Len(lists'[d][i].list)
        BY <2>2, <2>3, <3>2
      <3> QED
        BY <2>2, <3>3 DEF Comes
    <2>7. CASE ~f.user
      <3>1. Busy(d, i)' /\ ~Busy(d, i)
        BY <1>2, <2>1, <2>7
      <3>2. Position(d, i) = lists[d][i].at /\ Position(d, i)' = lists[d][i].at + 1
        BY <2>5, <3>1 DEF Position
      <3>3. CASE p = lists[d][i].at
        BY <1>2, <2>1, <2>2, <2>7, <3>1, <3>3 DEF Running, List
      <3>4. CASE p # lists[d][i].at
        <4>1. p \in Position(d, i)'..Len(lists'[d][i].list)
          BY <2>2, <2>3, <3>2, <3>4
        <4> QED
          BY <2>2, <4>1 DEF Comes
      <3> QED
        BY <3>3, <3>4
    <2> QED
      BY <2>6, <2>7
  <1>3. CASE d = Top.d /\ i = Top.i /\ ~(Depth > 1)
    <2>1. Depth = 1 /\ Depth' = 1
      BY <1>3, StackIs, TopIs DEF Structure
    <2>2. ~Busy(d, i) /\ ~Busy(d, i)'
      BY <2>1 DEF Busy
    <2> QED
      BY <2>2, ComesSame
  <1> QED
    BY <1>1, <1>2, <1>3


-------------------------------------------------------------------------------
(* What a step leaves alone. *)

\* The frames below the top one are as they were; the code of the top one makes ops.
Carries(ops) ==
    /\ Depth' \in Nat /\ Depth' >= Depth - 1
    /\ ops \in Seq(Adding \cup Firing) /\ (ops # <<>> => Depth' >= Depth)
    /\ \A k \in 1..Depth' : /\ k < Depth => frames'[k] = frames[k]
                            /\ k = Depth => frames'[k].todo = ops
                            /\ k > Depth => frames'[k].todo = <<>>

LEMMA CallIs ==
  ASSUME Types, NEW k \in 1..Depth, NEW j \in 1..Len(frames[k].todo)
  PROVE  frames[k].todo[j] \in Adding \cup Firing /\ frames[k].todo \in Seq(Adding \cup Firing)
  <1>1. frames[k].todo \in Seq(Adding \cup Firing)
    BY StackIs, FrameIs
  <1> QED
    BY <1>1

\* Where a call of the next state comes from.
LEMMA CallsAfter ==
  ASSUME Types, NEW ops, Carries(ops), NEW k \in 1..Depth', NEW j \in 1..Len(frames'[k].todo)
  PROVE  \/ k \in 1..Depth /\ k # Depth /\ frames'[k] = frames[k] /\ j \in 1..Len(frames[k].todo)
         \/ k = Depth /\ k \in 1..Depth /\ j \in 1..Len(ops) /\ frames'[k].todo = ops
  <1>1. Depth \in Nat \ {0}
    BY StackIs
  <1>2. CASE k < Depth
    <2>1. frames'[k] = frames[k] /\ k \in 1..Depth /\ k # Depth
      BY <1>1, <1>2 DEF Carries
    <2> QED
      BY <2>1
  <1>3. CASE k = Depth
    <2>1. frames'[k].todo = ops
      BY <1>3 DEF Carries
    <2> QED
      BY <1>1, <1>3, <2>1
  <1>4. CASE k > Depth
    <2>1. frames'[k].todo = <<>>
      BY <1>4 DEF Carries
    <2> QED
      BY <2>1, NoEntries
  <1>5. k \in Nat
    BY DEF Carries
  <1> QED
    BY <1>1, <1>2, <1>3, <1>4, <1>5

LEMMA OwingStays ==
  ASSUME Types, NEW ops, Carries(ops), NEW op, Owing(op),
         \A j \in 1..Len(Top.todo) : Top.todo[j] = op => \E i \in 1..Len(ops) : ops[i] = op
  PROVE  Owing(op)'
  <1>1. PICK k \in 1..Depth : \E j \in 1..Len(frames[k].todo) : frames[k].todo[j] = op
    BY DEF Owing, Makes
  <1>2. Depth \in Nat \ {0} /\ Top = frames[Depth]
    BY StackIs DEF Top
  <1>3. CASE k # Depth
    <2>1. k \in 1..Depth' /\ k < Depth
      BY <1>2, <1>3 DEF Carries
    <2>2. frames'[k] = frames[k]
      BY <2>1 DEF Carries
    <2> QED
      BY <1>1, <2>1, <2>2 DEF Owing, Makes
  <1>4. CASE k = Depth
    <2>1. PICK i \in 1..Len(ops) : ops[i] = op
      BY <1>1, <1>2, <1>4
    <2>2. ops # <<>>
      BY <2>1, NoEntries
    <2>3. Depth \in 1..Depth'
      BY <1>2, <2>2 DEF Carries
    <2>4. frames'[Depth].todo = ops
      BY <2>3 DEF Carries
    <2> QED
      BY <2>1, <2>3, <2>4 DEF Owing, Makes
  <1> QED
    BY <1>3, <1>4

LEMMA OwingBefore ==
  ASSUME Types, NEW ops, Carries(ops), NEW op, Owing(op)'
  PROVE  Owing(op) \/ \E j \in 1..Len(ops) : ops[j] = op
  <1>1. PICK k \in 1..Depth' : \E j \in 1..Len(frames'[k].todo) : frames'[k].todo[j] = op
    BY DEF Owing, Makes
  <1>2. PICK j \in 1..Len(frames'[k].todo) : frames'[k].todo[j] = op
    BY <1>1
  <1>3. CASE k \in 1..Depth /\ k # Depth /\ frames'[k] = frames[k] /\ j \in 1..Len(frames[k].todo)
    BY <1>2, <1>3 DEF Owing, Makes
  <1>4. CASE k = Depth /\ j \in 1..Len(ops) /\ frames'[k].todo = ops
    BY <1>2, <1>4
  <1> QED
    BY <1>3, <1>4, CallsAfter

LEMMA OwingAll ==
  ASSUME Types
  PROVE  \A ops : Carries(ops) => \A op : \A i \in 1..Len(ops) : ops[i] = op => Owing(op)'
  <1> SUFFICES ASSUME NEW ops, Carries(ops), NEW i \in 1..Len(ops), NEW op, ops[i] = op
               PROVE  Owing(op)'
    OBVIOUS
  <1>1. Depth \in Nat \ {0}
    BY StackIs
  <1>2. ops # <<>>
    BY NoEntries
  <1>3. Depth \in 1..Depth'
    BY <1>1, <1>2 DEF Carries
  <1>4. frames'[Depth].todo = ops
    BY <1>3 DEF Carries
  <1> QED
    BY <1>3, <1>4 DEF Owing, Makes

\* The top frame changes what it does.
LEMMA TopCarries ==
  ASSUME Types, NEW f \in Frames, frames' = WithTop(f)
  PROVE  Carries(f.todo)
  <1>1. Depth \in Nat \ {0}
    BY StackIs
  <1>2. Depth' = Depth /\ frames'[Depth] = f /\ \A k \in 1..Depth : k # Depth => frames'[k] = frames[k]
    BY TopIs
  <1>3. f.todo \in Seq(Adding \cup Firing)
    BY FrameIs
  <1> QED
    BY <1>1, <1>2, <1>3 DEF Carries

\* What was made, taken and fired stays so.
Grown ==
    /\ Made \subseteq Made' /\ \A m \in Made : made'[m] = made[m]
    /\ \A d \in Ids : adopted[d] \subseteq adopted'[d]
    /\ passed \subseteq passed'
    /\ \A d \in Ids, i \in Sides : lists[d][i].fired => lists'[d][i].fired

LEMMA OwnsStays ==
  ASSUME Types, Grown, NEW e, NEW d, NEW i, Owns(e, d, i)
  PROVE  Owns(e, d, i)'
  <1>1. e.fn \in {"then", "settle", "count"} =>
            e.to \in Ids /\ e.to \in Made' /\ made'[e.to] = made[e.to] /\ adopted[e.to] \subseteq adopted'[e.to]
    BY MadeAre DEF Owns, Grown, Types
  <1> QED
    BY <1>1 DEF Owns

LEMMA CauseStays ==
  ASSUME Types, BooksRight, Grown, NEW d \in Made, NEW i \in Sides, Cause(d, i)
  PROVE  Cause(d, i)'
  <1>1. /\ made'[d] = made[d] /\ adopted[d] \subseteq adopted'[d] /\ passed \subseteq passed'
        /\ d \in Ids /\ Made \subseteq Ids /\ adopted[d] \subseteq Made
    BY MadeAre DEF Grown, Types, BooksRight
  <1>2. 1 \in Sides /\ 2 \in Sides
    BY DEF Sides
  <1>3. \A r \in Ids, j \in Sides : lists[r][j].fired => lists'[r][j].fired
    BY DEF Grown
  <1>4. /\ made[d].kind = "then" => made[d].of[1] \in Made
        /\ made[d].kind = "when" => \A k \in 1..2 : made[d].of[k] \in Made \cup {Page}
    BY DEF BooksRight
  <1> QED
    BY <1>1, <1>2, <1>3, <1>4 DEF Cause

LEMMA JustifiedStays ==
  ASSUME Types, BooksRight, Grown, NEW op, Justified(op)
  PROVE  Justified(op)'
  <1>1. op.d \in Made /\ op.d \in Made'
    BY DEF Justified, Grown
  <1>2. op.op = "add" => Owns(op.entry, op.d, op.i)'
    BY OwnsStays DEF Justified
  <1>3. op.op = "fire" /\ op.i \in Sides => Cause(op.d, op.i)'
    BY <1>1, CauseStays DEF Justified
  <1> QED
    BY <1>1, <1>2, <1>3 DEF Justified

LEMMA CallsStayRight ==
  ASSUME Types, BooksRight, CallsRight, Grown, NEW ops, Carries(ops),
         \A op \in Adding \cup Firing : (\E j \in 1..Len(ops) : ops[j] = op) => Owing(op) \/ Justified(op)'
  PROVE  CallsRight'
  <1> SUFFICES ASSUME NEW op \in Adding \cup Firing, Owing(op)'
               PROVE  Justified(op)'
    BY DEF CallsRight
  <1>1. Owing(op) \/ \E j \in 1..Len(ops) : ops[j] = op
    BY OwingBefore
  <1>2. Owing(op) => Justified(op)
    BY DEF CallsRight
  <1> QED
    BY <1>1, <1>2, JustifiedStays

-------------------------------------------------------------------------------
(* The page, or the library for it, makes calls; nothing else happens. *)

LEMMA NotOpening ==
  ASSUME Top.in \/ List.list[List.at].fn # "state"
  PROVE  \A d, i : ~Opening(d, i)
  BY DEF Opening, List, Begins

\* The calls of f come on top of those of the frames below.
Asking(f) ==
    /\ f \in Frames /\ f.d = Top.d /\ f.i = Top.i /\ f.in
    /\ frames' = WithTop(f) /\ Top.todo = <<>>
    /\ Top.in /\ ~Top.user => ~f.user
    /\ Top.in \/ List.list[List.at].fn # "state"
    /\ lists' = lists /\ state' = state /\ arrived' = arrived /\ broken' = broken

\* The calls are just, and only what when was just given is counted.
Fairly(f) ==
    /\ Grown /\ BooksRight'
    /\ \A op \in Adding \cup Firing : (\E j \in 1..Len(f.todo) : f.todo[j] = op) => Justified(op)'
    /\ \A op \in Firing : (\E j \in 1..Len(f.todo) : f.todo[j] = op) /\ op.op = "count" =>
          Len(f.todo) = 1 /\ Counted(Depth, op)'
    /\ \A op \in Adding, j \in 1..Len(f.todo) : f.todo[j] = op /\ op.entry.fn = "count" =>
          /\ op.entry.to \notin Made
          /\ \A o \in Adding, i \in 1..Len(f.todo) : f.todo[i] = o /\ o.entry = op.entry => i = j
    /\ \A m \in Made : remaining'[m] = remaining[m]
    /\ \A m \in Made' \ Made : made'[m].kind = "when" => remaining'[m] = Left(m, 1)' + Left(m, 2)'

LEMMA AskingJust ==
  ASSUME Structure, NEW f, Asking(f), Fairly(f), Justice
  PROVE  Justice'
  <1>1. Types /\ Grown /\ BooksRight'
    BY DEF Structure, Fairly
  <1>2. StateRight'
    <2>1. \A d, i : ~Opening(d, i)
      BY NotOpening DEF Asking
    <2> QED
      BY <2>1 DEF Asking, Justice, StateRight, SomeFired
  <1>3. DisabledRight'
    BY DEF Asking, Justice, DisabledRight
  <1>4. EntriesRight'
    <2> SUFFICES ASSUME NEW d \in Ids, NEW i \in Lists, NEW e \in Item, Listed(d, i, e)'
                 PROVE  Owns(e, d, i)'
      BY DEF EntriesRight
    <2>1. Owns(e, d, i)
      BY DEF Asking, Listed, Justice, EntriesRight
    <2> QED
      BY <1>1, <2>1, OwnsStays
  <1>5. CausesRight'
    <2> SUFFICES ASSUME NEW d \in Made', NEW i \in Sides, lists'[d][i].fired
                 PROVE  Cause(d, i)'
      BY DEF CausesRight
    <2>1. d \in Ids /\ lists[d][i].fired /\ i \in {1, 2}
      BY DEF Asking, Fairly, BooksRight, Sides
    <2>2. d \in Made
      BY <2>1 DEF Justice, BooksRight, SomeFired
    <2>3. Cause(d, i)
      BY <2>1, <2>2 DEF Justice, CausesRight
    <2> QED
      BY <1>1, <2>2, <2>3, CauseStays DEF Justice
  <1>6. CallsRight'
    <2>1. Carries(f.todo)
      BY <1>1, TopCarries DEF Asking
    <2> QED
      BY <1>1, <2>1, CallsStayRight DEF Fairly, Justice
  <1> QED
    BY <1>1, <1>2, <1>3, <1>4, <1>5, <1>6 DEF Justice

LEMMA AskingCounts ==
  ASSUME Structure, NEW f, Asking(f), Fairly(f), Justice, Tokens
  PROVE  Tokens'
  <1>1. Types /\ Depth \in Nat \ {0} /\ Top = frames[Depth]
    BY StackIs DEF Structure, Top
  <1>2. Depth' = Depth /\ frames'[Depth] = f /\ \A k \in 1..Depth : k # Depth => frames'[k] = frames[k]
    BY <1>1, TopIs DEF Asking
  <1>3. lists' = lists /\ arrived' = arrived
    BY DEF Asking
  <1>4. \A o \in Adding, h \in 1..Depth : \A i \in 1..Len(frames[h].todo) :
            frames[h].todo[i] = o /\ o.entry.fn = "count" => o.entry.to \in Made
    <2> SUFFICES ASSUME NEW o \in Adding, NEW h \in 1..Depth, NEW i \in 1..Len(frames[h].todo),
                        frames[h].todo[i] = o, o.entry.fn = "count"
                 PROVE  o.entry.to \in Made
      OBVIOUS
    <2>1. Justified(o)
      BY DEF Owing, Makes, Justice, CallsRight
    <2>2. o.op = "add"
      BY DEF Adding
    <2> QED
      BY <2>1, <2>2 DEF Justified, Owns
  <1>5. CountsRight'
    <2> SUFFICES ASSUME NEW k \in 1..Depth, NEW op \in Firing, Makes(k, op)', op.op = "count"
                 PROVE  Len(frames'[k].todo) = 1 /\ Counted(k, op)'
      BY <1>2 DEF CountsRight
    <2>1. CASE k = Depth
      BY <1>2, <2>1 DEF Makes, Fairly
    <2>2. CASE k # Depth
      <3>1. Makes(k, op)
        BY <1>2, <2>2 DEF Makes
      <3>2. Len(frames[k].todo) = 1 /\ Counted(k, op)
        BY <3>1 DEF Tokens, CountsRight
      <3> QED
        BY <1>2, <1>3, <2>2, <3>2 DEF Counted
    <2> QED
      BY <2>1, <2>2
  <1>6. SentOnce'
    <2> SUFFICES ASSUME NEW op \in Adding, NEW k \in 1..Depth, NEW j \in 1..Len(frames'[k].todo),
                        frames'[k].todo[j] = op, op.entry.fn = "count"
                 PROVE  /\ op.entry.n \notin arrived[op.entry.to] /\ ~Listed(op.d, op.i, op.entry)
                        /\ \A o \in Adding, h \in 1..Depth : \A i \in 1..Len(frames'[h].todo) :
                              frames'[h].todo[i] = o /\ o.entry = op.entry => h = k /\ i = j
      BY <1>2, <1>3 DEF SentOnce, Listed
    <2>0. op.entry \in Item /\ op.entry.to \in Ids /\ op.d \in Ids /\ op.i \in Lists
      BY DEF Adding, Item
    <2>1. CASE k = Depth
      <3>1. op.entry.to \notin Made
        BY <1>2, <2>1 DEF Fairly
      <3>2. op.entry.n \notin arrived[op.entry.to]
        BY <2>0, <3>1 DEF Justice, BooksRight
      <3>3. ~Listed(op.d, op.i, op.entry)
        BY <2>0, <3>1 DEF Justice, EntriesRight, Owns
      <3>4. ASSUME NEW o \in Adding, NEW h \in 1..Depth, NEW i \in 1..Len(frames'[h].todo),
                   frames'[h].todo[i] = o, o.entry = op.entry
            PROVE  h = k /\ i = j
        <4>1. h = Depth
          BY <1>2, <1>4, <3>1, <3>4
        <4> QED
          BY <1>2, <2>1, <3>4, <4>1 DEF Fairly
      <3> QED
        BY <3>2, <3>3, <3>4
    <2>2. CASE k # Depth
      <3>1. j \in 1..Len(frames[k].todo) /\ frames[k].todo[j] = op
        BY <1>2, <2>2
      <3>2. op.entry.to \in Made
        BY <1>4, <3>1
      <3>3. ASSUME NEW o \in Adding, NEW h \in 1..Depth, NEW i \in 1..Len(frames'[h].todo),
                   frames'[h].todo[i] = o, o.entry = op.entry
            PROVE  h = k /\ i = j
        <4>1. h # Depth
          BY <1>2, <3>2, <3>3 DEF Fairly
        <4> QED
          BY <1>2, <3>1, <3>3, <4>1, SMTT(30) DEF Tokens, SentOnce
      <3>4. op.entry.n \notin arrived[op.entry.to] /\ ~Listed(op.d, op.i, op.entry)
        BY <3>1 DEF Tokens, SentOnce
      <3> QED
        BY <3>3, <3>4
    <2> QED
      BY <2>1, <2>2
  <1>7. ListedOnce'
    BY <1>3 DEF Tokens, ListedOnce
  <1>8. ArrivedOnce'
    <2>1. \A k \in 2..Depth : frames'[k].d = frames[k].d /\ frames'[k].i = frames[k].i
                              /\ (frames[k].in /\ ~frames[k].user => frames'[k].in /\ ~frames'[k].user)
      BY <1>1, <1>2 DEF Asking
    <2>2. ASSUME NEW d \in Ids, NEW p \in 1..Len(lists[d][1].list), NEW k \in 2..Depth, CalledIn(k, d, p)
          PROVE  CalledIn(k, d, p)'
      BY <1>3, <2>1, <2>2 DEF CalledIn
    <2> QED
      BY <1>2, <1>3, <2>2 DEF Tokens, ArrivedOnce
  <1>9. CountRight'
    <2> SUFFICES ASSUME NEW m \in Made', made'[m].kind = "when"
                 PROVE  /\ remaining'[m] = Left(m, 1)' + Left(m, 2)'
                        /\ \A k \in arrived'[m] : made'[m].of[k] # Page /\ lists'[made'[m].of[k]][1].fired
      BY DEF CountRight
    <2>1. CASE m \in Made
      <3>1. made'[m] = made[m] /\ remaining'[m] = remaining[m]
        BY <2>1 DEF Fairly, Grown
      <3> QED
        BY <1>3, <2>1, <3>1 DEF Tokens, CountRight, Left
    <2>2. CASE m \notin Made
      <3>1. m \in Ids
        BY DEF Fairly, BooksRight
      <3>2. arrived[m] = {}
        BY <2>2, <3>1 DEF Justice, BooksRight
      <3> QED
        BY <1>3, <2>2, <3>2 DEF Fairly
    <2> QED
      BY <2>1, <2>2
  <1> QED
    BY <1>5, <1>6, <1>7, <1>8, <1>9 DEF Tokens

\* Who waits, waits for what was made.
LEMMA OwnedIs ==
  ASSUME BooksRight, NEW d \in Ids, NEW e \in Wires, Owns(e, d, e.i)
  PROVE  d \in Made
  <1>1. e.to \in Made /\ e.to \in Ids /\ d # Page
    BY DEF Owns, Wires, Ids, Page
  <1>2. \A k \in 1..2 : made[e.to].kind = "when" => made[e.to].of[k] \in Made \cup {Page}
    BY <1>1 DEF BooksRight
  <1>3. made[e.to].kind = "then" => made[e.to].of[1] \in Made /\ adopted[e.to] \subseteq Made
    BY <1>1 DEF BooksRight
  <1>4. e.fn \in {"then", "settle", "count"}
    BY DEF Wires
  <1> QED
    BY <1>1, <1>2, <1>3, <1>4 DEF Owns

LEMMA FiredStays ==
  ASSUME Grown, NEW d \in Ids, SomeFired(d)
  PROVE  SomeFired(d)'
  BY DEF Grown, SomeFired, Sides

\* Calls owed are still owed, or made; what was handed over stays so.
Paid ==
    /\ \A d \in Ids, i \in Sides : OwesFire(d, i) => SomeFired(d)' \/ OwesFire(d, i)'
    /\ \A e \in Wires : OwesCount(e) => e.n \in arrived'[e.to] \/ OwesCount(e)'
    /\ \A m \in Ids : arrived[m] \subseteq arrived'[m]

LEMMA HandedStays ==
  ASSUME Grown, Paid, NEW e \in Wires, Handed(e)
  PROVE  Handed(e)'
  <1>1. e.to \in Ids /\ e.i \in Sides
    BY DEF Wires, Sides
  <1>2. e.fn = "then" => e.to \in passed' \/ adopted'[e.to] # {}
    BY <1>1 DEF Handed, Grown
  <1>3. e.fn = "settle" => SomeFired(e.to)' \/ OwesFire(e.to, e.i)'
    BY <1>1, FiredStays DEF Handed, Paid
  <1>4. e.fn = "count" => e.n \in arrived'[e.to] \/ OwesCount(e)'
    BY <1>1 DEF Handed, Paid
  <1> QED
    BY <1>2, <1>3, <1>4 DEF Handed

LEMMA AllOwed ==
  ASSUME Types, Grown, \A op : Owing(op) => Owing(op)', arrived' = arrived
  PROVE  Paid
  BY DEF Paid, OwesFire, OwesCount

\* What was wired, returned and counted is kept.
LEMMA KeptIfPaid ==
  ASSUME Structure, Justice, NothingLost, Grown, Paid, BooksRight',
         \A d \in Made', e \in Wires : Owns(e, d, e.i)' => Owns(e, d, e.i) \/ Linked(e, d)',
         \A d \in Made, e \in Wires : Owns(e, d, e.i) /\ ~Handed(e) /\ Linked(e, d) => Linked(e, d)',
         \A d \in passed' \ passed : SomeFired(d)' \/ OwesFire(d, 1)' \/ OwesFire(d, 2)',
         \A m \in Made' : made'[m].kind = "when" /\ remaining'[m] = 0 =>
            (m \in Made /\ remaining[m] = 0) \/ SomeFired(m)' \/ OwesFire(m, 1)'
  PROVE  NothingLost'
  <1>1. WiresKept'
    <2> SUFFICES ASSUME NEW d \in Made', NEW e \in Wires, Owns(e, d, e.i)'
                 PROVE  Linked(e, d)'
      BY DEF WiresKept
    <2>1. CASE ~Owns(e, d, e.i)
      BY <2>1
    <2>2. CASE Owns(e, d, e.i)
      <3>1. d \in Ids /\ d \in Made
        BY <2>2, OwnedIs DEF Justice, BooksRight
      <3>2. Linked(e, d)
        BY <2>2, <3>1 DEF NothingLost, WiresKept
      <3>3. CASE Handed(e)
        BY <3>3, HandedStays DEF Linked
      <3>4. CASE ~Handed(e)
        BY <2>2, <3>1, <3>2, <3>4
      <3> QED
        BY <3>3, <3>4
    <2> QED
      BY <2>1, <2>2
  <1>2. ValuesKept'
    <2> SUFFICES ASSUME NEW d \in passed'
                 PROVE  SomeFired(d)' \/ OwesFire(d, 1)' \/ OwesFire(d, 2)'
      BY DEF ValuesKept
    <2>1. CASE d \in passed
      <3>1. d \in Ids /\ 1 \in Sides /\ 2 \in Sides
        BY <2>1 DEF Justice, BooksRight, Sides
      <3>2. SomeFired(d) \/ OwesFire(d, 1) \/ OwesFire(d, 2)
        BY <2>1 DEF NothingLost, ValuesKept
      <3> QED
        BY <3>1, <3>2, FiredStays DEF Paid
    <2> QED
      BY <2>1
  <1>3. CountKept'
    <2> SUFFICES ASSUME NEW m \in Made', made'[m].kind = "when", remaining'[m] = 0
                 PROVE  SomeFired(m)' \/ OwesFire(m, 1)'
      BY DEF CountKept
    <2>1. CASE m \in Made /\ remaining[m] = 0
      <3>1. m \in Ids /\ 1 \in Sides /\ made[m].kind = "when"
        BY <2>1 DEF Justice, BooksRight, Sides, Grown
      <3>2. SomeFired(m) \/ OwesFire(m, 1)
        BY <2>1, <3>1 DEF NothingLost, CountKept
      <3> QED
        BY <3>1, <3>2, FiredStays DEF Paid
    <2> QED
      BY <2>1
  <1> QED
    BY <1>1, <1>2, <1>3 DEF NothingLost

\* What an entry called, or a new wire, needs is among the calls made.
Wired(f) ==
    /\ \A e \in Wires : Depth > 1 /\ ~f.user /\ (~Top.in \/ Top.user) /\ e = Running => Handed(e)'
    /\ \A d \in Made', e \in Wires : Owns(e, d, e.i)' => Owns(e, d, e.i) \/ Owing(DoAdd(d, e.i, e))'
    /\ \A d \in passed' \ passed : SomeFired(d)' \/ OwesFire(d, 1)' \/ OwesFire(d, 2)'
    /\ \A m \in Made' \ Made : made'[m].kind = "when" /\ remaining'[m] = 0 => OwesFire(m, 1)'

LEMMA AskingKeeps ==
  ASSUME Structure, NEW f, Asking(f), Fairly(f), Wired(f), Justice, NothingLost
  PROVE  NothingLost'
  <1>1. Types /\ Grown /\ BooksRight' /\ Carries(f.todo) /\ Top.todo = <<>>
    BY TopCarries DEF Structure, Asking, Fairly
  <1>2. \A op : Owing(op) => Owing(op)'
    BY <1>1, OwingStays, NoEntries
  <1>3. Paid
    BY <1>1, <1>2, AllOwed DEF Asking
  <1>4. \A d \in Made', e \in Wires : Owns(e, d, e.i)' => Owns(e, d, e.i) \/ Linked(e, d)'
    BY DEF Wired, Linked
  <1>5. ASSUME NEW d \in Made, NEW e \in Wires, Linked(e, d), ~Handed(e)
        PROVE  Linked(e, d)'
    <2>1. d \in Ids /\ e.i \in Lists
      BY DEF Justice, BooksRight, Wires, Lists, Sides
    <2>2. CASE lists[d][e.i].disabled
      BY <2>2 DEF Linked, Asking
    <2>3. CASE Comes(d, e.i, e)
      <3>1. Comes(d, e.i, e)' \/ (Depth > 1 /\ e = Running /\ ~f.user /\ (~Top.in \/ Top.user))
        BY <2>1, <2>3, ComesOn DEF Asking
      <3> QED
        BY <3>1 DEF Linked, Wired
    <2>4. CASE Owing(DoAdd(d, e.i, e))
      BY <1>2, <2>4 DEF Linked
    <2> QED
      BY <1>5, <2>2, <2>3, <2>4 DEF Linked
  <1>6. \A m \in Made' : made'[m].kind = "when" /\ remaining'[m] = 0 =>
            (m \in Made /\ remaining[m] = 0) \/ SomeFired(m)' \/ OwesFire(m, 1)'
    BY DEF Fairly, Wired
  <1>7. \A d \in passed' \ passed : SomeFired(d)' \/ OwesFire(d, 1)' \/ OwesFire(d, 2)'
    BY DEF Wired
  <1> QED
    BY <1>1, <1>3, <1>4, <1>5, <1>6, <1>7, KeptIfPaid

LEMMA AskingIs ==
  ASSUME Structure, CausesInv, NEW f, Asking(f), Fairly(f), ~broken => Wired(f)
  PROVE  CausesInv'
  <1>1. Justice' /\ Tokens'
    BY AskingJust, AskingCounts DEF CausesInv
  <1>2. broken' = broken
    BY DEF Asking
  <1>3. ~broken => NothingLost'
    BY AskingKeeps DEF CausesInv
  <1>4. LoopsRight'
    <2>1. Depth' = Depth /\ frames'[Depth].in /\ \A k \in 1..Depth : k # Depth => frames'[k] = frames[k]
      BY TopIs DEF Asking, Structure
    <2> QED
      BY <2>1 DEF CausesInv, LoopsRight
  <1> QED
    BY <1>1, <1>2, <1>3, <1>4 DEF CausesInv

-------------------------------------------------------------------------------
(* What the page, and the library for it, asks. *)

LEMMA Answered ==
  ASSUME Types, NEW ops \in Seq(Adding \cup Firing), NEW f, f = [Top EXCEPT !.user = FALSE, !.todo = ops], Top.in
  PROVE  f \in Frames /\ f.d = Top.d /\ f.i = Top.i /\ f.in /\ ~f.user /\ f.todo = ops
  <1>1. Top \in Frames
    BY StackIs
  <1> QED
    BY <1>1 DEF Frames

LEMMA Continued ==
  ASSUME Types, NEW ops \in Seq(Adding \cup Firing), NEW f,
         \/ f = [Top EXCEPT !.todo = ops] /\ Top.in
         \/ f = [Top EXCEPT !.in = TRUE, !.todo = ops]
  PROVE  f \in Frames /\ f.d = Top.d /\ f.i = Top.i /\ f.in /\ (f.user <=> Top.user) /\ f.todo = ops
  <1>1. Top \in Frames
    BY StackIs
  <1> QED
    BY <1>1 DEF Frames

\* The calls themselves.
LEMMA AddIs ==
  ASSUME NEW d, NEW i, NEW e, NEW op, op = DoAdd(d, i, e)
  PROVE  op.op = "add" /\ op.d = d /\ op.i = i /\ op.entry = e
  BY DEF DoAdd

LEMMA FireIs ==
  ASSUME NEW d, NEW i, NEW v, NEW op, op = DoFire(d, i, v)
  PROVE  op.op = "fire" /\ op.d = d /\ op.i = i /\ op.value = v
  <1>1. PICK e : e = Entry("none", 0, 0, i)
    OBVIOUS
  <1>2. op = [op |-> "fire", d |-> d, i |-> i, entry |-> e, value |-> v]
    BY <1>1 DEF DoFire
  <1> QED
    BY <1>2

LEMMA EntryOf ==
  ASSUME NEW fn, NEW n, NEW to, NEW i, NEW e, e = Entry(fn, n, to, i)
  PROVE  e.fn = fn /\ e.n = n /\ e.to = to /\ e.i = i
  BY DEF Entry

LEMMA WireIs ==
  ASSUME NEW e \in Wires
  PROVE  /\ e = Entry(e.fn, e.n, e.to, e.i) /\ e.to \in Ids /\ e.i \in Sides /\ e.i \in Lists
         /\ e.fn \in {"then", "settle", "count"}
         /\ e.fn # "count" => e.n = 0
         /\ e.fn = "count" => e.i = 1 /\ e.n \in 1..2
  BY DEF Wires, Entry, Sides, Lists

LEMMA OneCall ==
  ASSUME NEW op \in Adding \cup Firing, NEW ops, ops = <<op>>
  PROVE  /\ ops \in Seq(Adding \cup Firing) /\ Len(ops) = 1 /\ 1 \in 1..Len(ops) /\ ops[1] = op
         /\ \A j \in 1..Len(ops) : ops[j] = op
  OBVIOUS

LEMMA CallsOne ==
  ASSUME Types, NEW f, NEW op \in Adding \cup Firing, f.todo = <<op>>, Carries(f.todo)
  PROVE  Owing(op)' /\ \A j \in 1..Len(f.todo) : f.todo[j] = op
  <1>1. Len(f.todo) = 1 /\ 1 \in 1..Len(f.todo) /\ f.todo[1] = op /\ \A j \in 1..Len(f.todo) : f.todo[j] = op
    BY OneCall
  <1> QED
    BY <1>1, OwingAll

\* The books of the library, when nothing is made and when something is.
LEMMA BooksSame ==
  ASSUME Types, BooksRight, made' = made, lists' = lists, state' = state, arrived' = arrived,
         remaining' = remaining, adopted' \in [Ids -> SUBSET Made], passed' \subseteq Made,
         \A d \in Ids : adopted[d] \subseteq adopted'[d] /\ (d \notin Made => adopted'[d] = adopted[d]),
         passed \subseteq passed'
  PROVE  BooksRight' /\ Grown /\ Made' = Made
  <1>1. Made' = Made
    BY DEF Made
  <1> QED
    BY <1>1 DEF BooksRight, Grown, SomeFired

LEMMA BooksMade ==
  ASSUME Types, BooksRight, Len(made) < MaxDeferreds, NEW r, NEW m, m = Len(made) + 1, made' = Append(made, r),
         r.kind = "then" => Len(r.of) = 1 /\ r.of[1] \in Made,
         r.kind = "when" => Len(r.of) = 2 /\ \A k \in 1..2 : r.of[k] \in Made \cup {Page},
         lists' = lists, state' = state, arrived' = arrived, adopted' = adopted, passed' = passed,
         remaining' = [d \in Ids |-> remaining'[d]]
  PROVE  BooksRight' /\ Grown /\ Made' = Made \cup {m} /\ m \notin Made /\ m \in Ids /\ made'[m] = r
  <1>1. made \in Seq(Making) /\ Len(made) \in Nat /\ MaxDeferreds \in Nat /\ Made = 1..Len(made)
    BY ValsAre DEF Types, Counts, Made
  <1>2. Made' = Made \cup {m} /\ m \notin Made /\ m \in Ids /\ made'[m] = r /\ \A k \in Made : made'[k] = made[k]
    <2>1. DOMAIN made' = 1..Len(made) + 1 /\ made'[m] = r /\ \A k \in 1..Len(made) : made'[k] = made[k]
      BY <1>1
    <2> QED
      BY <1>1, <2>1 DEF Made, Ids
  <1>3. BooksRight'
    <2>1. \A k \in Made' :
            /\ made'[k].kind = "then" => Len(made'[k].of) = 1 /\ made'[k].of[1] \in Made'
            /\ made'[k].kind = "when" => Len(made'[k].of) = 2 /\ \A j \in 1..2 : made'[k].of[j] \in Made' \cup {Page}
      <3> SUFFICES ASSUME NEW k \in Made'
                   PROVE  /\ made'[k].kind = "then" => Len(made'[k].of) = 1 /\ made'[k].of[1] \in Made'
                          /\ made'[k].kind = "when" =>
                                Len(made'[k].of) = 2 /\ \A j \in 1..2 : made'[k].of[j] \in Made' \cup {Page}
        OBVIOUS
      <3>1. \A x : x \in Made => x \in Made'
        BY <1>2
      <3>2. CASE k \in Made
        <4>1. made'[k] = made[k]
          BY <1>2, <3>2
        <4>2. /\ made[k].kind = "then" => Len(made[k].of) = 1 /\ made[k].of[1] \in Made
              /\ made[k].kind = "when" => Len(made[k].of) = 2 /\ \A j \in 1..2 : made[k].of[j] \in Made \cup {Page}
          BY <3>2 DEF BooksRight
        <4> QED
          BY <3>1, <4>1, <4>2
      <3>3. CASE k = m
        <4>1. made'[k] = r
          BY <1>2, <3>3
        <4> QED
          BY <3>1, <4>1
      <3> QED
        BY <1>2, <3>2, <3>3
    <2>2. Made' \subseteq Ids /\ adopted' \in [Ids -> SUBSET Made'] /\ passed' \subseteq Made'
      BY <1>2 DEF BooksRight
    <2>3. \A k \in Ids \ Made' : arrived'[k] = {} /\ adopted'[k] = {} /\ ~SomeFired(k)'
      BY <1>2 DEF BooksRight, SomeFired
    <2>4. state' = [d \in Ids |-> state'[d]] /\ arrived' \in [Ids -> SUBSET (1..2)]
      BY DEF BooksRight
    <2> QED
      BY <2>1, <2>2, <2>3, <2>4 DEF BooksRight
  <1>4. Grown
    BY <1>2 DEF Grown
  <1> QED
    BY <1>2, <1>3, <1>4

\* A wire of what was there before was there before.
LEMMA OldWire ==
  ASSUME NEW e \in Wires, NEW d, Owns(e, d, e.i)', e.to \in Made, made'[e.to] = made[e.to],
         adopted'[e.to] = adopted[e.to]
  PROVE  Owns(e, d, e.i)
  BY DEF Owns, Wires

LEMMA FairlyPlain ==
  ASSUME Grown, BooksRight', remaining' = remaining, \A m \in Made' \ Made : made'[m].kind # "when", NEW f,
         \A op \in Adding \cup Firing : (\E j \in 1..Len(f.todo) : f.todo[j] = op) =>
            /\ Justified(op)'
            /\ op.op = "count" => Len(f.todo) = 1 /\ Counted(Depth, op)'
            /\ op.op = "add" => op.entry.fn # "count"
  PROVE  Fairly(f)
  <1>1. \A op \in Adding : op.op = "add"
    BY DEF Adding
  <1> QED
    BY <1>1 DEF Fairly

LEMMA NoWires ==
  ASSUME BooksRight', \A m \in Made' : adopted'[m] = adopted[m],
         \A m \in Made : made'[m] = made[m], \A m \in Made' \ Made : made'[m].kind = "new"
  PROVE  \A d \in Made', e \in Wires : Owns(e, d, e.i)' => Owns(e, d, e.i)
  <1> SUFFICES ASSUME NEW d \in Made', NEW e \in Wires, Owns(e, d, e.i)'
               PROVE  Owns(e, d, e.i)
    OBVIOUS
  <1>1. e.fn \in {"then", "settle", "count"}
    BY WireIs
  <1>2. e.to \in Made'
    BY <1>1 DEF Owns
  <1>3. made'[e.to].kind # "new"
    BY <1>1 DEF Owns
  <1>4. e.to \in Made
    BY <1>2, <1>3
  <1> QED
    BY <1>2, <1>4, OldWire

LEMMA NewAsks == ASSUME Structure, CausesInv, New PROVE CausesInv'
  <1>1. PICK r : r = [kind |-> "new", of |-> <<>>, fns |-> {}]
    OBVIOUS
  <1>2. /\ PageRuns /\ Len(made) < MaxDeferreds /\ frames' = frames /\ made' = Append(made, r)
        /\ lists' = lists /\ state' = state /\ remaining' = remaining /\ arrived' = arrived
        /\ adopted' = adopted /\ passed' = passed /\ broken' = broken
    BY <1>1 DEF New, history
  <1>3. Types /\ Top \in Frames /\ BooksRight /\ r.kind = "new" /\ remaining = [d \in Ids |-> remaining[d]]
    BY <1>1, StackIs DEF Structure, CausesInv, Justice, BooksRight
  <1>4. PICK m : m = Len(made) + 1
    OBVIOUS
  <1>5. BooksRight' /\ Grown /\ Made' = Made \cup {m} /\ m \notin Made /\ made'[m] = r
    BY <1>2, <1>3, <1>4, BooksMade
  <1>6. Top.in /\ Top.user /\ Top.todo = <<>> /\ frames' = WithTop(Top)
    BY <1>2, <1>3, TopStays DEF PageRuns
  <1>7. Asking(Top)
    BY <1>2, <1>3, <1>6 DEF Asking
  <1>8. Fairly(Top)
    <2>1. \A k \in Made' \ Made : made'[k].kind # "when"
      BY <1>3, <1>5
    <2>2. Len(Top.todo) = 0
      BY <1>6, NoEntries
    <2>3. \A op : ~\E j \in 1..Len(Top.todo) : Top.todo[j] = op
      BY <2>2
    <2> QED
      BY <1>2, <1>5, <2>1, <2>3, FairlyPlain
  <1>9. Wired(Top)
    <2>1. \A d \in Made', e \in Wires : Owns(e, d, e.i)' => Owns(e, d, e.i)
      BY <1>2, <1>3, <1>5, NoWires DEF Grown
    <2> QED
      BY <1>2, <1>3, <1>5, <1>6, <2>1 DEF Wired
  <1> QED
    BY <1>7, <1>8, <1>9, AskingIs

LEMMA FireAsks == ASSUME Structure, CausesInv, NEW d \in Plain, NEW i \in Lists, Fire(d, i) PROVE CausesInv'
  <1>1. PICK op : op = DoFire(d, i, calls + 1)
    OBVIOUS
  <1>2. PICK f : f = [Top EXCEPT !.todo = <<op>>]
    OBVIOUS
  <1>3. /\ PageRuns /\ calls < MaxCalls /\ frames' = WithTop(f)
        /\ made' = made /\ lists' = lists /\ state' = state /\ remaining' = remaining /\ arrived' = arrived
        /\ adopted' = adopted /\ passed' = passed /\ broken' = broken
    BY <1>1, <1>2 DEF Fire, Program, history
  <1>4. Types /\ Counts /\ BooksRight /\ d \in Made /\ d \in Ids /\ made[d].kind = "new"
    BY MadeAre DEF Structure, Types, CausesInv, Justice, Plain
  <1>5. calls + 1 \in Vals
    BY <1>3, <1>4, ValsAre DEF Counts, Vals
  <1>6. op \in Adding \cup Firing /\ op.op = "fire" /\ op.d = d /\ op.i = i
    <2>1. QuietOps(<<op>>)
      BY <1>1, <1>4, <1>5, FireIsQuiet
    <2> QED
      BY <1>1, <2>1, FireIs DEF QuietOps
  <1>7. <<op>> \in Seq(Adding \cup Firing) /\ \A j \in 1..Len(<<op>>) : <<op>>[j] = op
    BY <1>6, OneCall
  <1>8. f \in Frames /\ f.d = Top.d /\ f.i = Top.i /\ f.in /\ f.user /\ f.todo = <<op>> /\ Top.todo = <<>> /\ Top.in /\ Top.user
    BY <1>2, <1>3, <1>4, <1>7, Continued DEF PageRuns
  <1>9. BooksRight' /\ Grown /\ Made' = Made
    BY <1>3, <1>4, BooksSame DEF BooksRight
  <1>10. Asking(f)
    BY <1>3, <1>8 DEF Asking
  <1>11. Justified(op)'
    BY <1>3, <1>4, <1>6, <1>9 DEF Justified, Cause
  <1>12. Fairly(f)
    BY <1>3, <1>6, <1>7, <1>8, <1>9, <1>11, FairlyPlain
  <1>13. Wired(f)
    <2>1. \A e, k : Owns(e, k, e.i)' => Owns(e, k, e.i)
      BY <1>3, <1>9 DEF Owns
    <2> QED
      BY <1>3, <1>8, <1>9, <2>1 DEF Wired
  <1> QED
    BY <1>10, <1>12, <1>13, AskingIs

\* Nothing is made.
LEMMA AsksOnly ==
  ASSUME Structure, CausesInv, NEW f, Asking(f), made' = made, remaining' = remaining,
         adopted' \in [Ids -> SUBSET Made], passed' \subseteq Made,
         \A d \in Ids : adopted[d] \subseteq adopted'[d] /\ (d \notin Made => adopted'[d] = adopted[d]),
         passed \subseteq passed',
         \A op \in Adding \cup Firing : (\E j \in 1..Len(f.todo) : f.todo[j] = op) =>
            /\ Justified(op)'
            /\ op.op = "count" => Len(f.todo) = 1 /\ Counted(Depth, op)'
            /\ op.op = "add" => op.entry.fn # "count",
         \A e \in Wires : Depth > 1 /\ ~f.user /\ (~Top.in \/ Top.user) /\ e = Running => Handed(e)',
         adopted' = adopted \/ \A d \in Made, e \in Wires : Owns(e, d, e.i)' => Owns(e, d, e.i) \/ Owing(DoAdd(d, e.i, e))',
         \A d \in passed' \ passed : OwesFire(d, 1)' \/ OwesFire(d, 2)'
  PROVE  CausesInv'
  <1>1. Types /\ BooksRight
    BY DEF Structure, CausesInv, Justice
  <1>2. BooksRight' /\ Grown /\ Made' = Made
    BY <1>1, BooksSame DEF Asking
  <1>3. Fairly(f)
    BY <1>2, FairlyPlain
  <1>4. adopted' = adopted => \A e, d : Owns(e, d, e.i)' => Owns(e, d, e.i)
    BY <1>2 DEF Owns
  <1>5. Wired(f)
    BY <1>2, <1>4 DEF Wired
  <1> QED
    BY <1>3, <1>5, AskingIs

LEMMA AddersOnly ==
  ASSUME NEW d \in Ids, NEW n \in Nat, NEW hows \in (SUBSET {1, 2}) \ {{}}, NEW ops, ops = Adders(d, n, hows)
  PROVE  ops \in Seq(Adding \cup Firing) /\ \A j \in 1..Len(ops) : \E i \in {1, 2} : ops[j] = HandlerAdd(d, n, i)
  <1>1. PICK a : a = HandlerAdd(d, n, 1)
    OBVIOUS
  <1>2. PICK b : b = HandlerAdd(d, n, 2)
    OBVIOUS
  <1>3. ops \in Seq(Adding \cup Firing)
    BY AddersAre DEF Sends
  <1>4. ops \in {<<a>>, <<b>>, <<a, b>>}
    BY <1>1, <1>2 DEF Adders
  <1>5. \A j \in 1..Len(ops) : ops[j] = a \/ ops[j] = b
    BY <1>4
  <1> QED
    BY <1>1, <1>2, <1>3, <1>5

LEMMA RegisterAsks ==
  ASSUME Structure, CausesInv, NEW d \in Made, NEW hows \in (SUBSET {1, 2}) \ {{}}, Register(d, hows)
  PROVE  CausesInv'
  <1>1. PICK n : n = Len(registered) + 1
    OBVIOUS
  <1>2. PICK ops : ops = Adders(d, n, hows)
    OBVIOUS
  <1>3. PICK f : f = [Top EXCEPT !.todo = ops]
    OBVIOUS
  <1>4. /\ PageRuns /\ frames' = WithTop(f)
        /\ made' = made /\ lists' = lists /\ state' = state /\ remaining' = remaining /\ arrived' = arrived
        /\ adopted' = adopted /\ passed' = passed /\ broken' = broken
    BY <1>1, <1>2, <1>3 DEF Register, Program, HandlerAdd, Adders
  <1>5. Types /\ BooksRight /\ d \in Ids /\ n \in Nat
    BY <1>1, MadeAre DEF Structure, Types, Counts, CausesInv, Justice
  <1>6. ops \in Seq(Adding \cup Firing) /\ \A j \in 1..Len(ops) : \E i \in {1, 2} : ops[j] = HandlerAdd(d, n, i)
    BY <1>2, <1>5, AddersOnly
  <1>7. f \in Frames /\ f.d = Top.d /\ f.i = Top.i /\ f.in /\ f.user /\ f.todo = ops /\ Top.todo = <<>> /\ Top.in /\ Top.user
    BY <1>3, <1>4, <1>5, <1>6, Continued DEF PageRuns
  <1>8. Asking(f)
    BY <1>4, <1>7 DEF Asking
  <1>9. ASSUME NEW op, NEW i \in {1, 2}, op = HandlerAdd(d, n, i)
        PROVE  Justified(op)' /\ op.op = "add" /\ op.entry.fn # "count"
    <2>1. PICK e : e = Entry("handler", n, d, i)
      OBVIOUS
    <2>2. op.op = "add" /\ op.d = d /\ op.i = i /\ op.entry = e /\ e.fn = "handler" /\ e.i = i
      BY <1>9, <2>1, AddIs, EntryOf DEF HandlerAdd
    <2>3. d \in Made'
      BY <1>4 DEF Made
    <2> QED
      BY <2>2, <2>3 DEF Justified, Owns
  <1>10. \A op \in Adding \cup Firing : (\E j \in 1..Len(f.todo) : f.todo[j] = op) =>
            Justified(op)' /\ op.op = "add" /\ op.entry.fn # "count"
    BY <1>6, <1>7, <1>9
  <1>11. /\ adopted' \in [Ids -> SUBSET Made] /\ passed' \subseteq Made /\ passed \subseteq passed'
         /\ \A e \in Ids : adopted[e] \subseteq adopted'[e] /\ (e \notin Made => adopted'[e] = adopted[e])
         /\ passed' \ passed = {}
    BY <1>4, <1>5 DEF BooksRight
  <1> QED
    BY <1>4, <1>7, <1>8, <1>10, <1>11, AsksOnly

LEMMA CallAsks ==
  ASSUME Structure, CausesInv, CallFunction
  PROVE  CausesInv'
  <1>1. PICK f : f = [Top EXCEPT !.in = TRUE, !.user = TRUE]
    OBVIOUS
  <1>2. /\ Looping /\ HasNext(List) /\ List.list[List.at].fn \in {"handler", "then"} /\ frames' = WithTop(f)
        /\ made' = made /\ lists' = lists /\ state' = state /\ remaining' = remaining /\ arrived' = arrived
        /\ adopted' = adopted /\ passed' = passed /\ broken' = broken
    BY <1>1 DEF CallFunction, HasFunction
  <1>3. Types /\ BooksRight /\ Top.todo = <<>> /\ <<>> \in Seq(Adding \cup Firing) /\ ~Top.in
    BY <1>2, LoopIs DEF Structure, CausesInv, Justice, Looping
  <1>4. f \in Frames /\ f.d = Top.d /\ f.i = Top.i /\ f.in /\ f.user /\ f.todo = <<>>
    <2>1. Top \in Frames
      BY <1>3, StackIs
    <2> QED
      BY <1>1, <1>3, <2>1 DEF Frames
  <1>5. Asking(f)
    BY <1>2, <1>3, <1>4 DEF Asking
  <1>6. \A op : ~\E j \in 1..Len(f.todo) : f.todo[j] = op
    BY <1>4, NoEntries
  <1>7. /\ adopted' \in [Ids -> SUBSET Made] /\ passed' \subseteq Made /\ passed \subseteq passed'
        /\ \A e \in Ids : adopted[e] \subseteq adopted'[e] /\ (e \notin Made => adopted'[e] = adopted[e])
        /\ passed' \ passed = {}
    BY <1>2, <1>3 DEF BooksRight
  <1> QED
    BY <1>2, <1>4, <1>5, <1>6, <1>7, AsksOnly

\* What is called is fired, and is waited for by those it says.
LEMMA CalledIs ==
  ASSUME Structure, EntriesRight, BooksRight, Depth > 1, Top.in \/ HasNext(List), NEW e, e = List.list[List.at]
  PROVE  /\ Top.d \in Ids /\ Top.i \in Lists /\ List = lists[Top.d][Top.i] /\ List.data \in Vals /\ e \in Item
         /\ List.at \in 1..Len(List.list)
         /\ Owns(e, Top.d, Top.i) /\ e.i = Top.i
         /\ Top.i \in Sides => lists[Top.d][Top.i].fired
         /\ Top.d # Page
  <1>1. /\ Top.d \in Ids /\ Top.i \in Lists /\ List = lists[Top.d][Top.i] /\ List.firing
        /\ List.at \in 1..Len(List.list) /\ e \in Item
    BY LoopIs, RunningIs DEF Looping, Running
  <1>2. List.data \in Vals
    BY <1>1, ListIs DEF Structure
  <1>3. Listed(Top.d, Top.i, e)
    BY <1>1 DEF Listed
  <1>4. Owns(e, Top.d, Top.i)
    BY <1>1, <1>3 DEF EntriesRight
  <1>5. e.i = Top.i
    BY <1>4 DEF Owns
  <1>6. Top.i \in Sides => lists[Top.d][Top.i].fired
    BY <1>1, SideIs DEF Structure
  <1>7. Top.d # Page
    BY <1>1 DEF Ids, Page
  <1> QED
    BY <1>1, <1>2, <1>4, <1>5, <1>6, <1>7

LEMMA ForwardAsks ==
  ASSUME Structure, CausesInv, CallForward
  PROVE  CausesInv'
  <1>1. PICK e : e = List.list[List.at]
    OBVIOUS
  <1>2. PICK v : v = List.data
    OBVIOUS
  <1>3. PICK op : op = IF e.fn = "count" THEN DoCount(e, v) ELSE DoFire(e.to, e.i, v)
    OBVIOUS
  <1>4. PICK f : f = [Top EXCEPT !.in = TRUE, !.todo = <<op>>]
    OBVIOUS
  <1>5. /\ Looping /\ HasNext(List) /\ e.fn \in {"then", "settle", "count"} /\ frames' = WithTop(f)
        /\ passed' = IF e.fn = "then" /\ e.i # 3 THEN passed \cup {e.to} ELSE passed
        /\ made' = made /\ lists' = lists /\ state' = state /\ remaining' = remaining /\ arrived' = arrived
        /\ adopted' = adopted /\ broken' = broken
    BY <1>1, <1>2, <1>3, <1>4 DEF CallForward
  <1>6. /\ Types /\ Justice /\ BooksRight /\ EntriesRight /\ Tokens /\ LoopsRight
        /\ Top.todo = <<>> /\ ~Top.in /\ Depth \in Nat /\ Depth > 1
    BY <1>5, LoopIs DEF Structure, CausesInv, Justice, Looping
  <1>7. /\ Top.d \in Ids /\ Top.i \in Lists /\ List = lists[Top.d][Top.i] /\ v \in Vals /\ e \in Item
        /\ List.at \in 1..Len(List.list) /\ Owns(e, Top.d, Top.i) /\ e.i = Top.i
        /\ Top.i \in Sides => lists[Top.d][Top.i].fired
        /\ Top.d # Page
    BY <1>1, <1>2, <1>5, <1>6, CalledIs
  <1>8. e.to \in Made /\ e.to \in Ids /\ e.i \in Lists /\ e.to \in Made'
    BY <1>5, <1>7 DEF Owns, Item, Made
  <1>9. /\ op \in Adding \cup Firing /\ op.d = e.to
        /\ e.fn = "count" => op.op = "count" /\ op.entry = e
        /\ e.fn # "count" => op.op = "fire" /\ op.i = e.i
    <2>1. CASE e.fn = "count"
      <3>1. op = DoCount(e, v)
        BY <1>3, <2>1
      <3>2. QuietOps(<<op>>)
        BY <1>7, <3>1, CountIsQuiet
      <3> QED
        BY <2>1, <3>1, <3>2, CountIs DEF QuietOps
    <2>2. CASE e.fn # "count"
      <3>1. op = DoFire(e.to, e.i, v)
        BY <1>3, <2>2
      <3>2. QuietOps(<<op>>)
        BY <1>7, <1>8, <3>1, FireIsQuiet
      <3> QED
        BY <2>2, <3>1, <3>2, FireIs DEF QuietOps
    <2> QED
      BY <2>1, <2>2
  <1>10. <<op>> \in Seq(Adding \cup Firing) /\ Len(<<op>>) = 1 /\ \A j \in 1..Len(<<op>>) : <<op>>[j] = op
    BY <1>9, OneCall
  <1>11. f \in Frames /\ f.d = Top.d /\ f.i = Top.i /\ f.in /\ (f.user <=> Top.user) /\ f.todo = <<op>>
    <2>1. PICK ops : ops = <<op>>
      OBVIOUS
    <2>2. ops \in Seq(Adding \cup Firing) /\ f = [Top EXCEPT !.in = TRUE, !.todo = ops]
      BY <1>4, <1>10, <2>1
    <2> QED
      BY <1>6, <2>1, <2>2, Continued, ZenonT(30)
  <1>12. Asking(f) /\ Carries(f.todo)
    <2>1. List.list[List.at].fn # "state"
      BY <1>1, <1>5
    <2> QED
      BY <1>5, <1>6, <1>11, <2>1, TopCarries DEF Asking
  <1>13. Owing(op)'
    BY <1>6, <1>9, <1>11, <1>12, CallsOne
  <1>14. Justified(op)'
    <2>1. CASE e.fn = "count"
      BY <1>8, <1>9, <2>1 DEF Justified
    <2>2. CASE e.fn # "count" /\ e.i \notin Sides
      BY <1>8, <1>9, <2>2 DEF Justified
    <2>3. CASE e.fn = "then" /\ e.i \in Sides
      <3>1. e.to \in passed' /\ made'[e.to].kind = "then" /\ made'[e.to].of[1] = Top.d /\ lists'[Top.d][e.i].fired
        BY <1>5, <1>7, <2>3 DEF Owns, Sides
      <3>2. Cause(e.to, e.i)'
        BY <3>1 DEF Cause
      <3> QED
        BY <1>8, <1>9, <2>3, <3>2 DEF Justified
    <2>4. CASE e.fn = "settle" /\ e.i \in Sides
      <3>1. lists'[Top.d][e.i].fired
        BY <1>5, <1>7, <2>4
      <3>2. Cause(e.to, e.i)'
        BY <1>5, <1>7, <2>4, <3>1 DEF Cause, Owns, Sides
      <3> QED
        BY <1>8, <1>9, <2>4, <3>2 DEF Justified
    <2> QED
      BY <1>5, <2>1, <2>2, <2>3, <2>4
  <1>15. e.fn = "count" => Counted(Depth, op)'
    <2> SUFFICES ASSUME e.fn = "count" PROVE Counted(Depth, op)'
      OBVIOUS
    <2>1. frames'[Depth] = f /\ Depth' = Depth /\ ~Top.user
      BY <1>5, <1>6, <1>11, TopIs DEF LoopsRight, Top
    <2>2. e.i = 1 /\ Top.i = 1
      BY <1>7 DEF Owns
    <2>3. e = lists'[Top.d][1].list[lists'[Top.d][1].at]
      BY <1>1, <1>5, <1>7, <2>2
    <2>4. e.n \notin arrived[e.to]
      <3>1. lists[Top.d][1].at \in 1..Len(lists[Top.d][1].list) /\ lists[Top.d][1].list[lists[Top.d][1].at] = e
        BY <1>1, <1>7, <2>2
      <3>2. e.n \in arrived[e.to] => \A k \in 2..Depth : CalledIn(k, Top.d, lists[Top.d][1].at)
        BY <1>6, <1>7, <3>1 DEF Tokens, ArrivedOnce
      <3>3. Depth \in 2..Depth /\ ~frames[Depth].in /\ frames[Depth].d = Top.d /\ frames[Depth].i = 1
        BY <1>6, <2>2 DEF Top
      <3>4. ~CalledIn(Depth, Top.d, lists[Top.d][1].at)
        BY <3>1, <3>3 DEF CalledIn
      <3> QED
        BY <3>2, <3>3, <3>4
    <2> QED
      <3>1. Depth # 1 /\ f.in /\ ~f.user /\ f.i = 1 /\ f.d = Top.d
        BY <1>6, <1>11, <2>1, <2>2
      <3>2. op.entry = e /\ op.d = e.to /\ e.fn = "count" /\ arrived' = arrived
        BY <1>5, <1>9
      <3>3. op.entry = lists'[frames'[Depth].d][1].list[lists'[frames'[Depth].d][1].at]
        BY <2>1, <2>3, <3>1, <3>2
      <3>4. op.entry.fn = "count" /\ op.entry.to = op.d /\ op.entry.n \notin arrived'[op.d]
        BY <2>4, <3>2
      <3> QED
        BY <2>1, <3>1, <3>3, <3>4 DEF Counted
  <1>16. \A o \in Adding \cup Firing : (\E j \in 1..Len(f.todo) : f.todo[j] = o) =>
            /\ Justified(o)'
            /\ o.op = "count" => Len(f.todo) = 1 /\ Counted(Depth, o)'
            /\ o.op = "add" => o.entry.fn # "count"
    <2> SUFFICES ASSUME NEW o \in Adding \cup Firing, NEW j \in 1..Len(f.todo), f.todo[j] = o
                 PROVE  /\ Justified(o)'
                        /\ o.op = "count" => Len(f.todo) = 1 /\ Counted(Depth, o)'
                        /\ o.op = "add" => o.entry.fn # "count"
      OBVIOUS
    <2>1. o = op
      BY <1>10, <1>11
    <2> QED
      BY <1>9, <1>10, <1>11, <1>14, <1>15, <2>1
  <1>17. \A d \in Ids, i \in Sides : e.fn # "count" /\ e.to = d /\ e.i = i => OwesFire(d, i)'
    BY <1>3, <1>7, <1>13 DEF OwesFire
  <1>18. \A w \in Wires : w = Running => Handed(w)'
    <2> SUFFICES ASSUME NEW w \in Wires, w = Running PROVE Handed(w)'
      OBVIOUS
    <2>1. w = e /\ w.i \in Sides /\ w.i # 3
      BY <1>1, WireIs DEF Running, Sides
    <2>2. w.fn = "then" => w.to \in passed'
      BY <1>5, <2>1
    <2>3. w.fn = "settle" => OwesFire(w.to, w.i)'
      BY <1>8, <1>17, <2>1
    <2>4. w.fn = "count" => OwesCount(w)'
      BY <1>3, <1>7, <1>13, <2>1 DEF OwesCount
    <2> QED
      BY <2>2, <2>3, <2>4 DEF Handed
  <1>19. /\ adopted' \in [Ids -> SUBSET Made] /\ passed' \subseteq Made /\ passed \subseteq passed'
         /\ \A d \in Ids : adopted[d] \subseteq adopted'[d] /\ (d \notin Made => adopted'[d] = adopted[d])
    BY <1>5, <1>6, <1>8 DEF BooksRight
  <1>20. \A d \in passed' \ passed : OwesFire(d, 1)' \/ OwesFire(d, 2)'
    <2>1. e.i \in {1, 2, 3}
      BY <1>8 DEF Lists
    <2> QED
      BY <1>5, <1>8, <1>17, <2>1 DEF Sides
  <1> QED
    BY <1>5, <1>12, <1>16, <1>18, <1>19, <1>20, AsksOnly

LEMMA ValueAsks ==
  ASSUME Structure, CausesInv, ReturnValue
  PROVE  CausesInv'
  <1>1. PICK e : e = List.list[List.at]
    OBVIOUS
  <1>2. PICK v : v = List.data
    OBVIOUS
  <1>3. PICK op : op = DoFire(e.to, Top.i, v)
    OBVIOUS
  <1>4. PICK ops : ops = <<op>>
    OBVIOUS
  <1>5. PICK f : f = [Top EXCEPT !.user = FALSE, !.todo = ops]
    OBVIOUS
  <1>6. /\ Depth > 1 /\ Top.in /\ Top.user /\ Top.todo = <<>> /\ e.fn = "then" /\ frames' = WithTop(f)
        /\ passed' = IF Top.i # 3 THEN passed \cup {e.to} ELSE passed
        /\ made' = made /\ lists' = lists /\ state' = state /\ remaining' = remaining /\ arrived' = arrived
        /\ adopted' = adopted /\ broken' = broken
    BY <1>1, <1>2, <1>3, <1>4, <1>5 DEF ReturnValue, PageRuns, Running
  <1>7. Types /\ Justice /\ BooksRight /\ EntriesRight
    BY DEF Structure, CausesInv, Justice
  <1>8. /\ Top.d \in Ids /\ Top.i \in Lists /\ v \in Vals /\ e \in Item
        /\ Owns(e, Top.d, Top.i) /\ e.i = Top.i
        /\ Top.i \in Sides => lists[Top.d][Top.i].fired
    BY <1>1, <1>2, <1>6, <1>7, CalledIs
  <1>9. e.to \in Made /\ e.to \in Ids /\ e.to \in Made'
    BY <1>6, <1>8 DEF Owns, Item, Made
  <1>10. op \in Adding \cup Firing /\ op.op = "fire" /\ op.d = e.to /\ op.i = Top.i
    <2>1. QuietOps(<<op>>)
      BY <1>3, <1>8, <1>9, FireIsQuiet
    <2> QED
      BY <1>3, <2>1, FireIs DEF QuietOps
  <1>11. ops \in Seq(Adding \cup Firing) /\ \A j \in 1..Len(ops) : ops[j] = op
    BY <1>4, <1>10, OneCall
  <1>12. f \in Frames /\ f.d = Top.d /\ f.i = Top.i /\ f.in /\ ~f.user /\ f.todo = ops
    BY <1>5, <1>6, <1>7, <1>11, Answered, ZenonT(30)
  <1>13. Asking(f) /\ Carries(f.todo)
    BY <1>6, <1>7, <1>12, TopCarries DEF Asking
  <1>14. Owing(op)'
    BY <1>4, <1>7, <1>10, <1>12, <1>13, CallsOne
  <1>15. Justified(op)'
    <2>1. CASE Top.i \in Sides
      <3>1. e.to \in passed' /\ made'[e.to].kind = "then" /\ made'[e.to].of[1] = Top.d /\ lists'[Top.d][Top.i].fired
        BY <1>6, <1>8, <2>1 DEF Owns, Sides
      <3>2. \A i \in {Top.i} : Cause(e.to, i)'
        BY <3>1 DEF Cause
      <3>3. \A i \in {Top.i} : op.i = i /\ Cause(op.d, i)'
        BY <1>10, <3>2
      <3> QED
        BY <1>9, <1>10, <3>3 DEF Justified
    <2>2. CASE Top.i \notin Sides
      BY <1>9, <1>10, <2>2 DEF Justified
    <2> QED
      BY <2>1, <2>2
  <1>16. \A o \in Adding \cup Firing : (\E j \in 1..Len(f.todo) : f.todo[j] = o) =>
            Justified(o)' /\ o.op = "fire"
    BY <1>10, <1>11, <1>12, <1>15
  <1>17. \A d \in Ids, i \in Sides : e.to = d /\ Top.i = i => OwesFire(d, i)'
    BY <1>3, <1>8, <1>14 DEF OwesFire
  <1>18. \A w \in Wires : w = Running => Handed(w)'
    <2> SUFFICES ASSUME NEW w \in Wires, w = Running PROVE Handed(w)'
      OBVIOUS
    <2>1. w = e /\ w.i # 3
      BY <1>1, WireIs DEF Running, Sides
    <2>2. w.fn = "then" /\ w.to \in passed'
      BY <1>6, <1>8, <2>1
    <2> QED
      BY <2>2 DEF Handed
  <1>19. /\ adopted' \in [Ids -> SUBSET Made] /\ passed' \subseteq Made /\ passed \subseteq passed'
         /\ \A d \in Ids : adopted[d] \subseteq adopted'[d] /\ (d \notin Made => adopted'[d] = adopted[d])
    BY <1>6, <1>7, <1>9 DEF BooksRight
  <1>20. \A d \in passed' \ passed : OwesFire(d, 1)' \/ OwesFire(d, 2)'
    <2>1. Top.i \in {1, 2, 3}
      BY <1>8 DEF Lists
    <2> QED
      BY <1>6, <1>9, <1>17, <2>1 DEF Sides
  <1> QED
    BY <1>6, <1>13, <1>16, <1>18, <1>19, <1>20, AsksOnly

\* Three calls, one for each list.
LEMMA ThreeAre ==
  ASSUME NEW ops \in [Lists -> Adding]
  PROVE  /\ ops \in Seq(Adding \cup Firing) /\ Len(ops) = 3
         /\ \A op : (\E j \in 1..Len(ops) : ops[j] = op) <=> \E i \in Lists : ops[i] = op
  <1>1. ops \in [1..3 -> Adding \cup Firing]
    BY DEF Lists
  <1>2. ops \in Seq(Adding \cup Firing)
    BY <1>1, SeqDef
  <1>3. Len(ops) = 3
    BY <1>1, <1>2
  <1> QED
    BY <1>2, <1>3 DEF Lists

LEMMA PromiseAsks ==
  ASSUME Structure, CausesInv, NEW r \in Made, ReturnPromise(r)
  PROVE  CausesInv'
  <1>1. PICK e : e = List.list[List.at]
    OBVIOUS
  <1>2. PICK to : to = e.to
    OBVIOUS
  <1>3. PICK ops : ops = [i \in Lists |-> DoAdd(r, i, Entry("settle", 0, to, i))]
    OBVIOUS
  <1>4. PICK f : f = [Top EXCEPT !.user = FALSE, !.todo = ops]
    OBVIOUS
  <1>5. /\ Depth > 1 /\ Top.in /\ Top.user /\ Top.todo = <<>> /\ e.fn = "then" /\ frames' = WithTop(f)
        /\ adopted' = [adopted EXCEPT ![to] = @ \cup {r}]
        /\ made' = made /\ lists' = lists /\ state' = state /\ remaining' = remaining /\ arrived' = arrived
        /\ passed' = passed /\ broken' = broken
    BY <1>1, <1>2, <1>3, <1>4 DEF ReturnPromise, PageRuns, Running
  <1>6. Types /\ Justice /\ BooksRight /\ EntriesRight /\ r \in Ids
    BY DEF Structure, CausesInv, Justice, BooksRight
  <1>7. e \in Item /\ Owns(e, Top.d, Top.i) /\ e.i = Top.i
    BY <1>1, <1>5, <1>6, CalledIs
  <1>8. to \in Made /\ to \in Ids /\ to \in Made' /\ r \in Made' /\ made[to].kind = "then"
    BY <1>2, <1>5, <1>7 DEF Owns, Item, Made
  <1>9. adopted'[to] = adopted[to] \cup {r} /\ \A d \in Ids : d # to => adopted'[d] = adopted[d]
    BY <1>5, <1>6, <1>8 DEF BooksRight
  <1>10. "settle" \in Kinds \ {"handler"}
    BY DEF Kinds
  <1>11. \A i \in Lists : ops[i] \in Adding
    BY <1>3, <1>6, <1>8, <1>10, AddIsQuiet
  <1>12. ops \in [Lists -> Adding]
    BY <1>3, <1>11
  <1>13. /\ ops \in Seq(Adding \cup Firing)
         /\ \A op : (\E j \in 1..Len(ops) : ops[j] = op) <=> \E i \in Lists : ops[i] = op
    BY <1>12, ThreeAre
  <1>14. f \in Frames /\ f.d = Top.d /\ f.i = Top.i /\ f.in /\ ~f.user /\ f.todo = ops
    BY <1>4, <1>5, <1>6, <1>13, Answered, ZenonT(30)
  <1>15. Asking(f) /\ Carries(f.todo)
    BY <1>5, <1>6, <1>14, TopCarries DEF Asking
  <1>16. ASSUME NEW i \in Lists, NEW op, op = ops[i]
         PROVE  Justified(op)' /\ op.op = "add" /\ op.entry.fn # "count"
    <2>1. PICK w : w = Entry("settle", 0, to, i)
      OBVIOUS
    <2>2. op = DoAdd(r, i, w)
      BY <1>3, <1>16, <2>1
    <2>3. op.op = "add" /\ op.d = r /\ op.i = i /\ op.entry = w /\ w.fn = "settle" /\ w.to = to /\ w.i = i
      BY <2>1, <2>2, AddIs, EntryOf
    <2>4. made'[to].kind = "then" /\ r \in adopted'[to]
      BY <1>5, <1>8, <1>9
    <2>5. Owns(w, r, i)'
      BY <1>8, <2>3, <2>4 DEF Owns
    <2> QED
      BY <1>8, <2>3, <2>5 DEF Justified
  <1>17. \A op \in Adding \cup Firing : (\E j \in 1..Len(f.todo) : f.todo[j] = op) =>
            Justified(op)' /\ op.op = "add" /\ op.entry.fn # "count"
    <2> SUFFICES ASSUME NEW op \in Adding \cup Firing, \E j \in 1..Len(ops) : ops[j] = op
                 PROVE  Justified(op)' /\ op.op = "add" /\ op.entry.fn # "count"
      BY <1>14
    <2>1. PICK i \in Lists : ops[i] = op
      BY <1>13
    <2> QED
      BY <1>16, <2>1
  <1>18. ASSUME NEW d \in Made, NEW w \in Wires, Owns(w, d, w.i)', ~Owns(w, d, w.i)
         PROVE  Owing(DoAdd(d, w.i, w))'
    <2>1. w.to \in Made /\ made' = made /\ w.to \in Ids
      BY <1>5, <1>18, WireIs DEF Owns, Made
    <2>2. w.fn = "settle" /\ w.to = to /\ d = r
      BY <1>8, <1>9, <1>18, <2>1 DEF Owns
    <2>3. w = Entry("settle", 0, to, w.i) /\ w.i \in Lists
      BY <2>2, WireIs
    <2>4. ops[w.i] = DoAdd(d, w.i, w)
      BY <1>3, <2>2, <2>3
    <2>5. PICK j \in 1..Len(ops) : ops[j] = DoAdd(d, w.i, w)
      BY <1>13, <2>3, <2>4
    <2>6. \A s : Carries(s) => \A op : \A k \in 1..Len(s) : s[k] = op => Owing(op)'
      BY <1>6, OwingAll
    <2> QED
      BY <1>14, <1>15, <2>5, <2>6
  <1>19. \A w \in Wires : w = Running => Handed(w)'
    <2> SUFFICES ASSUME NEW w \in Wires, w = Running PROVE Handed(w)'
      OBVIOUS
    <2>1. w = e /\ w.fn = "then" /\ w.to = to
      BY <1>1, <1>2, <1>5 DEF Running
    <2> QED
      BY <1>9, <2>1 DEF Handed
  <1>20. /\ adopted' \in [Ids -> SUBSET Made] /\ passed' \subseteq Made /\ passed \subseteq passed' /\ passed' \ passed = {}
         /\ \A d \in Ids : adopted[d] \subseteq adopted'[d] /\ (d \notin Made => adopted'[d] = adopted[d])
    BY <1>5, <1>6, <1>8, <1>9 DEF BooksRight
  <1> QED
    BY <1>5, <1>15, <1>17, <1>18, <1>19, <1>20, AsksOnly

LEMMA ThenAsks ==
  ASSUME Structure, CausesInv, NEW p \in Made, NEW fns \in FunctionsGiven, Then(p, fns)
  PROVE  CausesInv'
  <1>1. PICK m : m = Len(made) + 1
    OBVIOUS
  <1>2. PICK r : r = [kind |-> "then", of |-> <<p>>, fns |-> fns]
    OBVIOUS
  <1>3. PICK ops : ops = [i \in Lists |-> DoAdd(p, i, Entry("then", 0, m, i))]
    OBVIOUS
  <1>4. PICK f : f = [Top EXCEPT !.todo = ops]
    OBVIOUS
  <1>5. /\ Len(made) < MaxDeferreds /\ Top.in /\ Top.user /\ Top.todo = <<>> /\ frames' = WithTop(f) /\ made' = Append(made, r)
        /\ lists' = lists /\ state' = state /\ remaining' = remaining /\ arrived' = arrived
        /\ adopted' = adopted /\ passed' = passed /\ broken' = broken
    BY <1>1, <1>2, <1>3, <1>4 DEF Then, Program, PageRuns, history
  <1>6. Types /\ Justice /\ BooksRight /\ p \in Ids
    BY DEF Structure, CausesInv, Justice, BooksRight
  <1>7. r.kind = "then" /\ Len(r.of) = 1 /\ r.of[1] = p /\ remaining' = [d \in Ids |-> remaining'[d]]
    BY <1>2, <1>5, <1>6 DEF BooksRight
  <1>8. BooksRight' /\ Grown /\ Made' = Made \cup {m} /\ m \notin Made /\ m \in Ids /\ made'[m] = r
    BY <1>1, <1>5, <1>6, <1>7, BooksMade
  <1>9. "then" \in Kinds \ {"handler"}
    BY DEF Kinds
  <1>10. \A i \in Lists : ops[i] \in Adding
    BY <1>3, <1>6, <1>8, <1>9, AddIsQuiet
  <1>11. ops \in [Lists -> Adding]
    BY <1>3, <1>10
  <1>12. /\ ops \in Seq(Adding \cup Firing)
         /\ \A op : (\E j \in 1..Len(ops) : ops[j] = op) <=> \E i \in Lists : ops[i] = op
    BY <1>11, ThreeAre
  <1>13. f \in Frames /\ f.d = Top.d /\ f.i = Top.i /\ f.in /\ f.user /\ f.todo = ops
    BY <1>4, <1>5, <1>6, <1>12, Continued
  <1>14. Asking(f) /\ Carries(f.todo)
    BY <1>5, <1>6, <1>13, TopCarries DEF Asking
  <1>15. ASSUME NEW i \in Lists, NEW op, op = ops[i]
         PROVE  Justified(op)' /\ op.op = "add" /\ op.entry.fn # "count"
    <2>1. PICK w : w = Entry("then", 0, m, i)
      OBVIOUS
    <2>2. op = DoAdd(p, i, w)
      BY <1>3, <1>15, <2>1
    <2>3. op.op = "add" /\ op.d = p /\ op.i = i /\ op.entry = w /\ w.fn = "then" /\ w.to = m /\ w.i = i
      BY <2>1, <2>2, AddIs, EntryOf
    <2>4. Owns(w, p, i)'
      BY <1>7, <1>8, <2>3 DEF Owns
    <2> QED
      BY <1>8, <2>3, <2>4 DEF Justified
  <1>16. \A op \in Adding \cup Firing : (\E j \in 1..Len(f.todo) : f.todo[j] = op) =>
            Justified(op)' /\ op.op = "add" /\ op.entry.fn # "count"
    <2> SUFFICES ASSUME NEW op \in Adding \cup Firing, \E j \in 1..Len(ops) : ops[j] = op
                 PROVE  Justified(op)' /\ op.op = "add" /\ op.entry.fn # "count"
      BY <1>13
    <2>1. PICK i \in Lists : ops[i] = op
      BY <1>12
    <2> QED
      BY <1>15, <2>1
  <1>17. Fairly(f)
    <2>1. \A k \in Made' \ Made : made'[k].kind # "when"
      BY <1>7, <1>8
    <2> QED
      BY <1>5, <1>8, <1>16, <2>1, FairlyPlain
  <1>18. Wired(f)
    <2>1. ASSUME NEW d \in Made', NEW w \in Wires, Owns(w, d, w.i)'
          PROVE  Owns(w, d, w.i) \/ Owing(DoAdd(d, w.i, w))'
      <3>1. w.to \in Made' /\ w = Entry(w.fn, w.n, w.to, w.i) /\ w.i \in Lists /\ w.to \in Ids
        BY <2>1, WireIs DEF Owns
      <3>2. CASE w.to \in Made
        BY <1>5, <1>8, <2>1, <3>2, OldWire DEF Grown
      <3>3. CASE w.to = m
        <4>1. adopted'[m] = {}
          BY <1>5, <1>6, <1>8 DEF BooksRight
        <4>2. w.fn = "then" /\ d = p /\ w.n = 0
          BY <1>7, <1>8, <2>1, <3>3, <4>1, WireIs DEF Owns
        <4>3. ops[w.i] = DoAdd(d, w.i, w)
          BY <1>3, <3>1, <3>3, <4>2
        <4>4. PICK j \in 1..Len(ops) : ops[j] = DoAdd(d, w.i, w)
          BY <1>12, <3>1, <4>3
        <4>5. \A s : Carries(s) => \A op : \A k \in 1..Len(s) : s[k] = op => Owing(op)'
          BY <1>6, OwingAll
        <4> QED
          BY <1>13, <1>14, <4>4, <4>5
      <3> QED
        BY <1>8, <3>1, <3>2, <3>3
    <2>2. \A k \in Made' \ Made : made'[k].kind # "when"
      BY <1>7, <1>8
    <2> QED
      BY <1>5, <1>13, <2>1, <2>2 DEF Wired
  <1> QED
    BY <1>14, <1>17, <1>18, AskingIs

\* What when asks of an argument.
LEMMA AskedIs ==
  ASSUME NEW s \in Ids, NEW n \in Nat, NEW m \in Ids, NEW u, u = Asked(s, n, m)
  PROVE  /\ u \in Seq(Adding \cup Firing) /\ Len(u) = 3
         /\ u[1] = DoAdd(s, 1, Entry("count", n, m, 1))
         /\ u[2] = DoAdd(s, 2, Entry("settle", 0, m, 2)) /\ u[3] = DoAdd(s, 3, Entry("settle", 0, m, 3))
  <1>1. PICK a : a = DoAdd(s, 1, Entry("count", n, m, 1))
    OBVIOUS
  <1>2. PICK b : b = DoAdd(s, 2, Entry("settle", 0, m, 2))
    OBVIOUS
  <1>3. PICK c : c = DoAdd(s, 3, Entry("settle", 0, m, 3))
    OBVIOUS
  <1>4. u = <<a, b, c>>
    BY <1>1, <1>2, <1>3 DEF Asked, Ids, Page
  <1>5. u \in Seq(Adding \cup Firing)
    BY AskedIsQuiet DEF QuietOps
  <1> QED
    BY <1>1, <1>2, <1>3, <1>4, <1>5

\* The calls of one argument: they are just, and one of them counts.
Asks1(u, s, n, m) ==
    /\ u \in Seq(Adding \cup Firing) /\ Len(u) \in Nat
    /\ s = Page => Len(u) = 0
    /\ s # Page => Len(u) = 3
    /\ \A j \in 1..Len(u) :
          /\ u[j].op = "add" /\ u[j].d = s /\ s # Page /\ u[j].i \in Lists /\ u[j].entry.i = u[j].i /\ u[j].entry.to = m
          /\ \/ j = 1 /\ u[j].i = 1 /\ u[j].entry.fn = "count" /\ u[j].entry.n = n
             \/ j # 1 /\ u[j].i # 1 /\ u[j].entry.fn = "settle"
    /\ s # Page => \A w \in Wires :
          w.to = m /\ ((w.fn = "count" /\ w.n = n) \/ (w.fn = "settle" /\ w.i = 2)) =>
            \E j \in 1..Len(u) : u[j] = DoAdd(s, w.i, w)

LEMMA AskedAre ==
  ASSUME NEW s \in Ids \cup {Page}, NEW n \in Nat, NEW m \in Ids, NEW u, u = Asked(s, n, m)
  PROVE  Asks1(u, s, n, m)
  <1>1. CASE s = Page
    <2>1. u = <<>>
      BY <1>1 DEF Asked
    <2>2. u \in Seq(Adding \cup Firing) /\ Len(u) = 0
      BY <2>1
    <2> QED
      BY <1>1, <2>2 DEF Asks1
  <1>2. CASE s # Page
    <2>1. PICK a : a = Entry("count", n, m, 1)
      OBVIOUS
    <2>2. PICK b : b = Entry("settle", 0, m, 2)
      OBVIOUS
    <2>3. PICK c : c = Entry("settle", 0, m, 3)
      OBVIOUS
    <2>4. /\ u \in Seq(Adding \cup Firing) /\ Len(u) = 3
          /\ u[1] = DoAdd(s, 1, a) /\ u[2] = DoAdd(s, 2, b) /\ u[3] = DoAdd(s, 3, c)
      BY <1>2, <2>1, <2>2, <2>3, AskedIs
    <2>5. /\ a.fn = "count" /\ a.n = n /\ a.to = m /\ a.i = 1
          /\ b.fn = "settle" /\ b.to = m /\ b.i = 2
          /\ c.fn = "settle" /\ c.to = m /\ c.i = 3
      BY <2>1, <2>2, <2>3, EntryOf
    <2>6. /\ u[1].op = "add" /\ u[1].d = s /\ u[1].i = 1 /\ u[1].entry = a
          /\ u[2].op = "add" /\ u[2].d = s /\ u[2].i = 2 /\ u[2].entry = b
          /\ u[3].op = "add" /\ u[3].d = s /\ u[3].i = 3 /\ u[3].entry = c
      BY <2>4, AddIs
    <2>7. \A j \in 1..Len(u) : j = 1 \/ j = 2 \/ j = 3
      BY <2>4
    <2>8. \A j \in 1..Len(u) :
          /\ u[j].op = "add" /\ u[j].d = s /\ s # Page /\ u[j].i \in Lists /\ u[j].entry.i = u[j].i /\ u[j].entry.to = m
          /\ \/ j = 1 /\ u[j].i = 1 /\ u[j].entry.fn = "count" /\ u[j].entry.n = n
             \/ j # 1 /\ u[j].i # 1 /\ u[j].entry.fn = "settle"
      <3> SUFFICES ASSUME NEW j \in 1..Len(u)
                   PROVE
          /\ u[j].op = "add" /\ u[j].d = s /\ s # Page /\ u[j].i \in Lists /\ u[j].entry.i = u[j].i /\ u[j].entry.to = m
          /\ \/ j = 1 /\ u[j].i = 1 /\ u[j].entry.fn = "count" /\ u[j].entry.n = n
             \/ j # 1 /\ u[j].i # 1 /\ u[j].entry.fn = "settle"
        OBVIOUS
      <3>1. CASE j = 1
        BY <1>2, <2>5, <2>6, <3>1 DEF Lists
      <3>2. CASE j = 2
        BY <1>2, <2>5, <2>6, <3>2 DEF Lists
      <3>3. CASE j = 3
        BY <1>2, <2>5, <2>6, <3>3 DEF Lists
      <3> QED
        BY <2>7, <3>1, <3>2, <3>3
    <2>9. ASSUME NEW w \in Wires, w.to = m, (w.fn = "count" /\ w.n = n) \/ (w.fn = "settle" /\ w.i = 2)
          PROVE  \E j \in 1..Len(u) : u[j] = DoAdd(s, w.i, w)
      <3>1. w = Entry(w.fn, w.n, w.to, w.i)
        BY WireIs
      <3>2. CASE w.fn = "count"
        <4>1. w = a /\ w.i = 1
          BY <2>1, <2>9, <3>1, <3>2, WireIs
        <4> QED
          BY <2>4, <4>1
      <3>3. CASE w.fn = "settle"
        <4>1. w = b /\ w.i = 2
          BY <2>2, <2>9, <3>1, <3>3, WireIs
        <4> QED
          BY <2>4, <4>1
      <3> QED
        BY <2>9, <3>2, <3>3
    <2> QED
      BY <1>2, <2>4, <2>8, <2>9 DEF Asks1
  <1> QED
    BY <1>1, <1>2

\* The calls of both arguments.
AsksBoth(u, s, m) ==
    /\ u \in Seq(Adding \cup Firing)
    /\ \A j \in 1..Len(u) : \E n \in 1..2 :
          /\ u[j].op = "add" /\ u[j].d = s[n] /\ s[n] # Page
          /\ u[j].i \in Lists /\ u[j].entry.i = u[j].i /\ u[j].entry.to = m
          /\ \/ u[j].i = 1 /\ u[j].entry.fn = "count" /\ u[j].entry.n = n
             \/ u[j].i # 1 /\ u[j].entry.fn = "settle"
    /\ \A i, j \in 1..Len(u) : u[i].entry.fn = "count" /\ u[i].entry = u[j].entry => i = j
    /\ \A w \in Wires, n \in 1..2 :
          s[n] # Page /\ w.to = m /\ ((w.fn = "count" /\ w.n = n) \/ (w.fn = "settle" /\ w.i = 2)) =>
            \E j \in 1..Len(u) : u[j] = DoAdd(s[n], w.i, w)

LEMMA BothAre ==
  ASSUME NEW s, NEW m, NEW x, NEW y, Asks1(x, s[1], 1, m), Asks1(y, s[2], 2, m), NEW u, u = x \o y
  PROVE  AsksBoth(u, s, m)
  <1>1. x \in Seq(Adding \cup Firing) /\ y \in Seq(Adding \cup Firing) /\ Len(x) \in Nat /\ Len(y) \in Nat
    BY DEF Asks1
  <1>2. /\ u \in Seq(Adding \cup Firing) /\ Len(u) = Len(x) + Len(y)
        /\ \A j \in 1..Len(x) : u[j] = x[j]
        /\ \A j \in Len(x) + 1..Len(x) + Len(y) : u[j] = y[j - Len(x)]
    BY <1>1
  <1>3. \A j \in 1..Len(u) : \/ j \in 1..Len(x) /\ u[j] = x[j]
                             \/ j - Len(x) \in 1..Len(y) /\ u[j] = y[j - Len(x)]
    BY <1>1, <1>2
  <1>4. \A k \in 1..Len(y) : Len(x) + k \in 1..Len(u) /\ u[Len(x) + k] = y[k]
    <2> SUFFICES ASSUME NEW k \in 1..Len(y)
                 PROVE  Len(x) + k \in 1..Len(u) /\ u[Len(x) + k] = y[k]
      OBVIOUS
    <2>1. Len(x) + k \in Len(x) + 1..Len(x) + Len(y) /\ (Len(x) + k) - Len(x) = k
      BY <1>1
    <2>2. u[Len(x) + k] = y[(Len(x) + k) - Len(x)]
      BY <1>2, <2>1
    <2> QED
      BY <1>1, <1>2, <2>1, <2>2
  <1>5. \A k \in 1..Len(x) : k \in 1..Len(u) /\ u[k] = x[k]
    BY <1>1, <1>2
  <1>6. ASSUME NEW j \in 1..Len(u)
        PROVE  \E n \in 1..2 :
                  /\ u[j].op = "add" /\ u[j].d = s[n] /\ s[n] # Page
                  /\ u[j].i \in Lists /\ u[j].entry.i = u[j].i /\ u[j].entry.to = m
                  /\ \/ u[j].i = 1 /\ u[j].entry.fn = "count" /\ u[j].entry.n = n /\ j = (IF n = 1 THEN 1 ELSE Len(x) + 1)
                     \/ u[j].i # 1 /\ u[j].entry.fn = "settle"
    <2>1. CASE j \in 1..Len(x) /\ u[j] = x[j]
      <3>1. 1 \in 1..2
        OBVIOUS
      <3> QED
        BY <2>1, <3>1 DEF Asks1
    <2>2. CASE j - Len(x) \in 1..Len(y) /\ u[j] = y[j - Len(x)]
      <3>1. 2 \in 1..2 /\ 2 # 1
        OBVIOUS
      <3>2. PICK k \in 1..Len(y) : k = j - Len(x) /\ j = Len(x) + k
        BY <1>1, <2>2
      <3>3. /\ y[k].op = "add" /\ y[k].d = s[2] /\ s[2] # Page
            /\ y[k].i \in Lists /\ y[k].entry.i = y[k].i /\ y[k].entry.to = m
            /\ \/ k = 1 /\ y[k].i = 1 /\ y[k].entry.fn = "count" /\ y[k].entry.n = 2
               \/ k # 1 /\ y[k].i # 1 /\ y[k].entry.fn = "settle"
        BY DEF Asks1
      <3> QED
        BY <2>2, <3>1, <3>2, <3>3
    <2> QED
      BY <1>3, <2>1, <2>2
  <1>7. ASSUME NEW i \in 1..Len(u), NEW j \in 1..Len(u), u[i].entry.fn = "count", u[i].entry = u[j].entry
        PROVE  i = j
    <2>1. PICK n \in 1..2 : u[i].entry.n = n /\ i = (IF n = 1 THEN 1 ELSE Len(x) + 1)
      BY <1>6, <1>7
    <2>2. PICK k \in 1..2 : u[j].entry.n = k /\ j = (IF k = 1 THEN 1 ELSE Len(x) + 1)
      BY <1>6, <1>7
    <2> QED
      BY <1>7, <2>1, <2>2
  <1>8. ASSUME NEW w \in Wires, NEW n \in 1..2, s[n] # Page, w.to = m,
               (w.fn = "count" /\ w.n = n) \/ (w.fn = "settle" /\ w.i = 2)
        PROVE  \E j \in 1..Len(u) : u[j] = DoAdd(s[n], w.i, w)
    <2>1. CASE n = 1
      <3>1. PICK j \in 1..Len(x) : x[j] = DoAdd(s[1], w.i, w)
        BY <1>8, <2>1 DEF Asks1
      <3> QED
        BY <1>5, <2>1, <3>1
    <2>2. CASE n = 2
      <3>1. PICK j \in 1..Len(y) : y[j] = DoAdd(s[2], w.i, w)
        BY <1>8, <2>2 DEF Asks1
      <3> QED
        BY <1>4, <2>2, <3>1
    <2> QED
      BY <2>1, <2>2
  <1> QED
    BY <1>2, <1>6, <1>7, <1>8, SMTT(30) DEF AsksBoth

LEMMA HowMany ==
  ASSUME NEW s, NEW c, c = Cardinality({k \in 1..2 : s[k] # Page})
  PROVE  c = (IF s[1] # Page THEN 1 ELSE 0) + (IF s[2] # Page THEN 1 ELSE 0)
  <1> DEFINE left == {k \in 1..2 : s[k] # Page}
  <1>1. 1..2 = {1, 2}
    OBVIOUS
  <1>2. CASE s[1] # Page /\ s[2] # Page
    <2>1. left = {1} \cup {2} /\ 2 \notin {1}
      BY <1>1, <1>2
    <2>2. Cardinality({1}) = 1 /\ IsFiniteSet({1})
      BY FS_Singleton
    <2>3. Cardinality({1} \cup {2}) = 2
      BY <2>1, <2>2, FS_AddElement
    <2> QED
      BY <1>2, <2>1, <2>3
  <1>3. CASE s[1] # Page /\ s[2] = Page
    <2>1. left = {1}
      BY <1>1, <1>3
    <2> QED
      BY <1>3, <2>1, FS_Singleton
  <1>4. CASE s[1] = Page /\ s[2] # Page
    <2>1. left = {2}
      BY <1>1, <1>4
    <2> QED
      BY <1>4, <2>1, FS_Singleton
  <1>5. CASE s[1] = Page /\ s[2] = Page
    <2>1. left = {}
      BY <1>1, <1>5
    <2> QED
      BY <1>5, <2>1, FS_EmptySet
  <1> QED
    BY <1>2, <1>3, <1>4, <1>5

LEMMA WhenAsks ==
  ASSUME Structure, CausesInv, NEW a \in Made \cup {Page}, NEW b \in Made \cup {Page}, When(a, b)
  PROVE  CausesInv'
  <1>1. PICK m : m = Len(made) + 1
    OBVIOUS
  <1>2. PICK s : s = <<a, b>>
    OBVIOUS
  <1>3. PICK r : r = [kind |-> "when", of |-> s, fns |-> {}]
    OBVIOUS
  <1>4. PICK ops : ops = IF a = Page /\ b = Page THEN <<DoFire(m, 1, 1)>> ELSE Asked(a, 1, m) \o Asked(b, 2, m)
    OBVIOUS
  <1>5. PICK f : f = [Top EXCEPT !.todo = ops]
    OBVIOUS
  <1>6. /\ m <= MaxDeferreds /\ Top.in /\ Top.user /\ Top.todo = <<>> /\ frames' = WithTop(f) /\ made' = Append(made, r)
        /\ remaining' = [remaining EXCEPT ![m] = Cardinality({k \in 1..2 : s[k] # Page})]
        /\ lists' = lists /\ state' = state /\ arrived' = arrived
        /\ adopted' = adopted /\ passed' = passed /\ broken' = broken
    BY <1>1, <1>2, <1>3, <1>4, <1>5 DEF When, Program, PageRuns, history, Asked
  <1>7. Types /\ Counts /\ Justice /\ BooksRight /\ a \in Ids \cup {Page} /\ b \in Ids \cup {Page}
    BY DEF Structure, Types, CausesInv, Justice, BooksRight
  <1>8. Len(made) < MaxDeferreds
    BY <1>1, <1>6, <1>7, ValsAre DEF Counts
  <1>9. /\ r.kind = "when" /\ r.of = s /\ Len(s) = 2 /\ s[1] = a /\ s[2] = b /\ \A k \in 1..2 : s[k] \in Made \cup {Page}
        /\ remaining' = [d \in Ids |-> remaining'[d]]
    <2>1. s[1] = a /\ s[2] = b /\ Len(s) = 2
      BY <1>2
    <2>2. \A k \in 1..2 : s[k] \in Made \cup {Page}
      BY <2>1
    <2>3. remaining' = [d \in Ids |-> remaining'[d]]
      BY <1>6, <1>7 DEF BooksRight
    <2> QED
      BY <1>3, <2>1, <2>2, <2>3
  <1>10. BooksRight' /\ Grown /\ Made' = Made \cup {m} /\ m \notin Made /\ m \in Ids /\ made'[m] = r
    BY <1>1, <1>6, <1>7, <1>8, <1>9, BooksMade
  <1>11. arrived'[m] = {} /\ adopted'[m] = {} /\ \A d \in Made : remaining'[d] = remaining[d]
    BY <1>6, <1>7, <1>10 DEF BooksRight
  <1>12. remaining'[m] = (IF a # Page THEN 1 ELSE 0) + (IF b # Page THEN 1 ELSE 0)
    BY <1>6, <1>7, <1>9, <1>10, HowMany DEF BooksRight
  <1>13. remaining'[m] = Left(m, 1)' + Left(m, 2)'
    BY <1>9, <1>10, <1>11, <1>12 DEF Left
  <1>14. ASSUME ops \in Seq(Adding \cup Firing)
         PROVE  /\ f \in Frames /\ f.d = Top.d /\ f.i = Top.i /\ f.in /\ f.user /\ f.todo = ops
                /\ Asking(f)
                /\ \A op : \A k \in 1..Len(ops) : ops[k] = op => Owing(op)'
    <2>1. f \in Frames /\ f.d = Top.d /\ f.i = Top.i /\ f.in /\ f.user /\ f.todo = ops
      BY <1>5, <1>6, <1>7, <1>14, Continued
    <2>2. Asking(f) /\ Carries(f.todo)
      BY <1>6, <1>7, <2>1, TopCarries DEF Asking
    <2>3. \A t : Carries(t) => \A op : \A k \in 1..Len(t) : t[k] = op => Owing(op)'
      BY <1>7, OwingAll
    <2> QED
      BY <2>1, <2>2, <2>3
  <1>15. ASSUME NEW d \in Made', NEW w \in Wires, Owns(w, d, w.i)', ~Owns(w, d, w.i)
         PROVE  /\ w.to = m
                /\ \E n \in 1..2 : s[n] = d /\ s[n] # Page /\ ((w.fn = "count" /\ w.n = n) \/ (w.fn = "settle" /\ w.i = 2))
    <2>1. w.to \in Made' /\ w.to \in Ids /\ w.i \in Sides /\ w.fn \in {"then", "settle", "count"}
      BY <1>15, WireIs DEF Owns
    <2>2. w.to = m
      <3>1. w.to \in Made => Owns(w, d, w.i)
        BY <1>6, <1>10, <1>15, <2>1, OldWire DEF Grown
      <3> QED
        BY <1>10, <1>15, <2>1, <3>1
    <2>3. d # Page
      BY <1>10 DEF BooksRight, Ids, Page
    <2>4. made'[m].kind = "when" /\ made'[m].of = s
      BY <1>9, <1>10
    <2>5. w.fn # "then"
      BY <1>15, <2>2, <2>4 DEF Owns
    <2>6. CASE w.fn = "count"
      BY <1>15, <2>2, <2>3, <2>4, <2>6 DEF Owns
    <2>7. CASE w.fn = "settle"
      BY <1>15, <2>1, <2>2, <2>3, <2>4, <2>7 DEF Owns, Sides
    <2> QED
      BY <2>1, <2>2, <2>5, <2>6, <2>7
  <1>16. CASE a = Page /\ b = Page
    <2>1. PICK op : op = DoFire(m, 1, 1)
      OBVIOUS
    <2>2. 1 \in Lists /\ 1 \in Vals /\ ops = <<op>>
      BY <1>4, <1>16, <2>1, ValsAre DEF Lists, Vals
    <2>3. op \in Adding \cup Firing /\ op.op = "fire" /\ op.d = m /\ op.i = 1
      <3>1. QuietOps(<<op>>)
        BY <1>10, <2>1, <2>2, FireIsQuiet
      <3> QED
        BY <2>1, <2>2, <3>1, FireIs DEF QuietOps
    <2>4. ops \in Seq(Adding \cup Firing) /\ 1 \in 1..Len(ops) /\ ops[1] = op /\ \A j \in 1..Len(ops) : ops[j] = op
      BY <2>2, <2>3, OneCall
    <2>5. Cause(m, 1)'
      BY <1>9, <1>10, <1>16 DEF Cause
    <2>6. Justified(op)'
      BY <1>10, <2>3, <2>5 DEF Justified
    <2>7. Asking(f) /\ f.user /\ f.todo = ops /\ OwesFire(m, 1)'
      BY <1>14, <2>1, <2>2, <2>4 DEF OwesFire
    <2>8. Fairly(f)
      <3>1. \A o : (\E j \in 1..Len(f.todo) : f.todo[j] = o) => o = op
        BY <2>4, <2>7
      <3>2. op \notin Adding
        BY <2>3 DEF Adding
      <3>3. \A k \in Made' \ Made : k = m
        BY <1>10
      <3> QED
        BY <1>10, <1>11, <1>13, <2>3, <2>6, <3>1, <3>2, <3>3 DEF Fairly
    <2>9. Wired(f)
      <3>1. \A d \in Made', w \in Wires : Owns(w, d, w.i)' => Owns(w, d, w.i)
        BY <1>9, <1>15, <1>16
      <3>2. \A k \in Made' \ Made : k = m
        BY <1>10
      <3> QED
        BY <1>6, <2>7, <3>1, <3>2 DEF Wired
    <2> QED
      BY <2>7, <2>8, <2>9, AskingIs
  <1>17. CASE ~(a = Page /\ b = Page)
    <2>1. PICK x : x = Asked(a, 1, m)
      OBVIOUS
    <2>2. PICK y : y = Asked(b, 2, m)
      OBVIOUS
    <2>3. ops = x \o y
      BY <1>4, <1>17, <2>1, <2>2
    <2>4. Asks1(x, s[1], 1, m) /\ Asks1(y, s[2], 2, m)
      BY <1>7, <1>9, <1>10, <2>1, <2>2, AskedAre
    <2>5. AsksBoth(ops, s, m)
      BY <2>3, <2>4, BothAre
    <2>6. ops \in Seq(Adding \cup Firing)
      BY <2>5 DEF AsksBoth
    <2>7. Asking(f) /\ f.user /\ f.todo = ops /\ \A op : \A k \in 1..Len(ops) : ops[k] = op => Owing(op)'
      BY <1>14, <2>6
    <2>8. ASSUME NEW j \in 1..Len(ops), NEW op, op = ops[j]
          PROVE  Justified(op)' /\ op.op = "add" /\ op.entry.to = m
      <3>1. PICK n \in 1..2 :
                  /\ op.op = "add" /\ op.d = s[n] /\ s[n] # Page
                  /\ op.i \in Lists /\ op.entry.i = op.i /\ op.entry.to = m
                  /\ \/ op.i = 1 /\ op.entry.fn = "count" /\ op.entry.n = n
                     \/ op.i # 1 /\ op.entry.fn = "settle"
        BY <2>5, <2>8 DEF AsksBoth
      <3>2. s[n] \in Made'
        BY <1>9, <1>10, <3>1
      <3>3. made'[m].kind = "when" /\ made'[m].of = s /\ m \in Made'
        BY <1>9, <1>10
      <3>4. PICK e : e = op.entry
        OBVIOUS
      <3>5. PICK d : d = op.d
        OBVIOUS
      <3>6. PICK i : i = op.i
        OBVIOUS
      <3>7. Owns(e, d, i)'
        BY <3>1, <3>3, <3>4, <3>5, <3>6 DEF Owns
      <3> QED
        BY <3>1, <3>2, <3>4, <3>5, <3>6, <3>7 DEF Justified
    <2>9. Fairly(f)
      <3>1. \A op \in Adding \cup Firing : (\E j \in 1..Len(f.todo) : f.todo[j] = op) => Justified(op)' /\ op.op = "add"
        BY <2>7, <2>8
      <3>2. \A k \in Made' \ Made : k = m
        BY <1>10
      <3>3. \A op \in Adding, j \in 1..Len(f.todo) : f.todo[j] = op /\ op.entry.fn = "count" =>
                /\ op.entry.to \notin Made
                /\ \A o \in Adding, i \in 1..Len(f.todo) : f.todo[i] = o /\ o.entry = op.entry => i = j
        BY <1>10, <2>5, <2>7, <2>8 DEF AsksBoth
      <3> QED
        BY <1>10, <1>11, <1>13, <3>1, <3>2, <3>3 DEF Fairly
    <2>10. Wired(f)
      <3>1. ASSUME NEW d \in Made', NEW w \in Wires, Owns(w, d, w.i)', ~Owns(w, d, w.i)
            PROVE  Owing(DoAdd(d, w.i, w))'
        <4>1. PICK n \in 1..2 : s[n] = d /\ s[n] # Page /\ ((w.fn = "count" /\ w.n = n) \/ (w.fn = "settle" /\ w.i = 2))
          BY <1>15, <3>1
        <4>2. w.to = m
          BY <1>15, <3>1
        <4>3. PICK j \in 1..Len(ops) : ops[j] = DoAdd(d, w.i, w)
          BY <2>5, <4>1, <4>2 DEF AsksBoth
        <4> QED
          BY <2>7, <4>3
      <3>2. \A k \in Made' \ Made : remaining'[k] # 0
        BY <1>10, <1>12, <1>17
      <3> QED
        BY <1>6, <2>7, <3>1, <3>2 DEF Wired
    <2> QED
      BY <2>7, <2>9, <2>10, AskingIs
  <1> QED
    BY <1>16, <1>17

-------------------------------------------------------------------------------
(* A round goes on, or ends. *)

\* The list of the round moves on or is emptied; of the others, one may be disabled.
Passes ==
    /\ Depth > 1 /\ Top.todo = <<>> /\ Carries(<<>>) /\ Depth' <= Depth
    /\ Top.d \in Ids /\ Top.i \in Lists /\ lists[Top.d][Top.i].firing
    /\ \A k \in 1..Depth' : k = Depth =>
          frames'[k].d = Top.d /\ frames'[k].i = Top.i /\ ~frames'[k].in /\ ~frames'[k].user
    /\ made' = made /\ remaining' = remaining /\ arrived' = arrived /\ adopted' = adopted
    /\ passed' = passed /\ broken' = broken /\ state' = [d \in Ids |-> state'[d]]
    /\ \A d \in Ids, i \in Lists : lists'[d][i].list \in {lists[d][i].list, <<>>}
    /\ \A d \in Ids, i \in Sides : lists'[d][i].fired <=> lists[d][i].fired
    /\ \A d \in Ids, i \in Sides : d # Top.d \/ i # Top.i =>
          \/ lists'[d][i] = lists[d][i]
          \/ ~lists[d][i].firing /\ lists'[d][i].disabled /\ lists[d][3 - i].fired
    /\ \A d \in Ids, i \in Sides : d = Top.d /\ i = Top.i =>
          /\ ~lists'[d][i].disabled
          /\ \/ /\ lists'[d][i].list = lists[d][i].list /\ lists'[d][i].firing /\ lists'[d][i].at = lists[d][i].at + 1
                /\ (Top.in /\ ~Top.user) \/ Running.fn \notin {"then", "settle", "count"}
             \/ lists'[d][i].list = <<>> /\ lists[d][i].at = Len(lists[d][i].list) + 1 /\ ~Top.in

LEMMA BusyElse ==
  ASSUME Types, Passes
  PROVE  /\ \A d, i : d # Top.d \/ i # Top.i => (Busy(d, i)' <=> Busy(d, i))
         /\ Structure => \A d, i : d = Top.d /\ i = Top.i => ~Busy(d, i)'
  <1>1. Depth \in Nat \ {0} /\ Top = frames[Depth] /\ Depth' \in Nat /\ Depth' >= Depth - 1 /\ Depth' <= Depth
    BY StackIs DEF Passes, Carries, Top
  <1>2. \A k \in 2..Depth' : /\ k # Depth => k \in 2..Depth /\ frames'[k] = frames[k]
                             /\ k = Depth => frames'[k].d = Top.d /\ frames'[k].i = Top.i /\ ~frames'[k].in
    BY <1>1 DEF Passes, Carries
  <1>3. \A k \in 2..Depth : k # Depth => k \in 2..Depth' /\ frames'[k] = frames[k]
    <2> SUFFICES ASSUME NEW k \in 2..Depth, k # Depth PROVE k \in 2..Depth' /\ frames'[k] = frames[k]
      OBVIOUS
    <2>1. k \in 2..Depth'
      BY <1>1
    <2> QED
      BY <1>2, <2>1
  <1>4. ASSUME NEW d, NEW i, d # Top.d \/ i # Top.i
        PROVE  Busy(d, i)' <=> Busy(d, i)
    BY <1>1, <1>2, <1>3, <1>4 DEF Busy
  <1>5. ASSUME Structure, NEW d, NEW i, d = Top.d, i = Top.i
        PROVE  ~Busy(d, i)'
    <2>1. Depth \in 2..Depth
      BY <1>1 DEF Passes
    <2>2. \A k \in 2..Depth : frames[k].d = d /\ frames[k].i = i => k = Depth
      BY <1>1, <1>5, <2>1 DEF Structure, FramesOK
    <2> QED
      BY <1>2, <2>2 DEF Busy
  <1> QED
    BY <1>4, <1>5

LEMMA PassingJust ==
  ASSUME Structure, Passes, Justice, StateRight'
  PROVE  Justice' /\ Grown
  <1>1. Types /\ BooksRight /\ Made' = Made /\ Made \subseteq Ids
    BY DEF Structure, Justice, Passes, BooksRight, Made
  <1>2. Grown
    BY <1>1 DEF Passes, Grown
  <1>3. \A d \in Ids : SomeFired(d)' <=> SomeFired(d)
    BY DEF Passes, SomeFired, Sides
  <1>4. BooksRight'
    BY <1>1, <1>3 DEF BooksRight, Passes
  <1>5. DisabledRight'
    <2> SUFFICES ASSUME NEW d \in Ids, NEW i \in Sides, lists'[d][i].disabled
                 PROVE  lists'[d][3 - i].fired
      BY DEF DisabledRight
    <2>1. 3 - i \in Sides
      BY DEF Sides
    <2>2. lists[d][3 - i].fired
      <3>1. CASE d = Top.d /\ i = Top.i
        BY <3>1 DEF Passes
      <3>2. CASE d # Top.d \/ i # Top.i
        BY <3>2 DEF Passes, Justice, DisabledRight
      <3> QED
        BY <3>1, <3>2
    <2> QED
      BY <2>1, <2>2 DEF Passes
  <1>6. EntriesRight'
    <2> SUFFICES ASSUME NEW d \in Ids, NEW i \in Lists, NEW e \in Item, Listed(d, i, e)'
                 PROVE  Owns(e, d, i)'
      BY DEF EntriesRight
    <2>1. Listed(d, i, e)
      BY NoEntries DEF Listed, Passes
    <2>2. Owns(e, d, i)
      BY <2>1 DEF Justice, EntriesRight
    <2> QED
      BY <1>1, <1>2, <2>2, OwnsStays
  <1>7. CausesRight'
    <2> SUFFICES ASSUME NEW d \in Made, NEW i \in Sides, lists'[d][i].fired
                 PROVE  Cause(d, i)'
      BY <1>1 DEF CausesRight
    <2>1. d \in Ids /\ i \in Lists
      BY <1>1 DEF Sides, Lists
    <2>2. Cause(d, i)
      BY <2>1 DEF Passes, Justice, CausesRight
    <2> QED
      BY <1>1, <1>2, <2>2, CauseStays
  <1>8. CallsRight'
    <2>1. \A op : ~\E j \in 1..Len(<<>>) : <<>>[j] = op
      BY NoEntries
    <2>2. PICK ops : ops = <<>>
      OBVIOUS
    <2>3. Carries(ops) /\ \A op : ~\E j \in 1..Len(ops) : ops[j] = op
      BY <2>1, <2>2 DEF Passes
    <2> QED
      BY <1>1, <1>2, <2>3, CallsStayRight DEF Justice
  <1> QED
    BY <1>2, <1>4, <1>5, <1>6, <1>7, <1>8 DEF Justice

LEMMA PassingCounts ==
  ASSUME Structure, Passes, Justice, Tokens
  PROVE  Tokens'
  <1>1. /\ Types /\ Depth \in Nat \ {0} /\ Top = frames[Depth] /\ Depth > 1
        /\ Depth' \in Nat /\ Depth' <= Depth /\ Depth' >= Depth - 1
    BY StackIs DEF Structure, Top, Passes, Carries
  <1>2. \A k \in 1..Depth' : /\ k \in 1..Depth
                             /\ k # Depth => frames'[k] = frames[k]
                             /\ k = Depth => frames'[k].todo = <<>> /\ frames'[k].d = Top.d /\ frames'[k].i = Top.i
    BY <1>1 DEF Passes, Carries
  <1>3. /\ arrived' = arrived /\ made' = made /\ remaining' = remaining
        /\ \A d \in Ids, i \in Lists : lists'[d][i].list \in {lists[d][i].list, <<>>}
        /\ \A d \in Ids : lists'[d][1].fired <=> lists[d][1].fired
    BY DEF Passes, Sides
  <1>4. \A k \in 1..Depth' : \A j \in 1..Len(frames'[k].todo) :
            k # Depth /\ frames'[k] = frames[k] /\ k \in 1..Depth /\ j \in 1..Len(frames[k].todo)
    BY <1>2, NoEntries
  <1>5. \A k \in 2..Depth : k # Depth => frames[k].d # Top.d \/ frames[k].i # Top.i
    <2>1. Depth \in 2..Depth
      BY <1>1
    <2> QED
      BY <1>1, <2>1 DEF Structure, FramesOK
  <1>6. ASSUME NEW k \in 2..Depth, k # Depth, frames[k].i = 1
        PROVE  lists'[frames[k].d][1] = lists[frames[k].d][1]
    <2>1. frames[k].d \in Ids /\ lists[frames[k].d][1].firing /\ 1 \in Sides
      BY <1>6 DEF Structure, FramesOK, Sides
    <2>2. frames[k].d # Top.d \/ 1 # Top.i
      BY <1>5, <1>6
    <2> QED
      BY <2>1, <2>2 DEF Passes
  <1>7. CountsRight'
    <2> SUFFICES ASSUME NEW k \in 1..Depth', NEW op \in Firing, Makes(k, op)', op.op = "count"
                 PROVE  Len(frames'[k].todo) = 1 /\ Counted(k, op)'
      BY DEF CountsRight
    <2>1. k # Depth /\ frames'[k] = frames[k] /\ k \in 1..Depth
      BY <1>4 DEF Makes
    <2>2. Makes(k, op)
      BY <2>1 DEF Makes
    <2>3. Len(frames[k].todo) = 1 /\ Counted(k, op)
      BY <2>1, <2>2 DEF Tokens, CountsRight
    <2>4. k \in 2..Depth /\ frames[k].i = 1
      BY <1>1, <2>1, <2>3 DEF Counted
    <2>5. lists'[frames[k].d][1] = lists[frames[k].d][1]
      BY <1>6, <2>1, <2>4
    <2> QED
      BY <1>3, <2>1, <2>3, <2>5 DEF Counted
  <1>8. SentOnce'
    <2> SUFFICES ASSUME NEW op \in Adding, NEW k \in 1..Depth', NEW j \in 1..Len(frames'[k].todo),
                        frames'[k].todo[j] = op, op.entry.fn = "count"
                 PROVE  /\ op.entry.n \notin arrived[op.entry.to] /\ ~Listed(op.d, op.i, op.entry)'
                        /\ \A o \in Adding, h \in 1..Depth' : \A i \in 1..Len(frames'[h].todo) :
                              frames'[h].todo[i] = o /\ o.entry = op.entry => h = k /\ i = j
      BY <1>3 DEF SentOnce, Listed
    <2>0. op.d \in Ids /\ op.i \in Lists
      BY DEF Adding
    <2>1. k \in 1..Depth /\ j \in 1..Len(frames[k].todo) /\ frames[k].todo[j] = op
      BY <1>4
    <2>2. op.entry.n \notin arrived[op.entry.to] /\ ~Listed(op.d, op.i, op.entry)
      BY <2>1 DEF Tokens, SentOnce
    <2>3. ~Listed(op.d, op.i, op.entry)'
      <3>1. lists'[op.d][op.i].list \in {lists[op.d][op.i].list, <<>>}
        BY <1>3, <2>0
      <3> QED
        <4>1. CASE lists'[op.d][op.i].list = lists[op.d][op.i].list
          BY <2>2, <4>1, Zenon DEF Listed
        <4>2. CASE lists'[op.d][op.i].list = <<>>
          <5>1. ~\E p \in 1..Len(<<>>) : TRUE
            BY NoEntries
          <5> QED
            BY <4>2, <5>1, Zenon DEF Listed
        <4> QED
          BY <3>1, <4>1, <4>2
    <2>4. ASSUME NEW o \in Adding, NEW h \in 1..Depth', NEW i \in 1..Len(frames'[h].todo),
                 frames'[h].todo[i] = o, o.entry = op.entry
          PROVE  h = k /\ i = j
      <3>1. h \in 1..Depth /\ i \in 1..Len(frames[h].todo) /\ frames[h].todo[i] = o
        BY <1>4, <2>4
      <3> QED
        BY <2>1, <2>4, <3>1 DEF Tokens, SentOnce
    <2> QED
      BY <2>2, <2>3, <2>4
  <1>9. ListedOnce'
    <2> SUFFICES ASSUME NEW d \in Ids, NEW p \in 1..Len(lists'[d][1].list), NEW q \in 1..Len(lists'[d][1].list),
                        lists'[d][1].list[p].fn = "count", lists'[d][1].list[p] = lists'[d][1].list[q]
                 PROVE  p = q
      BY DEF ListedOnce
    <2>1. lists'[d][1].list = lists[d][1].list
      BY <1>3, NoEntries DEF Lists
    <2> QED
      BY <2>1 DEF Tokens, ListedOnce
  <1>10. ArrivedOnce'
    <2> SUFFICES ASSUME NEW d \in Ids, NEW p \in 1..Len(lists'[d][1].list), NEW e, e = lists'[d][1].list[p],
                        e.fn = "count", e.n \in arrived[e.to]
                 PROVE  lists'[d][1].firing /\ \A k \in 2..Depth' : CalledIn(k, d, p)'
      BY <1>3 DEF ArrivedOnce
    <2>1. lists'[d][1].list = lists[d][1].list /\ Len(lists'[d][1].list) # 0 /\ lists[d][1].list # <<>>
      BY <1>3, NoEntries DEF Lists
    <2>2. lists[d][1].firing /\ \A k \in 2..Depth : CalledIn(k, d, p)
      BY <2>1 DEF Tokens, ArrivedOnce
    <2>3. 1 \in Sides /\ p \in Nat
      BY DEF Sides
    <2>4. CASE d # Top.d \/ Top.i # 1
      <3>1. lists'[d][1] = lists[d][1]
        BY <2>2, <2>3, <2>4 DEF Passes
      <3>2. \A k \in 2..Depth' : CalledIn(k, d, p)'
        BY <1>1, <1>2, <2>2, <2>4, <3>1 DEF CalledIn
      <3> QED
        BY <2>2, <3>1, <3>2
    <2>5. CASE d = Top.d /\ Top.i = 1
      <3>1. lists'[d][1].firing /\ lists'[d][1].at = lists[d][1].at + 1
        BY <2>1, <2>3, <2>5, NoEntries DEF Passes
      <3>2. CalledIn(Depth, d, p) /\ lists[d][1].at \in Nat
        BY <1>1, <2>2, ListIs, SMTT(30) DEF Structure, Lists
      <3>3. p <= lists[d][1].at
        BY <1>1, <2>5, <3>2 DEF CalledIn
      <3>4. p < lists'[d][1].at
        BY <2>3, <3>1, <3>2, <3>3
      <3> QED
        BY <3>1, <3>4 DEF CalledIn
    <2> QED
      BY <2>4, <2>5
  <1>11. CountRight'
    <2>1. Made' = Made /\ Made \subseteq Ids
      BY <1>3 DEF Made, Justice, BooksRight
    <2> SUFFICES ASSUME NEW m \in Made, made[m].kind = "when"
                 PROVE  /\ remaining[m] = Left(m, 1)' + Left(m, 2)'
                        /\ \A k \in arrived[m] : made[m].of[k] # Page /\ lists'[made[m].of[k]][1].fired
      BY <1>3, <2>1 DEF CountRight
    <2>2. /\ remaining[m] = Left(m, 1) + Left(m, 2)
          /\ \A k \in arrived[m] : made[m].of[k] # Page /\ lists[made[m].of[k]][1].fired
      BY DEF Tokens, CountRight
    <2>3. \A k \in arrived[m] : made[m].of[k] \in Ids
      <3>1. arrived[m] \subseteq 1..2
        BY <2>1 DEF Justice, BooksRight
      <3> QED
        BY <2>1, <2>2, <3>1 DEF Justice, BooksRight
    <2> QED
      <3>1. Left(m, 1)' = Left(m, 1) /\ Left(m, 2)' = Left(m, 2)
        BY <1>3 DEF Left
      <3>2. ASSUME NEW k \in arrived[m]
            PROVE  made[m].of[k] # Page /\ lists'[made[m].of[k]][1].fired
        <4>1. made[m].of[k] \in Ids /\ made[m].of[k] # Page /\ lists[made[m].of[k]][1].fired
          BY <2>2, <2>3
        <4> QED
          BY <1>3, <4>1, Zenon
      <3> QED
        BY <1>3, <2>2, <3>1, <3>2
  <1> QED
    BY <1>7, <1>8, <1>9, <1>10, <1>11 DEF Tokens

LEMMA PassingKeeps ==
  ASSUME Structure, Passes, Justice, Grown, BooksRight', NothingLost
  PROVE  NothingLost'
  <1>1. Types /\ Made' = Made
    BY DEF Structure, Passes, Made
  <1>2. \A op : Owing(op) => Owing(op)'
    <2>1. PICK ops : ops = <<>>
      OBVIOUS
    <2>2. Carries(ops) /\ Len(Top.todo) = 0
      BY <2>1, NoEntries DEF Passes
    <2> QED
      BY <1>1, <2>2, OwingStays
  <1>3. Paid
    BY <1>1, <1>2, AllOwed DEF Passes
  <1>4. \A d, e : Owns(e, d, e.i)' => Owns(e, d, e.i)
    BY <1>1 DEF Owns, Passes
  <1>5. ASSUME NEW d \in Made, NEW e \in Wires, Linked(e, d), ~Handed(e)
        PROVE  Linked(e, d)'
    <2>1. d \in Ids /\ e.i \in Sides /\ e.i \in Lists /\ e.fn \in {"then", "settle", "count"}
      BY WireIs DEF Justice, BooksRight
    <2>2. CASE lists[d][e.i].disabled
      <3>1. ~(d = Top.d /\ e.i = Top.i)
        BY <2>1, <2>2, ListIs DEF Passes, Structure
      <3>2. lists'[d][e.i].disabled
        BY <2>1, <2>2, <3>1 DEF Passes
      <3> QED
        BY <3>2 DEF Linked
    <2>3. CASE Comes(d, e.i, e) /\ (d # Top.d \/ e.i # Top.i)
      <3>1. CASE lists'[d][e.i] = lists[d][e.i]
        <4>1. Busy(d, e.i)' <=> Busy(d, e.i)
          BY <1>1, <2>3, BusyElse
        <4> QED
          BY <2>3, <3>1, <4>1, ComesSame DEF Linked
      <3>2. CASE lists'[d][e.i].disabled
        BY <3>2 DEF Linked
      <3> QED
        BY <2>1, <2>3, <3>1, <3>2 DEF Passes
    <2>4. CASE Comes(d, e.i, e) /\ d = Top.d /\ e.i = Top.i
      <3>1. PICK p \in Position(d, e.i)..Len(lists[d][e.i].list) : lists[d][e.i].list[p] = e
        BY <2>4 DEF Comes
      <3>2. /\ lists[d][e.i].firing /\ List = lists[d][e.i] /\ (Busy(d, e.i) <=> Top.in /\ ~Top.user)
            /\ Position(d, e.i) \in Nat /\ lists[d][e.i].at \in Nat /\ Len(lists[d][e.i].list) \in Nat
        BY <2>1, <2>4, BusyOwn, PositionIs, ListIs DEF Passes, List, Structure
      <3>3. CASE /\ lists'[d][e.i].list = lists[d][e.i].list /\ lists'[d][e.i].firing
                 /\ lists'[d][e.i].at = lists[d][e.i].at + 1
                 /\ (Top.in /\ ~Top.user) \/ Running.fn \notin {"then", "settle", "count"}
        <4>1. Position(d, e.i)' = lists[d][e.i].at + 1
          BY <1>1, <2>4, <3>3, BusyElse DEF Position
        <4>2. p >= lists[d][e.i].at + 1
          <5>1. CASE Busy(d, e.i)
            BY <3>1, <3>2, <5>1 DEF Position
          <5>2. CASE ~Busy(d, e.i)
            <6>1. Position(d, e.i) = lists[d][e.i].at
              BY <3>2, <5>2 DEF Position
            <6>2. p # lists[d][e.i].at
              BY <2>1, <3>1, <3>2, <3>3, <5>2 DEF Running
            <6> QED
              BY <3>1, <3>2, <6>1, <6>2
          <5> QED
            BY <5>1, <5>2
        <4>3. p \in Position(d, e.i)'..Len(lists'[d][e.i].list)
          BY <3>1, <3>2, <3>3, <4>1, <4>2
        <4>4. lists'[d][e.i].list[p] = e
          BY <3>1, <3>3
        <4> QED
          BY <4>3, <4>4 DEF Comes, Linked
      <3>4. CASE lists[d][e.i].at = Len(lists[d][e.i].list) + 1 /\ ~Top.in
        <4>1. Position(d, e.i) = lists[d][e.i].at
          BY <3>2, <3>4 DEF Position
        <4> QED
          BY <3>1, <3>2, <3>4, <4>1
      <3>5. \A c \in Ids, i \in Sides : c = Top.d /\ i = Top.i =>
               \/ /\ lists'[c][i].list = lists[c][i].list /\ lists'[c][i].firing /\ lists'[c][i].at = lists[c][i].at + 1
                  /\ (Top.in /\ ~Top.user) \/ Running.fn \notin {"then", "settle", "count"}
               \/ lists'[c][i].list = <<>> /\ lists[c][i].at = Len(lists[c][i].list) + 1 /\ ~Top.in
        BY DEF Passes
      <3> QED
        BY <2>1, <2>4, <3>3, <3>4, <3>5
    <2>5. CASE Owing(DoAdd(d, e.i, e))
      BY <1>2, <2>5 DEF Linked
    <2> QED
      BY <1>5, <2>2, <2>3, <2>4, <2>5 DEF Linked
  <1> QED
    BY <1>1, <1>3, <1>4, <1>5, KeptIfPaid DEF Passes

LEMMA PassingIs ==
  ASSUME Structure, CausesInv, Passes, StateRight'
  PROVE  CausesInv'
  <1>1. Justice' /\ Grown /\ Tokens'
    BY PassingJust, PassingCounts DEF CausesInv
  <1>2. broken' = broken
    BY DEF Passes
  <1>3. ~broken => NothingLost'
    BY <1>1, PassingKeeps DEF CausesInv, Justice
  <1>4. LoopsRight'
    <2>1. \A k \in 1..Depth' : /\ k \in 1..Depth /\ (k # Depth => frames'[k] = frames[k])
                               /\ k = Depth => ~frames'[k].user
      <3>1. Depth \in Nat /\ Depth' \in Nat /\ Depth' <= Depth
        BY StackIs DEF Structure, Passes, Carries
      <3> QED
        BY <3>1 DEF Passes, Carries
    <2> QED
      BY <2>1 DEF CausesInv, LoopsRight
  <1> QED
    BY <1>1, <1>2, <1>3, <1>4 DEF CausesInv

\* The stack stays as it is.
LEMMA SameCarries ==
  ASSUME Types, frames' = frames
  PROVE  Carries(Top.todo) /\ Depth' = Depth
  <1>1. Top \in Frames /\ frames' = WithTop(Top)
    BY StackIs, TopStays
  <1>2. PICK f \in Frames : f = Top
    BY <1>1
  <1>3. Carries(f.todo)
    BY <1>1, <1>2, TopCarries
  <1> QED
    BY <1>2, <1>3 DEF Depth

LEMMA StateStays ==
  ASSUME StateRight, state' = state, \A d, i : ~Opening(d, i),
         \A d \in Ids, i \in Sides : lists'[d][i].fired <=> lists[d][i].fired
  PROVE  StateRight'
  <1>1. \A d \in Ids : SomeFired(d)' <=> SomeFired(d)
    BY DEF SomeFired, Sides
  <1> QED
    BY <1>1 DEF StateRight

LEMMA ReturnPasses ==
  ASSUME Structure, CausesInv, Return
  PROVE  CausesInv'
  <1>0. Justice /\ BooksRight /\ StateRight /\ Depth > 1 /\ Top.in /\ Top.todo = <<>> /\ (Top.user => Running.fn = "handler")
    BY DEF CausesInv, Justice, Return
  <1>1. /\ Types /\ Depth \in Nat /\ Top \in Frames
        /\ Top.d \in Ids /\ Top.i \in Lists /\ List = lists[Top.d][Top.i] /\ List.firing
        /\ List.at \in 1..Len(List.list) /\ List.length = Len(List.list)
    BY <1>0, RunningIs DEF Structure
  <1>2. PICK f : f = [Top EXCEPT !.in = FALSE, !.user = FALSE]
    OBVIOUS
  <1>3. f \in Frames /\ f.d = Top.d /\ f.i = Top.i /\ ~f.in /\ ~f.user /\ f.todo = <<>>
    BY <1>0, <1>1, <1>2 DEF Frames
  <1>4. frames' = WithTop(f)
    BY <1>2 DEF Return
  <1>5. /\ Depth' = Depth /\ frames'[Depth] = f /\ Carries(f.todo)
    BY <1>1, <1>3, <1>4, TopIs, TopCarries
  <1>6. Carries(<<>>)
    BY <1>3, <1>5
  <1>7. PICK y : y = Advance(List)
    OBVIOUS
  <1>8. ListOK(List) /\ List.at <= List.length /\ Len(List.list) \in Nat /\ List.at \in Nat
    BY <1>1, ListIs DEF Structure
  <1>9. /\ ListOK(y)
        /\ y.list = List.list /\ y.at = List.at + 1 /\ y.data = List.data /\ y.memory = List.memory
        /\ (y.disabled <=> List.disabled) /\ y.firing /\ (y.fired <=> List.fired) /\ (y.stacked <=> List.stacked)
        /\ y.stack = List.stack
    BY <1>1, <1>7, <1>8, AdvanceOK, SMTT(20)
  <1>10. Top.i \in Sides => Settling(y)
    <2>1. Top.i \in Sides => Settling(List)
      BY <1>1, SideIs DEF Structure
    <2> QED
      BY <1>1, <1>9, <2>1 DEF Settling
  <1>11. lists' = Put(lists, Top.d, Top.i, y)
    BY <1>1, <1>7 DEF Return, Put
  <1>12. /\ lists'[Top.d][Top.i] = y
         /\ \A d \in Ids, i \in Lists : d # Top.d \/ i # Top.i => lists'[d][i] = lists[d][i]
    BY <1>1, <1>9, <1>10, <1>11, PutIs DEF Structure
  <1>13. \A i \in Sides : i \in Lists
    BY DEF Sides, Lists
  <1>14. \A d \in Ids, i \in Sides : lists'[d][i].fired <=> lists[d][i].fired
    BY <1>1, <1>9, <1>12, <1>13
  <1>15. StateRight'
    <2>1. \A d, i : ~Opening(d, i)
      BY <1>0, NotOpening
    <2> QED
      BY <1>0, <1>14, <2>1, StateStays DEF Return
  <1>16. Passes
    <2>1. ~List.disabled
      BY <1>1, ListIs DEF Structure
    <2>2. \A d \in Ids, i \in Lists : lists'[d][i].list \in {lists[d][i].list, <<>>}
      BY <1>1, <1>9, <1>12
    <2>3. \A d \in Ids, i \in Sides : d # Top.d \/ i # Top.i => lists'[d][i] = lists[d][i]
      BY <1>12, <1>13
    <2>4. \A d \in Ids, i \in Sides : d = Top.d /\ i = Top.i =>
              /\ ~lists'[d][i].disabled /\ lists'[d][i].list = lists[d][i].list /\ lists'[d][i].firing
              /\ lists'[d][i].at = lists[d][i].at + 1
      BY <1>1, <1>9, <1>12, <2>1
    <2>5. (Top.in /\ ~Top.user) \/ Running.fn \notin {"then", "settle", "count"}
      BY <1>0
    <2>6. \A k \in 1..Depth' : k = Depth =>
            frames'[k].d = Top.d /\ frames'[k].i = Top.i /\ ~frames'[k].in /\ ~frames'[k].user
      BY <1>3, <1>5
    <2>7. /\ made' = made /\ remaining' = remaining /\ arrived' = arrived /\ adopted' = adopted
          /\ passed' = passed /\ broken' = broken /\ state' = [d \in Ids |-> state'[d]]
      BY <1>0 DEF Return, history, BooksRight
    <2>8. Depth' <= Depth
      BY <1>1, <1>5
    <2>9. lists[Top.d][Top.i].firing
      BY <1>1
    <2>10. Depth > 1 /\ Top.todo = <<>> /\ Top.d \in Ids /\ Top.i \in Lists
      BY <1>0, <1>1
    <2> QED
      BY <1>6, <1>14, <2>2, <2>3, <2>4, <2>5, <2>6, <2>7, <2>8, <2>9, <2>10, ZenonT(30) DEF Passes
  <1> QED
    BY <1>15, <1>16, PassingIs

\* What the deferred does first of all when it is settled.
LEMMA InternalPasses ==
  ASSUME Structure, CausesInv, CallInternal
  PROVE  CausesInv'
  <1>0. Justice /\ BooksRight /\ StateRight /\ EntriesRight /\ Looping /\ HasNext(List)
    BY DEF CausesInv, Justice, CallInternal
  <1>1. /\ Types /\ Depth \in Nat /\ Depth > 1 /\ Top \in Frames /\ Top.todo = <<>>
        /\ Top.d \in Ids /\ Top.i \in Lists /\ List = lists[Top.d][Top.i] /\ List.firing /\ ~Top.in
    BY <1>0, LoopIs DEF Structure, Looping
  <1>2. PICK d \in Ids, i \in Lists : d = Top.d /\ i = Top.i
    BY <1>1
  <1>3. PICK e : e = List.list[List.at]
    OBVIOUS
  <1>4. Owns(e, d, i) /\ (i \in Sides => List.fired)
    BY <1>0, <1>1, <1>2, <1>3, CalledIs
  <1>5. e.fn \in {"state", "disable", "lock"} /\ frames' = frames
    BY <1>3 DEF CallInternal
  <1>6. i \in Sides /\ List.fired /\ 3 - (3 - i) = i
    BY <1>4, <1>5 DEF Owns, Sides
  <1>7. /\ lists'[d][i].list = List.list /\ lists'[d][i].at = List.at + 1
        /\ lists'[d][i].firing /\ ~lists'[d][i].disabled
        /\ (lists'[d][i].fired <=> List.fired)
        /\ \A c \in Ids, j \in Lists : c # d \/ j # i => lists'[c][j].list \in {lists[c][j].list, <<>>}
        /\ \A c \in Ids, j \in Sides : c # d \/ j # i =>
              \/ lists'[c][j] = lists[c][j]
              \/ c = d /\ j = 3 - i /\ ~lists[c][j].fired /\ ~lists'[c][j].fired /\ lists'[c][j].disabled
    BY <1>2, <1>6, InternalIs
  <1>8. \A c \in Ids, j \in Sides : lists'[c][j].fired <=> lists[c][j].fired
    BY <1>1, <1>2, <1>7
  <1>9. StateRight'
    <2>1. CASE e.fn # "state"
      <3>1. state' = state
        BY <1>3, <2>1 DEF CallInternal
      <3>2. \A c, j : ~Opening(c, j)
        BY <1>3, <2>1, NotOpening
      <3> QED
        BY <1>0, <1>8, <3>1, <3>2, StateStays
    <2>2. CASE e.fn = "state"
      <3>1. state' = [state EXCEPT ![d] = Name(i)]
        BY <1>2, <1>3, <2>2 DEF CallInternal, Name
      <3>2. state'[d] = Name(i) /\ \A c \in Ids : c # d => state'[c] = state[c]
        BY <1>0, <3>1 DEF BooksRight
      <3>3. \A c \in Ids : SomeFired(c)' <=> SomeFired(c)
        BY <1>8 DEF SomeFired, Sides
      <3>4. SomeFired(d) /\ ~lists[d][3 - i].fired /\ \A j \in Sides : j = i \/ j = 3 - i
        BY <1>1, <1>2, <1>6 DEF SomeFired, Sides, Structure, OneSide
      <3>5. ASSUME NEW c \in Ids
            PROVE  /\ ~SomeFired(c)' => state'[c] = "pending"
                   /\ \A j \in Sides : lists'[c][j].fired => state'[c] = Name(j)
        <4>1. CASE c = d
          BY <1>8, <3>2, <3>3, <3>4, <4>1
        <4>2. CASE c # d
          <5>1. \A j : ~Opening(c, j)
            BY <1>2, <4>2 DEF Opening
          <5> QED
            BY <1>0, <1>8, <3>2, <3>3, <4>2, <5>1 DEF StateRight
        <4> QED
          BY <4>1, <4>2
      <3> QED
        BY <3>5 DEF StateRight, Name
    <2> QED
      BY <2>1, <2>2
  <1>10. Passes
    <2>1. Carries(<<>>) /\ Depth' = Depth
      BY <1>1, <1>5, SameCarries
    <2>2. \A k \in 1..Depth' : k = Depth =>
            frames'[k].d = Top.d /\ frames'[k].i = Top.i /\ ~frames'[k].in /\ ~frames'[k].user
      <3>1. Top.in \/ ~Top.user
        BY <1>1 DEF CausesInv, LoopsRight, Top
      <3> QED
        BY <1>1, <1>5, <3>1 DEF Top
    <2>3. /\ made' = made /\ remaining' = remaining /\ arrived' = arrived /\ adopted' = adopted
          /\ passed' = passed /\ broken' = broken
      BY DEF CallInternal, history
    <2>4. state' = [c \in Ids |-> state'[c]]
      BY <1>0 DEF CallInternal, BooksRight
    <2>5. \A c \in Ids, j \in Lists : lists'[c][j].list \in {lists[c][j].list, <<>>}
      BY <1>1, <1>2, <1>7
    <2>6. ASSUME NEW c \in Ids, NEW j \in Sides, c # Top.d \/ j # Top.i
          PROVE  \/ lists'[c][j] = lists[c][j]
                 \/ ~lists[c][j].firing /\ lists'[c][j].disabled /\ lists[c][3 - j].fired
      <3>1. CASE c = d /\ j = 3 - i /\ ~lists[c][j].fired /\ lists'[c][j].disabled
        <4>1. ~lists[c][j].firing
          BY <3>1, SideIs DEF Structure
        <4>2. lists[c][3 - j].fired
          BY <1>1, <1>2, <1>6, <3>1
        <4> QED
          BY <3>1, <4>1, <4>2
      <3> QED
        BY <1>2, <1>7, <2>6, <3>1
    <2>7. Running.fn \notin {"then", "settle", "count"}
      BY <1>3, <1>5 DEF Running
    <2>8. \A c \in Ids, j \in Sides : c = Top.d /\ j = Top.i =>
             /\ ~lists'[c][j].disabled /\ lists'[c][j].list = lists[c][j].list /\ lists'[c][j].firing
             /\ lists'[c][j].at = lists[c][j].at + 1
      BY <1>1, <1>2, <1>7
    <2>9. lists[Top.d][Top.i].firing /\ Depth' <= Depth
      BY <1>1, <2>1
    <2> QED
      BY <1>1, <1>8, <2>1, <2>2, <2>3, <2>4, <2>5, <2>6, <2>7, <2>8, <2>9, Zenon DEF Passes
  <1> QED
    BY <1>9, <1>10, PassingIs

LEMMA EndPasses ==
  ASSUME Structure, CausesInv, EndRound
  PROVE  CausesInv'
  <1>0. Justice /\ BooksRight /\ StateRight /\ Looping /\ ~HasNext(List)
    BY DEF CausesInv, Justice, EndRound
  <1>1. /\ Types /\ Depth \in Nat /\ Depth > 1 /\ Top \in Frames /\ Top.todo = <<>>
        /\ Top.d \in Ids /\ Top.i \in Lists /\ List = lists[Top.d][Top.i] /\ List.firing /\ ~Top.in
        /\ ~(List.at <= Len(List.list))
    BY <1>0, LoopIs DEF Structure, Looping
  <1>2. ListOK(List) /\ Len(List.list) \in Nat /\ List.at \in 1..Len(List.list) + 1 /\ ~List.disabled
    BY <1>1, ListIs DEF Structure
  <1>3. List.at = Len(List.list) + 1
    BY <1>1, <1>2
  <1>4. PICK y : y = End(List, Options(Top.i))
    OBVIOUS
  <1>5. /\ ListOK(y) /\ y.list \in {List.list, <<>>}
        /\ ~List.stacked => y.list = <<>> /\ ~y.firing /\ (y.fired <=> List.fired)
        /\ ~List.stacked => ~y.disabled /\ ~y.stacked /\ y.stack = List.stack
        /\ ~List.stacked => y.data = List.data /\ y.memory = List.memory
    BY <1>1, <1>2, <1>4, OptionsAre, EndOK
  <1>6. Top.i \in Sides => Settling(List) /\ ~List.stacked
    BY <1>1, SideIs DEF Structure, Settling
  <1>7. Top.i \in Sides => Settling(y)
    BY <1>5, <1>6 DEF Settling
  <1>8. lists' = Put(lists, Top.d, Top.i, y)
    BY <1>4 DEF EndRound, Put
  <1>9. /\ lists'[Top.d][Top.i] = y
        /\ \A d \in Ids, i \in Lists : d # Top.d \/ i # Top.i => lists'[d][i] = lists[d][i]
    BY <1>1, <1>5, <1>7, <1>8, PutIs DEF Structure
  <1>10. \A i \in Sides : i \in Lists
    BY DEF Sides, Lists
  <1>11. \A d \in Ids, i \in Sides : lists'[d][i].fired <=> lists[d][i].fired
    BY <1>1, <1>5, <1>6, <1>9, <1>10
  <1>12. StateRight'
    <2>1. \A d, i : ~Opening(d, i)
      <3>1. ~(List.at = 1 /\ Len(List.list) >= 2)
        BY <1>2, <1>3
      <3> QED
        BY <1>1, <3>1 DEF Opening, Begins
    <2> QED
      BY <1>0, <1>11, <2>1, StateStays DEF EndRound
  <1>13. /\ Carries(<<>>) /\ Depth' <= Depth
         /\ \A k \in 1..Depth' : k = Depth =>
              frames'[k].d = Top.d /\ frames'[k].i = Top.i /\ ~frames'[k].in /\ ~frames'[k].user
    <2>1. Top.in \/ ~Top.user
      BY <1>1 DEF CausesInv, LoopsRight, Top
    <2>2. CASE frames' = frames
      <3>1. Carries(<<>>) /\ Depth' = Depth
        BY <1>1, <2>2, SameCarries
      <3> QED
        BY <1>1, <2>1, <2>2, <3>1 DEF Top
    <2>3. CASE frames' = SubSeq(frames, 1, Depth - 1)
      <3>1. Depth' = Depth - 1 /\ \A k \in 1..Depth - 1 : frames'[k] = frames[k]
        BY <1>1, <2>3, PopIs
      <3>2. Depth' \in Nat /\ Depth' <= Depth /\ \A k \in 1..Depth' : k < Depth /\ ~(k = Depth) /\ ~(k > Depth) /\ frames'[k] = frames[k]
        BY <1>1, <3>1
      <3>3. Depth' >= Depth - 1
        BY <1>1, <3>1
      <3>4. <<>> \in Seq(Adding \cup Firing)
        OBVIOUS
      <3> QED
        BY <3>2, <3>3, <3>4 DEF Carries
    <2> QED
      BY <2>2, <2>3 DEF EndRound
  <1>14. Passes
    <2>1. \A d \in Ids, i \in Lists : lists'[d][i].list \in {lists[d][i].list, <<>>}
      BY <1>1, <1>5, <1>9
    <2>2. \A d \in Ids, i \in Sides : d # Top.d \/ i # Top.i => lists'[d][i] = lists[d][i]
      BY <1>9, <1>10
    <2>3. \A d \in Ids, i \in Sides : d = Top.d /\ i = Top.i =>
              ~lists'[d][i].disabled /\ lists'[d][i].list = <<>> /\ lists[d][i].at = Len(lists[d][i].list) + 1
      BY <1>1, <1>3, <1>5, <1>6, <1>9
    <2>4. /\ made' = made /\ remaining' = remaining /\ arrived' = arrived /\ adopted' = adopted
          /\ passed' = passed /\ broken' = broken /\ state' = [d \in Ids |-> state'[d]]
      BY <1>0 DEF EndRound, history, BooksRight
    <2>5. lists[Top.d][Top.i].firing
      BY <1>1
    <2> QED
      BY <1>1, <1>11, <1>13, <2>1, <2>2, <2>3, <2>4, <2>5, ZenonT(30) DEF Passes
  <1> QED
    BY <1>12, <1>14, PassingIs

-------------------------------------------------------------------------------
(* The library makes the next call. *)

\* Code calls op and goes on in f.
Serves(op, f) ==
    /\ Top.in /\ Top.todo # <<>> /\ op = Head(Top.todo) /\ op \in Adding \cup Firing
    /\ f \in Frames /\ f.d = Top.d /\ f.i = Top.i /\ f.in /\ f.user = Top.user /\ f.todo = Tail(Top.todo)
    /\ op.d \in Ids /\ op.i \in Lists /\ (op.op = "add" <=> op \in Adding)
    /\ op.op = "count" => op.i = 1 /\ op \in Firing
    /\ Stored(op, op.d, op.i) /\ GoesOn(f, op.d, op.i)
    /\ op.op = "fire" /\ op.i \in Sides => lists'[op.d][op.i].fired \/ lists[op.d][op.i].disabled
    /\ op.op # "count" => remaining' = remaining /\ arrived' = arrived
    /\ op.op = "count" =>
          /\ arrived' = [arrived EXCEPT ![op.d] = @ \cup {op.entry.n}]
          /\ remaining' = [remaining EXCEPT ![op.d] = @ - 1]
          /\ remaining'[op.d] = 0 => lists'[op.d][1].fired \/ lists[op.d][1].disabled
          /\ remaining'[op.d] # 0 => lists' = lists
    /\ state' = state /\ made' = made /\ adopted' = adopted /\ passed' = passed /\ broken' = broken

LEMMA FireFires ==
  ASSUME Structure, NEW d \in Ids, NEW i \in Sides, NEW v \in Vals, NEW y, y = FireWith(lists[d][i], Options(i), v)
  PROVE  y.fired \/ lists[d][i].disabled
  <1>1. ListOK(lists[d][i]) /\ Settling(lists[d][i]) /\ Options(i) = OnceMemory
    BY SideIs, ListIs, OptionsAre DEF Structure
  <1> QED
    BY <1>1, SideFire

LEMMA DoServes ==
  ASSUME Structure, Do
  PROVE  \E op, f : Serves(op, f)
  <1>1. Top.in /\ Top.todo # <<>>
    BY DEF Do
  <1>2. /\ Types /\ ListsOK /\ Top \in Frames
    BY StackIs DEF Structure, Types
  <1>3. PICK op : op = Head(Top.todo)
    OBVIOUS
  <1>4. Top.todo \in Seq(Adding \cup Firing)
    BY <1>2, FrameIs
  <1>5. op \in Adding \cup Firing /\ Tail(Top.todo) \in Seq(Adding \cup Firing)
    BY <1>1, <1>3, <1>4
  <1>6. PICK f : f = [Top EXCEPT !.todo = Tail(Top.todo)]
    OBVIOUS
  <1>7. f \in Frames /\ f.d = Top.d /\ f.i = Top.i /\ f.in /\ f.user = Top.user /\ f.todo = Tail(Top.todo)
    <2>1. PICK rest : rest \in Seq(Adding \cup Firing) /\ rest = Tail(Top.todo)
      BY <1>5
    <2>2. f = [Top EXCEPT !.todo = rest]
      BY <1>6, <2>1
    <2>3. f \in Frames /\ f.d = Top.d /\ f.i = Top.i /\ (f.in <=> Top.in) /\ f.todo = rest
      BY <1>2, <2>1, <2>2 DEF Frames
    <2>4. f.user = Top.user
      BY <1>2, <2>2 DEF Frames
    <2> QED
      BY <1>1, <2>1, <2>3, <2>4
  <1>8. /\ op.d \in Ids /\ op.i \in Lists
        /\ op \in Adding <=> op.op = "add"
        /\ op \in Firing <=> op.op \in {"fire", "count"}
        /\ op.op = "count" => op.i = 1
        /\ op.op # "add" => op.value \in Vals
    BY <1>5 DEF Adding, Firing, Lists
  <1>9. \A d \in Ids, i \in Lists : ListOK(lists[d][i]) /\ (i \in Sides => Settling(lists[d][i]))
    BY <1>2 DEF ListsOK, AllOK
  <1>10. /\ state' = state /\ made' = made /\ adopted' = adopted /\ passed' = passed /\ broken' = broken
    BY DEF Do, history
  <1>11. CASE op.op = "add"
    <2>1. Store(op.d, op.i, Add(lists[op.d][op.i], Options(op.i), op.entry), WithTop(f))
          /\ remaining' = remaining /\ arrived' = arrived
      BY <1>3, <1>6, <1>11 DEF Do
    <2>2. Grows(lists[op.d][op.i], Add(lists[op.d][op.i], Options(op.i), op.entry), op.i, op)
      BY <1>8, <1>9, <1>11, AddGrows
    <2>3. Stored(op, op.d, op.i) /\ GoesOn(f, op.d, op.i)
      BY <1>7, <1>8, <2>1, <2>2, StoreIs
    <2> QED
      BY <1>1, <1>3, <1>5, <1>7, <1>8, <1>10, <1>11, <2>1, <2>3 DEF Serves
  <1>12. CASE op.op = "fire"
    <2>0. PICK y : y = FireWith(lists[op.d][op.i], Options(op.i), op.value)
      OBVIOUS
    <2>1. Store(op.d, op.i, y, WithTop(f)) /\ remaining' = remaining /\ arrived' = arrived
      BY <1>3, <1>6, <1>12, <2>0 DEF Do
    <2>2. Grows(lists[op.d][op.i], y, op.i, op)
      BY <1>8, <1>9, <1>12, <2>0, FireGrows
    <2>3. Stored(op, op.d, op.i) /\ GoesOn(f, op.d, op.i)
      BY <1>7, <1>8, <1>12, <2>1, <2>2, StoreIs
    <2>4. lists' = Put(lists, op.d, op.i, y)
      BY <2>1 DEF Store, Put
    <2>5. ListOK(y) /\ (op.i \in Sides => Settling(y))
      BY <2>2 DEF Grows
    <2>6. lists'[op.d][op.i] = y
      BY <1>2, <1>8, <2>4, <2>5, PutIs
    <2>7. op.i \in Sides => y.fired \/ lists[op.d][op.i].disabled
      BY <1>8, <1>12, <2>0, FireFires
    <2>8. op.op # "add" /\ op.op # "count"
      BY <1>12
    <2> QED
      BY <1>1, <1>3, <1>5, <1>7, <1>8, <1>10, <2>1, <2>3, <2>6, <2>7, <2>8, Zenon DEF Serves
  <1>13. CASE op.op = "count"
    <2>0. PICK y : y = FireWith(lists[op.d][1], Options(1), op.value)
      OBVIOUS
    <2>1. /\ arrived' = [arrived EXCEPT ![op.d] = @ \cup {op.entry.n}]
          /\ remaining' = [remaining EXCEPT ![op.d] = @ - 1]
          /\ IF remaining'[op.d] = 0 THEN Store(op.d, 1, y, WithTop(f)) ELSE frames' = WithTop(f) /\ lists' = lists
      BY <1>3, <1>6, <1>8, <1>13, <2>0 DEF Do
    <2>2. 1 \in Lists /\ 1 \in Sides /\ op.i = 1 /\ op \in Firing
      BY <1>8, <1>13 DEF Lists, Sides
    <2>3. CASE remaining'[op.d] = 0
      <3>1. Store(op.d, 1, y, WithTop(f))
        BY <2>1, <2>3
      <3>2. Grows(lists[op.d][1], y, 1, op)
        BY <1>8, <1>9, <2>0, <2>2, FireGrows
      <3>3. Stored(op, op.d, 1) /\ GoesOn(f, op.d, 1)
        BY <1>7, <1>8, <1>13, <2>2, <3>1, <3>2, StoreIs
      <3>4. lists' = Put(lists, op.d, 1, y)
        BY <3>1 DEF Store, Put
      <3>5. ListOK(y) /\ Settling(y)
        BY <2>2, <3>2 DEF Grows
      <3>6. lists'[op.d][1] = y
        BY <1>2, <1>8, <2>2, <3>4, <3>5, PutIs
      <3>7. y.fired \/ lists[op.d][1].disabled
        BY <1>8, <1>13, <2>0, <2>2, FireFires
      <3>8. op.op # "add" /\ op.op # "fire"
        BY <1>13
      <3> QED
        BY <1>1, <1>3, <1>5, <1>7, <1>8, <1>10, <2>1, <2>2, <2>3, <3>3, <3>6, <3>7, <3>8, Zenon DEF Serves
    <2>4. CASE remaining'[op.d] # 0
      <3>1. frames' = WithTop(f) /\ lists' = lists
        BY <2>1, <2>4
      <3>2. Grows(lists[op.d][1], lists[op.d][1], 1, op)
        BY <1>8, <1>9, <1>13, <2>2 DEF Grows
      <3>3. ListsOK'
        BY <1>2, <3>1 DEF ListsOK, AllOK
      <3>4. Stored(op, op.d, 1)
        BY <1>13, <3>1, <3>2, <3>3 DEF Stored
      <3>5. GoesOn(f, op.d, 1)
        BY <3>1 DEF GoesOn, Starts
      <3>8. op.op # "add" /\ op.op # "fire"
        BY <1>13
      <3> QED
        BY <1>1, <1>3, <1>5, <1>7, <1>8, <1>10, <2>1, <2>2, <2>4, <3>1, <3>4, <3>5, <3>8, Zenon DEF Serves
    <2> QED
      BY <2>3, <2>4
  <1> QED
    BY <1>5, <1>8, <1>11, <1>12, <1>13

\* The stack, and whose calls are whose.
LEMMA ServedFrames ==
  ASSUME Structure, NEW op, NEW f, Serves(op, f)
  PROVE  /\ Depth \in Nat \ {0} /\ Depth' \in Nat /\ Depth' \in {Depth, Depth + 1} /\ Top = frames[Depth]
         /\ \A k \in 1..Depth : /\ frames'[k].d = frames[k].d /\ frames'[k].i = frames[k].i
                                /\ frames'[k].in = frames[k].in /\ frames'[k].user = frames[k].user
                                /\ k # Depth => frames'[k] = frames[k]
         /\ frames'[Depth] = f
         /\ \A k \in 1..Depth' : k \in 1..Depth \/ (k = Depth + 1 /\ Starts(op.d, op.i) /\ frames'[k] = Round(op.d, op.i))
         /\ Starts(op.d, op.i) => Depth' = Depth + 1 /\ Top' = Round(op.d, op.i)
         /\ Carries(f.todo)
  <1>0. /\ Types /\ f \in Frames /\ f.d = Top.d /\ f.i = Top.i /\ f.in /\ Top.in /\ f.user = Top.user
        /\ op.d \in Ids /\ op.i \in Lists /\ GoesOn(f, op.d, op.i) /\ Depth \in Nat \ {0} /\ Top = frames[Depth]
        /\ Top \in Frames
    BY StackIs DEF Structure, Serves, Top
  <1>1. /\ frames'[Depth] = f
        /\ \A k \in 1..Depth : k # Depth => frames'[k] = frames[k]
        /\ Starts(op.d, op.i) => Depth' = Depth + 1 /\ Top' = Round(op.d, op.i) /\ frames'[Depth + 1] = Round(op.d, op.i)
        /\ ~Starts(op.d, op.i) => Depth' = Depth
    BY <1>0, StackAfter
  <1>2. f.in = Top.in
    BY <1>0, FrameIs
  <1>3. \A k \in 1..Depth : /\ frames'[k].d = frames[k].d /\ frames'[k].i = frames[k].i
                            /\ frames'[k].in = frames[k].in /\ frames'[k].user = frames[k].user
    BY <1>0, <1>1, <1>2
  <1>4. Depth' \in Nat /\ Depth' \in {Depth, Depth + 1}
    BY <1>0, <1>1
  <1>5. \A k \in 1..Depth' : k \in 1..Depth \/ (k = Depth + 1 /\ Starts(op.d, op.i) /\ frames'[k] = Round(op.d, op.i))
    BY <1>0, <1>1, <1>4
  <1>6. Carries(f.todo)
    <2>1. f.todo \in Seq(Adding \cup Firing)
      BY <1>0, FrameIs
    <2>2. Round(op.d, op.i).todo = <<>>
      BY <1>0, RoundIs
    <2> QED
      BY <1>0, <1>1, <1>4, <1>5, <2>1, <2>2 DEF Carries
  <1> QED
    BY <1>0, <1>1, <1>3, <1>4, <1>5, <1>6

\* Where a call of the next state was before.
Before(k, j) == IF k = Depth THEN j + 1 ELSE j

LEMMA ServedCalls ==
  ASSUME Structure, NEW op, NEW f, Serves(op, f)
  PROVE  /\ Top.todo[1] = op /\ 1 \in 1..Len(Top.todo) /\ 1 \in 1..Len(frames[Depth].todo) /\ frames[Depth].todo[1] = op
         /\ Depth \in 1..Depth
         /\ \A k \in 1..Depth' : \A j \in 1..Len(frames'[k].todo) :
               /\ k \in 1..Depth /\ j \in Nat \ {0} /\ Before(k, j) \in 1..Len(frames[k].todo)
               /\ frames[k].todo[Before(k, j)] = frames'[k].todo[j]
         /\ \A j \in 1..Len(Top.todo) : j = 1 \/ (j - 1 \in 1..Len(f.todo) /\ f.todo[j - 1] = Top.todo[j])
         /\ \A j \in 1..Len(f.todo) : j + 1 \in 1..Len(Top.todo) /\ Top.todo[j + 1] = f.todo[j]
  <1>0. /\ Types /\ Top \in Frames /\ f.todo = Tail(Top.todo) /\ op = Head(Top.todo) /\ Top.todo # <<>>
        /\ Depth \in Nat \ {0} /\ Top = frames[Depth] /\ Carries(f.todo)
    BY ServedFrames, StackIs DEF Structure, Serves
  <1>1. Top.todo \in Seq(Adding \cup Firing)
    BY <1>0, FrameIs
  <1>2. Len(Top.todo) \in Nat \ {0} /\ Len(f.todo) = Len(Top.todo) - 1 /\ Top.todo[1] = op
        /\ \A j \in 1..Len(f.todo) : f.todo[j] = Top.todo[j + 1]
    BY <1>0, <1>1
  <1>3. \A j \in 1..Len(f.todo) : j + 1 \in 1..Len(Top.todo) /\ Top.todo[j + 1] = f.todo[j]
    BY <1>2
  <1>4. \A j \in 1..Len(Top.todo) : j = 1 \/ (j - 1 \in 1..Len(f.todo) /\ f.todo[j - 1] = Top.todo[j])
    BY <1>2
  <1>5. ASSUME NEW k \in 1..Depth', NEW j \in 1..Len(frames'[k].todo)
        PROVE  /\ k \in 1..Depth /\ j \in Nat \ {0} /\ Before(k, j) \in 1..Len(frames[k].todo)
               /\ frames[k].todo[Before(k, j)] = frames'[k].todo[j]
    <2>1. j \in Nat \ {0}
      OBVIOUS
    <2>2. CASE k \in 1..Depth /\ k # Depth /\ frames'[k] = frames[k] /\ j \in 1..Len(frames[k].todo)
      BY <2>1, <2>2 DEF Before
    <2>3. CASE k = Depth /\ k \in 1..Depth /\ j \in 1..Len(f.todo) /\ frames'[k].todo = f.todo
      BY <1>0, <1>3, <2>1, <2>3 DEF Before
    <2> QED
      BY <1>0, <2>2, <2>3, CallsAfter
  <1> QED
    BY <1>0, <1>2, <1>3, <1>4, <1>5

\* The lists.
LEMMA ServedEntries ==
  ASSUME Structure, NEW op, NEW f, Serves(op, f), NEW d \in Ids, NEW i \in Lists
  PROVE  /\ Len(lists[d][i].list) \in Nat /\ Len(lists'[d][i].list) \in Nat
         /\ Len(lists'[d][i].list) >= Len(lists[d][i].list)
         /\ \A p \in 1..Len(lists[d][i].list) : lists'[d][i].list[p] = lists[d][i].list[p]
         /\ \A p \in 1..Len(lists'[d][i].list) :
               \/ p \in 1..Len(lists[d][i].list)
               \/ /\ p = Len(lists[d][i].list) + 1 /\ op.op = "add" /\ d = op.d /\ i = op.i
                  /\ lists'[d][i].list[p] = op.entry
         /\ op.op = "add" /\ d = op.d /\ i = op.i /\ ~lists[d][i].disabled =>
               /\ Len(lists'[d][i].list) = Len(lists[d][i].list) + 1
               /\ lists'[d][i].list[Len(lists[d][i].list) + 1] = op.entry
  <1>1. lists[d][i].list \in Seq(Item) /\ Len(lists[d][i].list) \in Nat
    BY ListIs DEF Structure
  <1>2. CASE d # op.d \/ i # op.i
    <2>1. lists'[d][i] = lists[d][i]
      BY <1>2 DEF Serves, Stored
    <2> QED
      BY <1>1, <1>2, <2>1
  <1>3. CASE d = op.d /\ i = op.i
    <2>1. Grows(lists[d][i], lists'[d][i], i, op)
      BY <1>3 DEF Serves, Stored
    <2>2. \/ lists'[d][i].list = lists[d][i].list
          \/ lists'[d][i].list = Append(lists[d][i].list, op.entry) /\ op.op = "add" /\ op.entry \in Item
      BY <2>1 DEF Grows
    <2>3. op.op = "add" /\ ~lists[d][i].disabled => lists'[d][i].list = Append(lists[d][i].list, op.entry)
      BY <2>1 DEF Grows
    <2>4. ASSUME lists'[d][i].list = Append(lists[d][i].list, op.entry), op.op = "add", op.entry \in Item
          PROVE  /\ Len(lists'[d][i].list) = Len(lists[d][i].list) + 1
                 /\ lists'[d][i].list[Len(lists[d][i].list) + 1] = op.entry
                 /\ \A p \in 1..Len(lists[d][i].list) : lists'[d][i].list[p] = lists[d][i].list[p]
      BY <1>1, <2>4, SMTT(30)
    <2>5. CASE lists'[d][i].list = lists[d][i].list /\ ~(op.op = "add" /\ ~lists[d][i].disabled)
      BY <1>1, <2>5
    <2>6. CASE lists'[d][i].list = Append(lists[d][i].list, op.entry) /\ op.op = "add"
      <3>1. op.entry \in Item
        BY <2>6 DEF Serves, Adding
      <3>2. /\ Len(lists'[d][i].list) = Len(lists[d][i].list) + 1
            /\ lists'[d][i].list[Len(lists[d][i].list) + 1] = op.entry
            /\ \A p \in 1..Len(lists[d][i].list) : lists'[d][i].list[p] = lists[d][i].list[p]
        BY <2>4, <2>6, <3>1
      <3> QED
        <4>0. PICK n \in Nat : n = Len(lists[d][i].list)
          BY <1>1
        <4>1. \A p \in 1..Len(lists'[d][i].list) : p \in 1..Len(lists[d][i].list) \/ p = Len(lists[d][i].list) + 1
          <5>1. \A p \in 1..n + 1 : p \in 1..n \/ p = n + 1
            OBVIOUS
          <5> QED
            BY <3>2, <4>0, <5>1, Zenon
        <4>2. Len(lists'[d][i].list) \in Nat /\ Len(lists'[d][i].list) >= Len(lists[d][i].list)
          BY <1>1, <3>2, SMTT(30)
        <4> QED
          BY <1>1, <1>3, <2>6, <3>2, <4>1, <4>2
    <2> QED
      BY <2>2, <2>3, <2>5, <2>6
  <1> QED
    BY <1>2, <1>3

LEMMA ServedRounds ==
  ASSUME Structure, NEW op, NEW f, Serves(op, f), NEW d \in Ids, NEW i \in Lists
  PROVE  /\ lists[d][i].firing => lists'[d][i].firing /\ lists'[d][i].at = lists[d][i].at
         /\ lists'[d][i].disabled <=> lists[d][i].disabled
         /\ Starts(d, i) => d = op.d /\ i = op.i
         /\ i \in Sides =>
               /\ lists[d][i].fired => lists'[d][i].fired
               /\ Starts(d, i) => lists'[d][i].at = 1
               /\ lists'[d][i].fired /\ ~lists[d][i].fired =>
                     /\ d = op.d /\ i = op.i /\ op.op # "add" /\ Starts(d, i)
                     /\ lists'[d][i].at = 1 /\ Begins(lists[d][i])'
  <1>1. CASE d # op.d \/ i # op.i
    <2>1. lists'[d][i] = lists[d][i]
      BY <1>1 DEF Serves, Stored
    <2> QED
      BY <2>1 DEF Starts
  <1>2. CASE d = op.d /\ i = op.i
    <2>1. Grows(lists[d][i], lists'[d][i], i, op)
      BY <1>2 DEF Serves, Stored
    <2>2. /\ lists[d][i].firing => lists'[d][i].firing /\ lists'[d][i].at = lists[d][i].at
          /\ lists'[d][i].disabled <=> lists[d][i].disabled
          /\ i \in Sides =>
               /\ lists[d][i].fired => lists'[d][i].fired
               /\ ~lists[d][i].firing /\ lists'[d][i].firing => lists'[d][i].at = 1
               /\ lists'[d][i].fired /\ ~lists[d][i].fired =>
                     ~lists[d][i].disabled /\ ~lists[d][i].firing /\ lists'[d][i].firing /\ lists'[d][i].list = lists[d][i].list
      BY <2>1, Zenon DEF Grows
    <2>3. ASSUME i \in Sides, lists'[d][i].fired, ~lists[d][i].fired
          PROVE  op.op # "add" /\ Begins(lists[d][i])'
      <3>1. ~lists[d][i].disabled /\ lists'[d][i].list = lists[d][i].list
        BY <2>2, <2>3
      <3>2. op.op # "add"
        <4>1. ASSUME op.op = "add"
              PROVE  Len(lists'[d][i].list) = Len(lists[d][i].list) + 1
          <5>1. op.op = "add" /\ d = op.d /\ i = op.i /\ ~lists[d][i].disabled
            BY <1>2, <3>1, <4>1
          <5> HIDE <1>2, <3>1
          <5> QED
            BY <5>1, ServedEntries, ZenonT(30)
        <4>2. Len(lists[d][i].list) \in Nat
          BY ServedEntries
        <4> QED
          BY <3>1, <4>1, <4>2
      <3>3. Begins(lists[d][i])
        BY <2>3, <3>1 DEF Structure, OneSide
      <3> QED
        BY <3>1, <3>2, <3>3 DEF Begins
    <2> QED
      BY <1>2, <2>2, <2>3 DEF Starts
  <1> QED
    BY <1>1, <1>2

LEMMA ServedGrows ==
  ASSUME Structure, NEW op, NEW f, Serves(op, f)
  PROVE  Grown /\ Made' = Made
  <1>1. \A d \in Ids, i \in Sides : lists[d][i].fired => lists'[d][i].fired
    <2>1. \A i \in Sides : i \in Lists
      BY DEF Sides, Lists
    <2> QED
      BY <2>1, ServedRounds
  <1>2. made' = made /\ adopted' = adopted /\ passed' = passed
    BY DEF Serves
  <1> QED
    BY <1>1, <1>2 DEF Grown, Made

LEMMA ServedListed ==
  ASSUME Structure, NEW op, NEW f, Serves(op, f), NEW d \in Ids, NEW i \in Lists, NEW e, Listed(d, i, e)'
  PROVE  Listed(d, i, e) \/ (op.op = "add" /\ d = op.d /\ i = op.i /\ e = op.entry)
  <1>1. PICK p \in 1..Len(lists'[d][i].list) : lists'[d][i].list[p] = e
    BY DEF Listed
  <1>2. CASE p \in 1..Len(lists[d][i].list)
    <2>1. lists[d][i].list[p] = e
      BY <1>1, <1>2, ServedEntries
    <2> QED
      BY <1>2, <2>1 DEF Listed
  <1>3. CASE op.op = "add" /\ d = op.d /\ i = op.i /\ lists'[d][i].list[p] = op.entry
    BY <1>1, <1>3
  <1> QED
    BY <1>2, <1>3, ServedEntries

\* A call made is just.
LEMMA ServedJustified ==
  ASSUME Structure, CallsRight, NEW op, NEW f, Serves(op, f)
  PROVE  /\ Justified(op) /\ Owing(op)
         /\ \A j \in 1..Len(f.todo) : Owing(f.todo[j])
  <1>1. /\ Depth \in 1..Depth /\ Top = frames[Depth] /\ 1 \in 1..Len(Top.todo) /\ Top.todo[1] = op
        /\ \A j \in 1..Len(f.todo) : j + 1 \in 1..Len(Top.todo) /\ Top.todo[j + 1] = f.todo[j]
    BY ServedCalls, ServedFrames
  <1>2. \A j \in 1..Len(Top.todo) : Owing(Top.todo[j])
    BY <1>1 DEF Owing, Makes
  <1>3. Owing(op)
    BY <1>1, <1>2
  <1>4. op \in Adding \cup Firing
    BY DEF Serves
  <1> QED
    BY <1>1, <1>2, <1>3, <1>4 DEF CallsRight

\* A call that counts counts the entry it is made from.
Counting(op, f) ==
    /\ Depth > 1 /\ ~Top.user /\ Top.i = 1 /\ Top.d \in Ids /\ f.todo = <<>> /\ op \in Firing
    /\ List = lists[Top.d][1] /\ List.at \in 1..Len(List.list) /\ op.entry = List.list[List.at]
    /\ List.firing /\ List.fired
    /\ op.entry \in Item /\ op.entry.fn = "count" /\ op.entry.to = op.d /\ op.entry.i = 1
    /\ op.d \in Made /\ op.d \in Ids /\ made[op.d].kind = "when"
    /\ op.entry.n \in 1..2 /\ op.entry.n \notin arrived[op.d] /\ made[op.d].of[op.entry.n] = Top.d /\ Top.d # Page
    /\ arrived'[op.d] = arrived[op.d] \cup {op.entry.n} /\ \A m \in Ids : m # op.d => arrived'[m] = arrived[m]
    /\ remaining'[op.d] = remaining[op.d] - 1 /\ \A m \in Ids : m # op.d => remaining'[m] = remaining[m]

LEMMA CountingIs ==
  ASSUME Structure, Justice, Tokens, NEW op, NEW f, Serves(op, f), op.op = "count"
  PROVE  Counting(op, f)
  <1>1. /\ Depth \in 1..Depth /\ Top = frames[Depth] /\ 1 \in 1..Len(Top.todo) /\ Top.todo[1] = op
        /\ op \in Firing /\ Depth \in Nat \ {0} /\ Top.in
    BY ServedCalls, ServedFrames DEF Serves
  <1>2. Makes(Depth, op)
    BY <1>1 DEF Makes
  <1>3. Len(Top.todo) = 1 /\ Counted(Depth, op)
    BY <1>1, <1>2 DEF Tokens, CountsRight
  <1>4. /\ Depth > 1 /\ Top.i = 1 /\ ~Top.user
        /\ op.entry.fn = "count" /\ op.entry.to = op.d /\ op.entry.n \notin arrived[op.d]
        /\ op.entry = lists[Top.d][1].list[lists[Top.d][1].at]
    BY <1>1, <1>3 DEF Counted
  <1>5. op.entry = List.list[List.at]
    BY <1>4 DEF List
  <1>6. /\ Top.d \in Ids /\ List = lists[Top.d][1] /\ op.entry \in Item
        /\ List.at \in 1..Len(List.list) /\ Owns(op.entry, Top.d, 1) /\ lists[Top.d][1].fired /\ Top.d # Page
    BY <1>1, <1>4, <1>5, CalledIs DEF Justice, Sides
  <1>7. List.firing
    BY <1>1, <1>4, RunningIs
  <1>8. /\ op.entry.i = 1 /\ op.d \in Made /\ made[op.d].kind = "when" /\ op.entry.n \in 1..2
        /\ made[op.d].of[op.entry.n] = Top.d
    BY <1>4, <1>6 DEF Owns
  <1>9. op.d \in Ids /\ arrived \in [Ids -> SUBSET (1..2)] /\ remaining = [m \in Ids |-> remaining[m]]
    BY DEF Justice, BooksRight, Serves
  <1>10. arrived' = [arrived EXCEPT ![op.d] = @ \cup {op.entry.n}] /\ remaining' = [remaining EXCEPT ![op.d] = @ - 1]
    BY DEF Serves
  <1>11. arrived'[op.d] = arrived[op.d] \cup {op.entry.n} /\ \A m \in Ids : m # op.d => arrived'[m] = arrived[m]
    BY <1>9, <1>10
  <1>12. remaining'[op.d] = remaining[op.d] - 1 /\ \A m \in Ids : m # op.d => remaining'[m] = remaining[m]
    BY <1>9, <1>10
  <1>13. f.todo = <<>>
    <2>1. Top.todo \in Seq(Adding \cup Firing) /\ f.todo = Tail(Top.todo)
      BY CallIs, <1>1 DEF Structure, Serves
    <2> QED
      <3>1. PICK s \in Seq(Adding \cup Firing) : s = Top.todo
        BY <2>1
      <3>2. Tail(s) \in Seq(Adding \cup Firing) /\ Len(Tail(s)) = 0
        <4>1. s # <<>> /\ Len(s) = 1
          BY <1>3, <3>1 DEF Serves
        <4> HIDE <1>3, <3>1
        <4> QED
          BY <4>1, HeadTailProperties
      <3>3. Tail(s) = <<>>
        BY <3>2, EmptySeq
      <3> QED
        BY <2>1, <3>1, <3>3
  <1> QED
    BY <1>1, <1>4, <1>5, <1>6, <1>7, <1>8, <1>9, <1>11, <1>12, <1>13 DEF Counting

\* What has arrived: what had, and what the call counts.
LEMMA ArrivesIs ==
  ASSUME Structure, Justice, Tokens, NEW op, NEW f, Serves(op, f), NEW m \in Ids, NEW n, n \in arrived'[m]
  PROVE  n \in arrived[m] \/ (op.op = "count" /\ m = op.d /\ n = op.entry.n)
  <1>1. CASE op.op # "count"
    BY <1>1 DEF Serves
  <1>2. CASE op.op = "count"
    <2>1. arrived'[op.d] = arrived[op.d] \cup {op.entry.n} /\ \A k \in Ids : k # op.d => arrived'[k] = arrived[k]
      BY <1>2, CountingIs DEF Counting
    <2> QED
      BY <1>2, <2>1
  <1> QED
    BY <1>1, <1>2

\* The entry that counts an argument is like no other.
LEMMA SameEntry ==
  ASSUME NEW a \in Item, NEW b \in Item, a.fn = b.fn, a.n = b.n, a.to = b.to, a.i = b.i
  PROVE  a = b
  BY DEF Item

LEMMA CountedIs ==
  ASSUME Structure, Justice, Tokens, NEW op, NEW f, Serves(op, f), op.op = "count",
         NEW e \in Item, NEW d, NEW i, Owns(e, d, i), e.fn = "count", e.to = op.d, e.n = op.entry.n
  PROVE  e = op.entry /\ d = Top.d /\ i = 1
  <1>1. /\ op.entry \in Item /\ op.entry.fn = "count" /\ op.entry.to = op.d /\ op.entry.i = 1
        /\ made[op.d].of[op.entry.n] = Top.d
    BY CountingIs DEF Counting
  <1>2. e.i = i /\ i = 1 /\ made[e.to].of[e.n] = d
    BY DEF Owns
  <1> QED
    BY <1>1, <1>2, SameEntry

\* A call that adds, before it is made.
LEMMA PendingIs ==
  ASSUME Structure, Justice, NEW op \in Adding, NEW k \in 1..Depth, NEW j \in 1..Len(frames[k].todo), frames[k].todo[j] = op
  PROVE  Owns(op.entry, op.d, op.i) /\ op.entry \in Item /\ op.d \in Ids /\ op.i \in Lists
  <1>1. Owing(op) /\ op.op = "add" /\ op.entry \in Item /\ op.d \in Ids /\ op.i \in Lists
    BY DEF Owing, Makes, Adding
  <1> QED
    BY <1>1 DEF Justice, CallsRight, Justified

LEMMA ServingCounts1 ==
  ASSUME Structure, Justice, Tokens, NEW op, NEW f, Serves(op, f)
  PROVE  CountsRight'
  <1> SUFFICES ASSUME NEW k \in 1..Depth', NEW o \in Firing, Makes(k, o)', o.op = "count"
               PROVE  Len(frames'[k].todo) = 1 /\ Counted(k, o)'
    BY DEF CountsRight
  <1>1. PICK j \in 1..Len(frames'[k].todo) : frames'[k].todo[j] = o
    BY DEF Makes
  <1>2. /\ Depth \in Nat \ {0} /\ Top = frames[Depth] /\ k \in 1..Depth /\ j \in Nat \ {0}
        /\ Before(k, j) \in 1..Len(frames[k].todo) /\ frames[k].todo[Before(k, j)] = o
    BY <1>1, ServedFrames, ServedCalls
  <1>3. Makes(k, o)
    BY <1>2 DEF Makes
  <1>4. Len(frames[k].todo) = 1 /\ Counted(k, o)
    BY <1>2, <1>3 DEF Tokens, CountsRight
  <1>5. k # Depth
    <2>1. k = Depth => Before(k, j) = j + 1 /\ Before(k, j) \in 1..1
      BY <1>2, <1>4 DEF Before
    <2> QED
      BY <1>2, <2>1
  <1>6. frames'[k] = frames[k]
    BY <1>2, <1>5, ServedFrames
  <1>7. /\ k # 1 /\ frames[k].in /\ ~frames[k].user /\ frames[k].i = 1
        /\ o.entry = lists[frames[k].d][1].list[lists[frames[k].d][1].at]
        /\ o.entry.fn = "count" /\ o.entry.to = o.d /\ o.entry.n \notin arrived[o.d]
    BY <1>4 DEF Counted
  <1>8. k \in 2..Depth
    BY <1>2, <1>7
  <1>9. PICK d \in Ids : d = frames[k].d
    BY <1>8 DEF Structure, FramesOK
  <1>10. lists[d][1].firing /\ lists[d][1].at <= Len(lists[d][1].list) /\ 1 \in Lists
    <2>1. /\ lists[frames[k].d][frames[k].i].firing
          /\ frames[k].in => lists[frames[k].d][frames[k].i].at <= Len(lists[frames[k].d][frames[k].i].list)
      BY <1>8 DEF Structure, FramesOK
    <2>2. 1 \in Lists
      BY DEF Lists
    <2> QED
      BY <1>7, <1>9, <2>1, <2>2
  <1>11. lists[d][1].at \in 1..Len(lists[d][1].list)
    BY <1>10, ListIs DEF Structure
  <1>12. lists'[d][1].at = lists[d][1].at
    BY <1>10, ServedRounds
  <1>13. lists'[d][1].list[lists[d][1].at] = lists[d][1].list[lists[d][1].at]
    <2>1. \A p \in 1..Len(lists[d][1].list) : lists'[d][1].list[p] = lists[d][1].list[p]
      BY <1>10, ServedEntries
    <2> QED
      BY <1>11, <2>1
  <1>14. o.entry.n \notin arrived'[o.d]
    <2>1. o.d \in Ids
      BY DEF Firing
    <2>2. ASSUME op.op = "count", o.d = op.d, o.entry.n = op.entry.n
          PROVE  FALSE
      <3>1. Listed(d, 1, o.entry)
        BY <1>7, <1>9, <1>11 DEF Listed
      <3>2. o.entry \in Item
        BY <1>7, <1>9, <1>10, <1>11, EntryIs DEF Structure
      <3>3. Owns(o.entry, d, 1)
        BY <1>10, <3>1, <3>2 DEF Justice, EntriesRight
      <3>4. d = Top.d
        BY <1>7, <2>2, <3>2, <3>3, CountedIs
      <3>5. Top.i = 1 /\ Depth > 1
        BY <2>2, CountingIs DEF Counting
      <3>6. Depth \in 2..Depth
        BY <1>2, <3>5
      <3> QED
        BY <1>2, <1>5, <1>7, <1>8, <1>9, <3>4, <3>5, <3>6 DEF Structure, FramesOK
    <2> QED
      BY <1>7, <2>1, <2>2, ArrivesIs
  <1> QED
    BY <1>4, <1>6, <1>7, <1>9, <1>12, <1>13, <1>14 DEF Counted

LEMMA ServingCounts2 ==
  ASSUME Structure, Justice, Tokens, NEW op, NEW f, Serves(op, f)
  PROVE  SentOnce'
  <1> SUFFICES ASSUME NEW o \in Adding, NEW k \in 1..Depth', NEW j \in 1..Len(frames'[k].todo),
                      frames'[k].todo[j] = o, o.entry.fn = "count"
               PROVE  /\ o.entry.n \notin arrived'[o.entry.to] /\ ~Listed(o.d, o.i, o.entry)'
                      /\ \A p \in Adding, h \in 1..Depth' : \A i \in 1..Len(frames'[h].todo) :
                            frames'[h].todo[i] = p /\ p.entry = o.entry => h = k /\ i = j
    BY DEF SentOnce
  <1>1. /\ Depth \in 1..Depth /\ Depth \in Nat \ {0} /\ Top = frames[Depth]
        /\ 1 \in 1..Len(frames[Depth].todo) /\ frames[Depth].todo[1] = op
        /\ k \in 1..Depth /\ j \in Nat \ {0} /\ Before(k, j) \in 1..Len(frames[k].todo)
        /\ frames[k].todo[Before(k, j)] = o
    BY ServedFrames, ServedCalls
  <1>2. /\ o.entry.n \notin arrived[o.entry.to] /\ ~Listed(o.d, o.i, o.entry)
        /\ \A p \in Adding, h \in 1..Depth : \A i \in 1..Len(frames[h].todo) :
              frames[h].todo[i] = p /\ p.entry = o.entry => h = k /\ i = Before(k, j)
    BY <1>1 DEF Tokens, SentOnce
  <1>3. Owns(o.entry, o.d, o.i) /\ o.entry \in Item /\ o.d \in Ids /\ o.i \in Lists
    BY <1>1, PendingIs
  <1>4. o.entry.n \notin arrived'[o.entry.to]
    <2>1. o.entry.to \in Ids
      BY <1>3 DEF Item
    <2>2. ASSUME op.op = "count", o.entry.to = op.d, o.entry.n = op.entry.n
          PROVE  FALSE
      <3>1. o.entry = op.entry /\ o.d = Top.d /\ o.i = 1
        BY <1>3, <2>2, CountedIs
      <3>2. List = lists[Top.d][1] /\ List.at \in 1..Len(List.list) /\ op.entry = List.list[List.at]
        BY <2>2, CountingIs DEF Counting
      <3> QED
        BY <1>2, <3>1, <3>2 DEF Listed
    <2> QED
      BY <1>2, <2>1, <2>2, ArrivesIs
  <1>5. ~Listed(o.d, o.i, o.entry)'
    <2>1. ASSUME op.op = "add", op.entry = o.entry
          PROVE  FALSE
      <3>1. op \in Adding
        BY <2>1 DEF Serves
      <3>2. Depth = k /\ 1 = Before(k, j)
        BY <1>1, <1>2, <2>1, <3>1
      <3> QED
        BY <1>1, <3>2 DEF Before
    <2> QED
      BY <1>2, <1>3, <2>1, ServedListed
  <1>6. ASSUME NEW p \in Adding, NEW h \in 1..Depth', NEW i \in 1..Len(frames'[h].todo),
               frames'[h].todo[i] = p, p.entry = o.entry
        PROVE  h = k /\ i = j
    <2>1. h \in 1..Depth /\ i \in Nat \ {0} /\ Before(h, i) \in 1..Len(frames[h].todo) /\ frames[h].todo[Before(h, i)] = p
      BY <1>6, ServedCalls
    <2>2. h = k /\ Before(h, i) = Before(k, j)
      BY <1>2, <1>6, <2>1
    <2> QED
      BY <1>1, <2>1, <2>2 DEF Before
  <1> QED
    BY <1>4, <1>5, <1>6

LEMMA ServingCounts3 ==
  ASSUME Structure, Justice, Tokens, NEW op, NEW f, Serves(op, f)
  PROVE  ListedOnce'
  <1> SUFFICES ASSUME NEW d \in Ids, NEW p \in 1..Len(lists'[d][1].list), NEW q \in 1..Len(lists'[d][1].list),
                      lists'[d][1].list[p].fn = "count", lists'[d][1].list[p] = lists'[d][1].list[q]
               PROVE  p = q
    BY DEF ListedOnce
  <1>1. 1 \in Lists
    BY DEF Lists
  <1>2. ASSUME op.op = "add", d = op.d, 1 = op.i, op.entry.fn = "count", NEW h \in 1..Len(lists[d][1].list)
        PROVE  lists[d][1].list[h] # op.entry
    <2>1. op \in Adding
      BY <1>2 DEF Serves
    <2>2. Depth \in 1..Depth /\ 1 \in 1..Len(frames[Depth].todo) /\ frames[Depth].todo[1] = op
      BY ServedCalls
    <2>3. ~Listed(d, 1, op.entry)
      BY <1>2, <2>1, <2>2 DEF Tokens, SentOnce
    <2> QED
      BY <2>3 DEF Listed
  <1>3. \A h \in 1..Len(lists[d][1].list) : lists'[d][1].list[h] = lists[d][1].list[h]
    BY <1>1, ServedEntries
  <1>4. CASE p \in 1..Len(lists[d][1].list) /\ q \in 1..Len(lists[d][1].list)
    BY <1>3, <1>4 DEF Tokens, ListedOnce
  <1>5. \/ p \in 1..Len(lists[d][1].list)
        \/ p = Len(lists[d][1].list) + 1 /\ op.op = "add" /\ d = op.d /\ 1 = op.i /\ lists'[d][1].list[p] = op.entry
    BY <1>1, ServedEntries
  <1>6. \/ q \in 1..Len(lists[d][1].list)
        \/ q = Len(lists[d][1].list) + 1 /\ op.op = "add" /\ d = op.d /\ 1 = op.i /\ lists'[d][1].list[q] = op.entry
    BY <1>1, ServedEntries
  <1> QED
    BY <1>2, <1>3, <1>4, <1>5, <1>6

LEMMA ServingCounts4 ==
  ASSUME Structure, Justice, Tokens, NEW op, NEW f, Serves(op, f)
  PROVE  ArrivedOnce'
  <1> SUFFICES ASSUME NEW d \in Ids, NEW p \in 1..Len(lists'[d][1].list), NEW e, e = lists'[d][1].list[p],
                      e.fn = "count", e.n \in arrived'[e.to]
               PROVE  lists'[d][1].firing /\ \A k \in 2..Depth' : CalledIn(k, d, p)'
    BY DEF ArrivedOnce
  <1>0. 1 \in Lists /\ ListsOK /\ Depth \in Nat \ {0} /\ Top = frames[Depth]
    BY ServedFrames DEF Lists, Structure
  <1>1. p \in 1..Len(lists[d][1].list) /\ e = lists[d][1].list[p]
    <2>1. CASE p \in 1..Len(lists[d][1].list)
      BY <1>0, <2>1, ServedEntries
    <2>2. CASE op.op = "add" /\ lists'[d][1].list[p] = op.entry
      <3>1. op \in Adding /\ arrived' = arrived
        BY <2>2 DEF Serves
      <3>2. Depth \in 1..Depth /\ 1 \in 1..Len(frames[Depth].todo) /\ frames[Depth].todo[1] = op
        BY ServedCalls
      <3>3. op.entry.n \notin arrived[op.entry.to]
        BY <2>2, <3>1, <3>2 DEF Tokens, SentOnce
      <3> QED
        BY <2>2, <3>1, <3>3
    <2> QED
      BY <1>0, <2>1, <2>2, ServedEntries
  <1>2. e \in Item /\ Listed(d, 1, e) /\ e.to \in Ids
    BY <1>0, <1>1, EntryIs DEF Listed, Item
  <1>3. Owns(e, d, 1)
    BY <1>0, <1>2 DEF Justice, EntriesRight
  <1>4. lists[d][1].firing => /\ lists'[d][1].firing /\ lists'[d][1].at = lists[d][1].at
                              /\ ~(Starts(op.d, op.i) /\ op.d = d /\ op.i = 1)
    BY <1>0, ServedRounds DEF Starts
  <1>5. ASSUME NEW k \in 2..Depth', lists[d][1].firing, k \in 2..Depth => CalledIn(k, d, p)
        PROVE  CalledIn(k, d, p)'
    <2>1. k \in 1..Depth'
      BY <1>0, ServedFrames
    <2>2. CASE k \in 1..Depth
      <3>1. k \in 2..Depth
        BY <1>0, <2>2
      <3>2. /\ frames'[k].d = frames[k].d /\ frames'[k].i = frames[k].i
            /\ frames'[k].in = frames[k].in /\ frames'[k].user = frames[k].user
        BY <2>2, ServedFrames
      <3> QED
        BY <1>4, <1>5, <3>1, <3>2 DEF CalledIn
    <2>3. CASE Starts(op.d, op.i) /\ frames'[k] = Round(op.d, op.i)
      <3>1. frames'[k].d = op.d /\ frames'[k].i = op.i
        BY <2>3, RoundIs DEF Serves
      <3> QED
        BY <1>4, <1>5, <2>3, <3>1 DEF CalledIn
    <2> QED
      BY <2>1, <2>2, <2>3, ServedFrames
  <1>6. CASE e.n \in arrived[e.to]
    <2>1. lists[d][1].firing /\ \A k \in 2..Depth : CalledIn(k, d, p)
      BY <1>1, <1>6 DEF Tokens, ArrivedOnce
    <2> QED
      BY <1>4, <1>5, <2>1
  <1>7. CASE op.op = "count" /\ e.to = op.d /\ e.n = op.entry.n
    <2>1. e = op.entry /\ d = Top.d
      BY <1>2, <1>3, <1>7, CountedIs
    <2>2. /\ Depth > 1 /\ ~Top.user /\ Top.i = 1 /\ List = lists[d][1] /\ List.at \in 1..Len(List.list)
          /\ op.entry = List.list[List.at] /\ List.firing /\ Top.in
      BY <1>7, <2>1, CountingIs DEF Counting, Serves
    <2>3. p = List.at
      BY <1>1, <2>1, <2>2 DEF Tokens, ListedOnce
    <2>4. ASSUME NEW k \in 2..Depth
          PROVE  CalledIn(k, d, p)
      <3>1. Depth \in 2..Depth
        BY <1>0, <2>2
      <3>2. frames[k].d = d /\ frames[k].i = 1 => k = Depth
        BY <1>0, <2>1, <2>2, <3>1 DEF Structure, FramesOK
      <3> QED
        BY <1>0, <2>2, <2>3, <3>2 DEF CalledIn
    <2> QED
      BY <1>4, <1>5, <2>2, <2>4
  <1> QED
    BY <1>2, <1>6, <1>7, ArrivesIs

LEMMA ServingCounts5 ==
  ASSUME Structure, Justice, Tokens, NEW op, NEW f, Serves(op, f)
  PROVE  CountRight'
  <1>0. Grown /\ Made' = Made /\ made' = made /\ Made \subseteq Ids /\ arrived \in [Ids -> SUBSET (1..2)]
    BY ServedGrows DEF Serves, Justice, BooksRight
  <1> SUFFICES ASSUME NEW m \in Made, made[m].kind = "when"
               PROVE  /\ remaining'[m] = Left(m, 1)' + Left(m, 2)'
                      /\ \A k \in arrived'[m] : made[m].of[k] # Page /\ lists'[made[m].of[k]][1].fired
    BY <1>0 DEF CountRight
  <1>1. m \in Ids /\ arrived[m] \subseteq 1..2 /\ 1 \in Sides /\ \A k \in 1..2 : made[m].of[k] \in Made \cup {Page}
    BY <1>0 DEF Justice, BooksRight, Sides
  <1>2. /\ remaining[m] = Left(m, 1) + Left(m, 2)
        /\ \A k \in arrived[m] : made[m].of[k] # Page /\ lists[made[m].of[k]][1].fired
    BY DEF Tokens, CountRight
  <1>3. ASSUME NEW k \in arrived[m]
        PROVE  made[m].of[k] # Page /\ lists'[made[m].of[k]][1].fired
    <2>1. made[m].of[k] \in Ids /\ made[m].of[k] # Page /\ lists[made[m].of[k]][1].fired
      BY <1>0, <1>1, <1>2
    <2> QED
      BY <1>0, <1>1, <2>1 DEF Grown
  <1>4. CASE ~(op.op = "count" /\ m = op.d)
    <2>1. remaining'[m] = remaining[m] /\ arrived'[m] = arrived[m]
      <3>1. CASE op.op # "count"
        BY <3>1 DEF Serves
      <3>2. CASE op.op = "count"
        BY <1>1, <1>4, <3>2, CountingIs DEF Counting
      <3> QED
        BY <3>1, <3>2
    <2>2. Left(m, 1)' = Left(m, 1) /\ Left(m, 2)' = Left(m, 2)
      BY <1>0, <2>1 DEF Left
    <2> QED
      BY <1>2, <1>3, <2>1, <2>2
  <1>5. CASE op.op = "count" /\ m = op.d
    <2>1. PICK n \in 1..2 : n = op.entry.n
      BY <1>5, CountingIs DEF Counting
    <2>2. /\ n \notin arrived[m] /\ made[m].of[n] = Top.d /\ Top.d # Page /\ Top.d \in Ids /\ lists[Top.d][1].fired
          /\ arrived'[m] = arrived[m] \cup {n} /\ remaining'[m] = remaining[m] - 1
      BY <1>5, <2>1, CountingIs DEF Counting
    <2>3. Left(m, n) = 1 /\ Left(m, n)' = 0
      BY <1>0, <2>2 DEF Left
    <2>4. \A k \in 1..2 : k # n => Left(m, k)' = Left(m, k)
      BY <1>0, <2>2 DEF Left
    <2>5. Left(m, 1) \in {0, 1} /\ Left(m, 2) \in {0, 1}
      BY DEF Left
    <2>6. remaining'[m] = Left(m, 1)' + Left(m, 2)'
      <3>1. CASE n = 1
        BY <1>2, <2>2, <2>3, <2>4, <2>5, <3>1
      <3>2. CASE n = 2
        BY <1>2, <2>2, <2>3, <2>4, <2>5, <3>2
      <3> QED
        BY <3>1, <3>2
    <2>7. made[m].of[n] # Page /\ lists'[made[m].of[n]][1].fired
      BY <1>0, <1>1, <2>2 DEF Grown
    <2> QED
      BY <1>3, <2>2, <2>6, <2>7
  <1> QED
    BY <1>4, <1>5

LEMMA ServingCounts ==
  ASSUME Structure, Justice, Tokens, NEW op, NEW f, Serves(op, f)
  PROVE  Tokens'
  BY ServingCounts1, ServingCounts2, ServingCounts3, ServingCounts4, ServingCounts5 DEF Tokens

LEMMA ServingState ==
  ASSUME Structure, StateRight, NEW op, NEW f, Serves(op, f)
  PROVE  StateRight'
  <1>1. \A d, i : ~Opening(d, i)
    BY NotOpening DEF Serves
  <1>2. state' = state /\ Grown
    BY ServedGrows DEF Serves
  <1>3. ASSUME NEW d \in Ids, ~SomeFired(d)'
        PROVE  state'[d] = "pending"
    BY <1>2, <1>3, FiredStays DEF StateRight
  <1>4. ASSUME NEW d \in Ids, NEW i \in Sides, lists'[d][i].fired
        PROVE  state'[d] = Name(i) \/ Opening(d, i)'
    <2>1. CASE lists[d][i].fired
      BY <1>1, <1>2, <2>1 DEF StateRight
    <2>2. CASE ~lists[d][i].fired
      <3>1. i \in Lists
        BY DEF Sides, Lists
      <3>2. /\ d = op.d /\ i = op.i /\ Starts(d, i)
            /\ lists'[d][i].at = 1 /\ Begins(lists[d][i])'
        BY <1>4, <2>2, <3>1, ServedRounds
      <3>3. Depth' > 1 /\ Top' = Round(d, i)
        BY <3>2, ServedFrames
      <3>4. Top'.d = d /\ Top'.i = i /\ ~Top'.in
        BY <3>1, <3>3, RoundIs
      <3> QED
        BY <3>2, <3>3, <3>4 DEF Opening
    <2> QED
      BY <2>1, <2>2
  <1> QED
    BY <1>3, <1>4 DEF StateRight, Name

LEMMA ServingBooks ==
  ASSUME Structure, Justice, Tokens, NEW op, NEW f, Serves(op, f)
  PROVE  BooksRight'
  <1>1. /\ Made' = Made /\ made' = made /\ state' = state /\ adopted' = adopted /\ passed' = passed
        /\ BooksRight /\ op.d \in Made
    BY ServedGrows, ServedJustified DEF Serves, Justice, Justified
  <1>2. arrived' \in [Ids -> SUBSET (1..2)]
    <2>1. CASE op.op # "count"
      BY <1>1, <2>1 DEF Serves, BooksRight
    <2>2. CASE op.op = "count"
      <3>1. op.entry.n \in 1..2
        BY <2>2, CountingIs DEF Counting
      <3>2. arrived' = [arrived EXCEPT ![op.d] = @ \cup {op.entry.n}] /\ arrived \in [Ids -> SUBSET (1..2)]
        BY <1>1, <2>2 DEF Serves, BooksRight
      <3>3. PICK n \in 1..2 : n = op.entry.n
        BY <3>1
      <3>4. \A s \in SUBSET (1..2) : s \cup {n} \in SUBSET (1..2)
        OBVIOUS
      <3> QED
        BY <3>2, <3>3, <3>4
    <2> QED
      BY <2>1, <2>2
  <1>3. remaining' = [d \in Ids |-> remaining'[d]]
    <2>1. CASE op.op # "count"
      BY <1>1, <2>1 DEF Serves, BooksRight
    <2>2. CASE op.op = "count"
      <3>1. remaining' = [remaining EXCEPT ![op.d] = @ - 1] /\ remaining = [d \in Ids |-> remaining[d]]
        BY <1>1, <2>2 DEF Serves, BooksRight
      <3> QED
        BY <3>1
    <2> QED
      BY <2>1, <2>2
  <1>4. ASSUME NEW d \in Ids \ Made
        PROVE  arrived'[d] = {} /\ adopted'[d] = {} /\ ~SomeFired(d)'
    <2>1. arrived[d] = {} /\ adopted[d] = {} /\ ~SomeFired(d) /\ d # op.d
      BY <1>1 DEF BooksRight
    <2>2. arrived'[d] = {}
      <3>1. CASE op.op # "count"
        BY <2>1, <3>1 DEF Serves
      <3>2. CASE op.op = "count"
        BY <2>1, <3>2, CountingIs DEF Counting
      <3> QED
        BY <3>1, <3>2
    <2>3. \A i \in Lists : lists'[d][i] = lists[d][i]
      BY <2>1 DEF Serves, Stored
    <2>4. ~SomeFired(d)'
      BY <2>1, <2>3 DEF SomeFired, Lists
    <2> QED
      BY <1>1, <2>1, <2>2, <2>4
  <1> QED
    BY <1>1, <1>2, <1>3, <1>4 DEF BooksRight

LEMMA ServingCauses ==
  ASSUME Structure, Justice, Tokens, NEW op, NEW f, Serves(op, f)
  PROVE  CausesRight'
  <1>a. Types /\ BooksRight
    BY DEF Structure, Justice
  <1>b. Grown /\ Made' = Made /\ made' = made /\ Made \subseteq Ids
    BY <1>a, ServedGrows DEF BooksRight, Serves
  <1>c. Tokens' /\ BooksRight'
    BY ServingCounts, ServingBooks
  <1>0. Types /\ BooksRight /\ Grown /\ Made' = Made /\ made' = made /\ Made \subseteq Ids /\ Tokens' /\ BooksRight'
    BY <1>a, <1>b, <1>c
  <1> SUFFICES ASSUME NEW d \in Made, NEW i \in Sides, lists'[d][i].fired
               PROVE  Cause(d, i)'
    BY <1>0 DEF CausesRight
  <1>1. d \in Ids /\ i \in Lists
    BY <1>0 DEF Sides, Lists
  <1>2. CASE lists[d][i].fired
    <2>1. Cause(d, i)
      BY <1>2 DEF Justice, CausesRight
    <2> QED
      BY <1>0, <2>1, CauseStays
  <1>3. CASE ~lists[d][i].fired
    <2>1. d = op.d /\ i = op.i /\ op.op # "add" /\ Starts(d, i)
      BY <1>1, <1>3, ServedRounds
    <2>2. CASE op.op = "fire"
      <3>1. Cause(d, i)
        BY <2>1, <2>2, ServedJustified DEF Justice, Justified
      <3> QED
        BY <1>0, <3>1, CauseStays
    <2>3. CASE op.op = "count"
      <3>1. made[d].kind = "when" /\ i = 1
        BY <2>1, <2>3, CountingIs DEF Counting, Serves
      <3>2. remaining'[d] = 0
        <4>1. lists' # lists
          BY <1>3
        <4> QED
          BY <2>1, <2>3, <4>1 DEF Serves
      <3>3. /\ remaining'[d] = Left(d, 1)' + Left(d, 2)'
            /\ \A k \in arrived'[d] : made[d].of[k] # Page /\ lists'[made[d].of[k]][1].fired
        BY <1>0, <3>1 DEF Tokens, CountRight
      <3>4. Left(d, 1)' \in {0, 1} /\ Left(d, 2)' \in {0, 1}
        BY DEF Left
      <3>5. Left(d, 1)' = 0 /\ Left(d, 2)' = 0
        BY <3>2, <3>3, <3>4
      <3>6. \A k \in 1..2 : made[d].of[k] # Page => k \in arrived'[d]
        BY <1>0, <3>5 DEF Left
      <3>7. \A k \in 1..2 : made[d].of[k] # Page => lists'[made[d].of[k]][1].fired
        BY <3>3, <3>6
      <3> QED
        BY <1>0, <3>1, <3>7 DEF Cause
    <2>4. op.op \in {"add", "fire", "count"}
      BY DEF Serves, Adding, Firing
    <2> QED
      BY <2>1, <2>2, <2>3, <2>4
  <1> QED
    BY <1>2, <1>3

LEMMA ServingJust ==
  ASSUME Structure, Justice, Tokens, NEW op, NEW f, Serves(op, f)
  PROVE  Justice'
  <1>0. Types /\ BooksRight /\ CallsRight /\ StateRight /\ Grown
    BY ServedGrows DEF Structure, Justice
  <1>1. DisabledRight'
    <2> SUFFICES ASSUME NEW d \in Ids, NEW i \in Sides, lists'[d][i].disabled
                 PROVE  lists'[d][3 - i].fired
      BY DEF DisabledRight
    <2>1. i \in Lists /\ 3 - i \in Sides
      BY DEF Sides, Lists
    <2>2. lists[d][i].disabled
      BY <2>1, ServedRounds
    <2> QED
      BY <1>0, <2>1, <2>2 DEF Justice, DisabledRight, Grown
  <1>2. EntriesRight'
    <2> SUFFICES ASSUME NEW d \in Ids, NEW i \in Lists, NEW e \in Item, Listed(d, i, e)'
                 PROVE  Owns(e, d, i)'
      BY DEF EntriesRight
    <2>1. CASE Listed(d, i, e)
      BY <1>0, <2>1, OwnsStays DEF Justice, EntriesRight
    <2>2. CASE op.op = "add" /\ d = op.d /\ i = op.i /\ e = op.entry
      <3>1. Owns(e, d, i)
        BY <1>0, <2>2, ServedJustified DEF Justified
      <3> QED
        BY <1>0, <3>1, OwnsStays
    <2> QED
      BY <2>1, <2>2, ServedListed
  <1>3. CallsRight'
    <2>1. Carries(f.todo)
      BY ServedFrames
    <2>2. \A o : (\E j \in 1..Len(f.todo) : f.todo[j] = o) => Owing(o)
      BY <1>0, ServedJustified
    <2> QED
      BY <1>0, <2>1, <2>2, CallsStayRight
  <1> QED
    BY <1>0, <1>1, <1>2, <1>3, ServingState, ServingBooks, ServingCauses DEF Justice

\* A call is made or still owed.
LEMMA ServedOwed ==
  ASSUME Structure, NEW op, NEW f, Serves(op, f), NEW o, Owing(o), o # op
  PROVE  Owing(o)'
  <1>1. Types /\ Carries(f.todo)
    BY ServedFrames DEF Structure
  <1>2. \A j \in 1..Len(Top.todo) : Top.todo[j] = o => \E i \in 1..Len(f.todo) : f.todo[i] = o
    <2>1. /\ Top.todo[1] = op
          /\ \A j \in 1..Len(Top.todo) : j = 1 \/ (j - 1 \in 1..Len(f.todo) /\ f.todo[j - 1] = Top.todo[j])
      BY ServedCalls, ZenonT(30)
    <2> QED
      BY <2>1
  <1> QED
    BY <1>1, <1>2, OwingStays

\* A list that is fired, or cannot be any more, settles.
LEMMA FiredOrDisabled ==
  ASSUME Structure, DisabledRight, NEW op, NEW f, Serves(op, f), NEW d \in Ids, NEW i \in Sides,
         lists'[d][i].fired \/ lists[d][i].disabled
  PROVE  SomeFired(d)'
  <1>1. i \in {1, 2} /\ 3 - i \in Sides /\ 3 - i \in {1, 2}
    BY DEF Sides
  <1>2. lists'[d][i].fired \/ lists'[d][3 - i].fired
    BY <1>1, ServedGrows DEF Grown, DisabledRight
  <1> QED
    BY <1>1, <1>2 DEF SomeFired

LEMMA ServedPaid ==
  ASSUME Structure, Justice, Tokens, NEW op, NEW f, Serves(op, f)
  PROVE  Paid
  <1>1. ASSUME NEW d \in Ids, NEW i \in Sides, OwesFire(d, i)
        PROVE  SomeFired(d)' \/ OwesFire(d, i)'
    <2>1. PICK v \in Vals : Owing(DoFire(d, i, v))
      BY <1>1 DEF OwesFire
    <2>2. CASE DoFire(d, i, v) # op
      BY <2>1, <2>2, ServedOwed DEF OwesFire
    <2>3. CASE DoFire(d, i, v) = op
      <3>1. op.op = "fire" /\ op.d = d /\ op.i = i
        BY <2>3, FireIs
      <3>2. lists'[d][i].fired \/ lists[d][i].disabled
        BY <3>1 DEF Serves
      <3> QED
        BY <3>2, FiredOrDisabled DEF Justice
    <2> QED
      BY <2>2, <2>3
  <1>2. ASSUME NEW e \in Wires, OwesCount(e)
        PROVE  e.n \in arrived'[e.to] \/ OwesCount(e)'
    <2>1. PICK v \in Vals : Owing(DoCount(e, v))
      BY <1>2 DEF OwesCount
    <2>2. CASE DoCount(e, v) # op
      BY <2>1, <2>2, ServedOwed DEF OwesCount
    <2>3. CASE DoCount(e, v) = op
      <3>1. op.op = "count" /\ op.d = e.to /\ op.entry = e
        BY <2>3, CountIs
      <3> QED
        BY <3>1, CountingIs DEF Counting
    <2> QED
      BY <2>2, <2>3
  <1>3. ASSUME NEW m \in Ids
        PROVE  arrived[m] \subseteq arrived'[m]
    <2>1. CASE op.op # "count"
      BY <2>1 DEF Serves
    <2>2. CASE op.op = "count"
      BY <2>2, CountingIs DEF Counting
    <2> QED
      BY <2>1, <2>2
  <1> QED
    BY <1>1, <1>2, <1>3 DEF Paid

\* Positions, when a list grows and when its round begins.
LEMMA ServedPosition ==
  ASSUME Structure, NEW op, NEW f, Serves(op, f), NEW d \in Ids, NEW i \in Sides
  PROVE  Position(d, i)' = Position(d, i) /\ Position(d, i) \in 1..Len(lists[d][i].list) + 1
  <1>0. i \in Lists /\ Depth \in Nat \ {0}
    BY ServedFrames DEF Sides, Lists
  <1>1. Busy(d, i)' <=> Busy(d, i)
    <2>1. /\ f \in Frames /\ f.d = Top.d /\ f.i = Top.i /\ f.in /\ Top.in /\ f.user = Top.user
          /\ op.d \in Ids /\ op.i \in Lists /\ GoesOn(f, op.d, op.i)
      BY DEF Serves
    <2> QED
      BY <2>1, BusyGoes
  <1>2. CASE lists[d][i].firing
    <2>1. lists'[d][i].firing /\ lists'[d][i].at = lists[d][i].at
      BY <1>0, <1>2, ServedRounds
    <2> QED
      BY <1>0, <1>1, <1>2, <2>1, PositionIs DEF Position
  <1>3. CASE ~lists[d][i].firing
    <2>1. ~Busy(d, i)
      BY <1>0, <1>3, BusyIs
    <2>2. lists'[d][i].firing => lists'[d][i].at = 1
      BY <1>0, <1>3, ServedRounds DEF Starts
    <2>3. Position(d, i)' = 1 /\ Position(d, i) = 1
      BY <1>1, <1>3, <2>1, <2>2 DEF Position
    <2> QED
      BY <1>0, <2>3, PositionIs
  <1> QED
    BY <1>2, <1>3

LEMMA ServedLinked ==
  ASSUME Structure, NEW op, NEW f, Serves(op, f), NEW d \in Ids, NEW e \in Wires, Linked(e, d), ~Handed(e)
  PROVE  Linked(e, d)'
  <1>0. e.i \in Sides /\ e.i \in Lists
    BY WireIs
  <1>1. /\ Len(lists[d][e.i].list) \in Nat /\ Len(lists'[d][e.i].list) \in Nat
        /\ Len(lists'[d][e.i].list) >= Len(lists[d][e.i].list)
        /\ \A p \in 1..Len(lists[d][e.i].list) : lists'[d][e.i].list[p] = lists[d][e.i].list[p]
    BY <1>0, ServedEntries
  <1>2. Position(d, e.i)' = Position(d, e.i) /\ Position(d, e.i) \in 1..Len(lists[d][e.i].list) + 1
    BY <1>0, ServedPosition
  <1>3. CASE lists[d][e.i].disabled
    BY <1>0, <1>3, ServedRounds DEF Linked
  <1>4. CASE Comes(d, e.i, e)
    <2>1. PICK p \in Position(d, e.i)..Len(lists[d][e.i].list) : lists[d][e.i].list[p] = e
      BY <1>4 DEF Comes
    <2>2. p \in 1..Len(lists[d][e.i].list) /\ p \in Position(d, e.i)..Len(lists'[d][e.i].list)
      <3>1. PICK m \in Nat : m = Len(lists[d][e.i].list)
        BY <1>1
      <3>2. PICK n \in Nat : n = Len(lists'[d][e.i].list)
        BY <1>1
      <3>3. PICK q \in 1..m + 1 : q = Position(d, e.i)
        BY <1>2, <3>1
      <3>4. n >= m /\ p \in q..m
        BY <1>1, <2>1, <3>1, <3>2, <3>3
      <3>5. p \in 1..m /\ p \in q..n
        BY <3>4
      <3> QED
        BY <3>1, <3>2, <3>3, <3>5
    <2>3. lists'[d][e.i].list[p] = e
      BY <1>1, <2>1, <2>2
    <2> QED
      BY <1>2, <2>2, <2>3 DEF Comes, Linked
  <1>5. CASE Owing(DoAdd(d, e.i, e)) /\ DoAdd(d, e.i, e) # op
    BY <1>5, ServedOwed DEF Linked
  <1>6. CASE DoAdd(d, e.i, e) = op /\ ~lists[d][e.i].disabled
    <2>1. op.op = "add" /\ op.d = d /\ op.i = e.i /\ op.entry = e
      BY <1>6, AddIs
    <2>2. /\ Len(lists'[d][e.i].list) = Len(lists[d][e.i].list) + 1
          /\ lists'[d][e.i].list[Len(lists[d][e.i].list) + 1] = e
      <3>1. op.op = "add" /\ d = op.d /\ e.i = op.i /\ ~lists[d][e.i].disabled
        BY <1>6, <2>1
      <3>0. PICK i \in Lists : i = e.i
        BY <1>0
      <3>3. /\ Len(lists'[d][i].list) = Len(lists[d][i].list) + 1
            /\ lists'[d][i].list[Len(lists[d][i].list) + 1] = op.entry
        <4>1. d = op.d /\ i = op.i /\ ~lists[d][i].disabled /\ op.op = "add"
          BY <3>0, <3>1
        <4> HIDE <3>0
        <4> QED
          BY <4>1, ServedEntries, ZenonT(30)
      <3>2. /\ Len(lists'[d][e.i].list) = Len(lists[d][e.i].list) + 1
            /\ lists'[d][e.i].list[Len(lists[d][e.i].list) + 1] = op.entry
        BY <3>0, <3>3
      <3> QED
        BY <2>1, <3>2
    <2>3. Len(lists[d][e.i].list) + 1 \in Position(d, e.i)..Len(lists'[d][e.i].list)
      BY <1>1, <1>2, <2>2
    <2> QED
      BY <1>2, <2>2, <2>3 DEF Comes, Linked
  <1> QED
    BY <1>3, <1>4, <1>5, <1>6 DEF Linked

LEMMA ServingKeeps ==
  ASSUME Structure, Justice, Tokens, NothingLost, NEW op, NEW f, Serves(op, f)
  PROVE  NothingLost'
  <1>1. Grown /\ Made' = Made /\ made' = made /\ adopted' = adopted /\ passed' = passed /\ Made \subseteq Ids
    BY ServedGrows DEF Serves, Justice, BooksRight
  <1>2. \A d, e : Owns(e, d, e.i)' => Owns(e, d, e.i)
    BY <1>1 DEF Owns
  <1>3. \A d \in Made, e \in Wires : Owns(e, d, e.i) /\ ~Handed(e) /\ Linked(e, d) => Linked(e, d)'
    BY <1>1, ServedLinked
  <1>4. ASSUME NEW m \in Made, made[m].kind = "when", remaining'[m] = 0
        PROVE  remaining[m] = 0 \/ SomeFired(m)'
    <2>1. CASE op.op = "count" /\ m = op.d
      <3>1. lists'[m][1].fired \/ lists[m][1].disabled
        BY <1>4, <2>1 DEF Serves
      <3>2. m \in Ids /\ 1 \in Sides
        BY <1>1 DEF Sides
      <3> QED
        BY <3>1, <3>2, FiredOrDisabled DEF Justice
    <2>2. CASE op.op = "count" /\ m # op.d
      BY <1>1, <1>4, <2>2, CountingIs DEF Counting
    <2>3. CASE op.op # "count"
      BY <1>4, <2>3 DEF Serves
    <2> QED
      BY <2>1, <2>2, <2>3
  <1>5. Paid /\ BooksRight'
    BY ServedPaid, ServingBooks
  <1> QED
    BY <1>1, <1>2, <1>3, <1>4, <1>5, KeptIfPaid

LEMMA DoKeeps ==
  ASSUME Structure, CausesInv, Do
  PROVE  CausesInv'
  <1>1. PICK op, f : Serves(op, f)
    BY DoServes
  <1>2. Justice' /\ Tokens'
    BY <1>1, ServingJust, ServingCounts DEF CausesInv
  <1>3. ~broken' => NothingLost'
    BY <1>1, ServingKeeps DEF CausesInv, Serves
  <1>4. LoopsRight'
    <2> SUFFICES ASSUME NEW k \in 1..Depth'
                 PROVE  frames'[k].in \/ ~frames'[k].user
      BY DEF LoopsRight
    <2>1. CASE k \in 1..Depth
      <3>1. frames'[k].in = frames[k].in /\ frames'[k].user = frames[k].user
        BY <1>1, <2>1, ServedFrames
      <3> QED
        BY <2>1, <3>1 DEF CausesInv, LoopsRight
    <2>2. CASE frames'[k] = Round(op.d, op.i)
      BY <2>2 DEF Round
    <2> QED
      BY <1>1, <2>1, <2>2, ServedFrames
  <1> QED
    BY <1>2, <1>3, <1>4 DEF CausesInv

-------------------------------------------------------------------------------
(* A function that throws, and steps that change nothing. *)

LEMMA ThrowLoses ==
  ASSUME Structure, CausesInv, Throw
  PROVE  CausesInv'
  <1>1. /\ lists' = lists /\ state' = state /\ made' = made /\ remaining' = remaining /\ arrived' = arrived
        /\ adopted' = adopted /\ passed' = passed /\ broken' /\ Top.in
    BY DEF Throw, PageRuns
  <1>2. Depth' = 1 /\ frames'[1] = PageFrame /\ Len(frames'[1].todo) = 0 /\ frames'[1].in
    <2>1. frames' = <<PageFrame>>
      BY DEF Throw
    <2> QED
      BY <2>1, PageFrameIs, NoEntries DEF Depth
  <1>3. \A k \in 1..Depth' : k = 1 /\ 1..Len(frames'[k].todo) = {}
    BY <1>2
  <1>4. \A op : ~Owing(op)'
    BY <1>3 DEF Owing, Makes
  <1>5. Types /\ BooksRight
    BY DEF Structure, CausesInv, Justice
  <1>6. BooksRight' /\ Grown /\ Made' = Made
    <2>1. adopted' \in [Ids -> SUBSET Made] /\ passed' \subseteq Made
      BY <1>1, <1>5 DEF BooksRight
    <2> QED
      BY <1>1, <1>5, <2>1, BooksSame
  <1>7. StateRight'
    BY <1>1, NotOpening, StateStays DEF CausesInv, Justice
  <1>8. DisabledRight' /\ EntriesRight'
    BY <1>1, <1>5, <1>6, OwnsStays DEF CausesInv, Justice, DisabledRight, EntriesRight, Listed
  <1>9. CausesRight'
    BY <1>1, <1>5, <1>6, CauseStays DEF CausesInv, Justice, CausesRight
  <1>10. CallsRight' /\ CountsRight'
    BY <1>3, <1>4 DEF CallsRight, CountsRight, Makes
  <1>11. SentOnce'
    BY <1>3 DEF SentOnce
  <1>12. ListedOnce' /\ CountRight'
    BY <1>1, <1>6 DEF CausesInv, Tokens, ListedOnce, CountRight, Left
  <1>13. ArrivedOnce'
    BY <1>1, <1>2 DEF CausesInv, Tokens, ArrivedOnce
  <1>14. LoopsRight'
    BY <1>2, <1>3 DEF LoopsRight
  <1> QED
    BY <1>1, <1>6, <1>7, <1>8, <1>9, <1>10, <1>11, <1>12, <1>13, <1>14 DEF CausesInv, Justice, Tokens

LEMMA NothingHappens ==
  ASSUME Structure, CausesInv, UNCHANGED vars
  PROVE  CausesInv'
  <1>1. /\ lists' = lists /\ state' = state /\ made' = made /\ remaining' = remaining /\ arrived' = arrived
        /\ frames' = frames /\ adopted' = adopted /\ passed' = passed /\ broken' = broken
    BY DEF vars
  <1>2. Depth' = Depth /\ Top' = Top /\ Made' = Made
    BY <1>1 DEF Depth, Top, Made
  <1>3. /\ \A d, i : Busy(d, i)' <=> Busy(d, i)
        /\ \A op : Owing(op)' <=> Owing(op)
        /\ \A k, op : Makes(k, op)' <=> Makes(k, op)
        /\ \A d, i, e : Owns(e, d, i)' <=> Owns(e, d, i)
        /\ \A d, i : Cause(d, i)' <=> Cause(d, i)
    BY <1>1, <1>2 DEF Busy, Owing, Makes, Owns, Cause
  <1>4. /\ \A d, i, e : Comes(d, i, e)' <=> Comes(d, i, e)
        /\ \A d, i : OwesFire(d, i)' <=> OwesFire(d, i)
        /\ \A e : OwesCount(e)' <=> OwesCount(e)
        /\ \A d : SomeFired(d)' <=> SomeFired(d)
    BY <1>1, <1>3, ComesSame DEF OwesFire, OwesCount, SomeFired
  <1>5. \A e, d : Linked(e, d)' <=> Linked(e, d)
    BY <1>1, <1>3, <1>4 DEF Linked, Handed
  <1>6. BooksRight' /\ DisabledRight' /\ EntriesRight' /\ CausesRight' /\ CallsRight'
    BY <1>1, <1>2, <1>3, <1>4 DEF CausesInv, Justice, BooksRight, DisabledRight, EntriesRight, CausesRight,
                                  CallsRight, Justified, Listed
  <1>7. StateRight'
    BY <1>1, <1>2, <1>4 DEF CausesInv, Justice, StateRight, Opening
  <1>8. CountsRight' /\ ListedOnce' /\ CountRight'
    BY <1>1, <1>2, <1>3 DEF CausesInv, Tokens, CountsRight, Counted, ListedOnce, CountRight, Left
  <1>9. SentOnce' /\ ArrivedOnce'
    BY <1>1, <1>2 DEF CausesInv, Tokens, SentOnce, ArrivedOnce, CalledIn, Listed
  <1>10. LoopsRight' /\ (~broken' => NothingLost')
    BY <1>1, <1>2, <1>4, <1>5, <1>3 DEF CausesInv, LoopsRight, NothingLost, WiresKept, ValuesKept, CountKept
  <1> QED
    BY <1>6, <1>7, <1>8, <1>9, <1>10 DEF CausesInv, Justice, Tokens

\* Every step keeps the invariant.
LEMMA CausesStep ==
  ASSUME DInv, CausesInv, [Next]_vars
  PROVE  CausesInv'
  <1>0. Structure
    BY DEF DInv
  <1>1. CASE New
    BY <1>0, <1>1, NewAsks
  <1>2. ASSUME NEW d \in Made, NEW hows \in (SUBSET {1, 2}) \ {{}}, Register(d, hows)
        PROVE  CausesInv'
    BY <1>0, <1>2, RegisterAsks
  <1>3. ASSUME NEW d \in Plain, NEW i \in Lists, Fire(d, i)
        PROVE  CausesInv'
    BY <1>0, <1>3, FireAsks
  <1>4. ASSUME NEW p \in Made, NEW fns \in FunctionsGiven, Then(p, fns)
        PROVE  CausesInv'
    BY <1>0, <1>4, ThenAsks
  <1>5. ASSUME NEW a \in Made \cup {Page}, NEW b \in Made \cup {Page}, When(a, b)
        PROVE  CausesInv'
    BY <1>0, <1>5, WhenAsks
  <1>6. CASE Library
    <2>1. CASE Do
      BY <1>0, <2>1, DoKeeps
    <2>2. CASE CallInternal
      BY <1>0, <2>2, InternalPasses
    <2>3. CASE CallFunction
      BY <1>0, <2>3, CallAsks
    <2>4. CASE CallForward
      BY <1>0, <2>4, ForwardAsks
    <2>5. CASE EndRound
      BY <1>0, <2>5, EndPasses
    <2> QED
      BY <1>6, <2>1, <2>2, <2>3, <2>4, <2>5 DEF Library
  <1>7. CASE Return
    BY <1>0, <1>7, ReturnPasses
  <1>8. CASE ReturnValue
    BY <1>0, <1>8, ValueAsks
  <1>9. ASSUME NEW r \in Made, ReturnPromise(r)
        PROVE  CausesInv'
    BY <1>0, <1>9, PromiseAsks
  <1>10. CASE Throw
    BY <1>0, <1>10, ThrowLoses
  <1>11. CASE Rest
    BY <1>0, <1>11, NothingHappens DEF Rest
  <1>12. CASE UNCHANGED vars
    BY <1>0, <1>12, NothingHappens
  <1> QED
    BY <1>1, <1>2, <1>3, <1>4, <1>5, <1>6, <1>7, <1>8, <1>9, <1>10, <1>11, <1>12 DEF Next

-------------------------------------------------------------------------------
(* At first. *)

LEMMA NewEntriesAre ==
  ASSUME NEW d \in Ids, NEW i \in Lists, NEW x, x = NewDeferred(d)[i], NEW p \in 1..Len(x.list)
  PROVE  i \in Sides /\ x.list[p].i = i /\ x.list[p].fn \in {"state", "disable", "lock"}
  <1>1. CASE i = 3
    <2>1. x.list = <<>>
      BY <1>1 DEF NewDeferred, NewList
    <2> QED
      BY <2>1, NoEntries
  <1>2. CASE i \in Sides
    <2>1. PICK es : es = [k \in 1..3 |-> Entry(Internal[k], 0, d, i)]
      OBVIOUS
    <2>2. x = [NewList(OnceMemory) EXCEPT !.list = es]
      BY <1>2, <2>1 DEF NewDeferred, Sides
    <2>3. x.list = es
      <3>1. PICK b : b = NewList(OnceMemory)
        OBVIOUS
      <3>2. b = [list |-> <<>>, disabled |-> FALSE, firing |-> FALSE, fired |-> FALSE, memory |-> 0,
                 data |-> 0, at |-> 0, length |-> 0, start |-> 0, stack |-> <<>>, stacked |-> ~OnceMemory.once]
        BY <3>1 DEF NewList
      <3>3. x = [b EXCEPT !.list = es]
        BY <2>2, <3>1
      <3> QED
        BY <3>2, <3>3
    <2>4. Len(es) = 3
      <3>1. PICK S : S = {Entry(Internal[k], 0, d, i) : k \in 1..3}
        OBVIOUS
      <3>2. es \in [1..3 -> S]
        BY <2>1, <3>1
      <3>3. es \in Seq(S)
        BY <3>2, SeqDef
      <3> QED
        BY <3>2, <3>3
    <2>5. p \in 1..3
      BY <2>3, <2>4
    <2>6. x.list[p] = Entry(Internal[p], 0, d, i)
      BY <2>1, <2>3, <2>5
    <2>7. x.list[p].i = i /\ x.list[p].fn = Internal[p]
      BY <2>6, EntryOf
    <2> QED
      BY <1>2, <2>5, <2>7 DEF Internal
  <1> QED
    BY <1>1, <1>2 DEF Lists, Sides

LEMMA CausesAtFirst == ASSUME Init PROVE CausesInv
  <1>1. /\ lists = [d \in Ids |-> NewDeferred(d)] /\ made = <<>> /\ frames = <<PageFrame>>
        /\ state = [d \in Ids |-> "pending"] /\ remaining = [d \in Ids |-> 0]
        /\ arrived = [d \in Ids |-> {}] /\ adopted = [d \in Ids |-> {}] /\ passed = {}
    BY DEF Init
  <1>2. Made = {}
    BY <1>1 DEF Made
  <1>3. Depth = 1 /\ frames[1] = PageFrame /\ frames[1].in /\ Len(frames[1].todo) = 0
    BY <1>1, PageFrameIs, NoEntries DEF Depth
  <1>4. \A k \in 1..Depth : k = 1 /\ 1..Len(frames[k].todo) = {}
    BY <1>3
  <1>5. \A op : ~Owing(op)
    BY <1>4 DEF Owing, Makes
  <1>6. \A d \in Ids, i \in Lists :
           /\ ~lists[d][i].fired /\ ~lists[d][i].disabled
           /\ \A p \in 1..Len(lists[d][i].list) :
                 /\ i \in Sides /\ lists[d][i].list[p].i = i
                 /\ lists[d][i].list[p].fn \in {"state", "disable", "lock"}
    BY <1>1, NewListsAre, NewEntriesAre
  <1>7. 1 \in Lists /\ 2 \in Lists /\ Sides \subseteq Lists
    BY DEF Sides, Lists
  <1>8. \A d \in Ids : ~SomeFired(d)
    BY <1>6, <1>7 DEF SomeFired
  <1>9. BooksRight
    BY <1>1, <1>2, <1>8 DEF BooksRight
  <1>10. StateRight /\ DisabledRight
    BY <1>1, <1>6, <1>7, <1>8 DEF StateRight, DisabledRight
  <1>11. EntriesRight
    BY <1>6 DEF EntriesRight, Listed, Owns
  <1>12. CausesRight /\ CallsRight /\ CountRight
    BY <1>2, <1>5 DEF CausesRight, CallsRight, CountRight
  <1>13. CountsRight /\ SentOnce
    BY <1>4 DEF CountsRight, SentOnce, Makes
  <1>14. ListedOnce /\ ArrivedOnce
    BY <1>6, <1>7 DEF ListedOnce, ArrivedOnce
  <1>15. LoopsRight
    BY <1>3, <1>4 DEF LoopsRight
  <1>16. NothingLost
    BY <1>1, <1>2 DEF NothingLost, WiresKept, ValuesKept, CountKept
  <1> QED
    BY <1>9, <1>10, <1>11, <1>12, <1>13, <1>14, <1>15, <1>16 DEF CausesInv, Justice, Tokens

-------------------------------------------------------------------------------
(* At rest. *)

\* With no code running the states are what was fired, and what is wired to a
\* deferred that was settled has done what it is there for.
Calm ==
    /\ \A r \in Ids : ~SomeFired(r) => state[r] = "pending"
    /\ \A r \in Ids, i \in Sides : lists[r][i].fired => state[r] = Name(i) /\ ~lists[r][3 - i].fired
    /\ \A r \in Made, e \in Wires : Owns(e, r, e.i) /\ lists[r][e.i].fired =>
          /\ e.fn = "then" => e.to \in passed \/ adopted[e.to] # {}
          /\ e.fn = "settle" => SomeFired(e.to)
          /\ e.fn = "count" => e.n \in arrived[e.to]
    /\ \A d \in passed : SomeFired(d)
    /\ \A m \in Made : made[m].kind = "when" /\ remaining[m] = 0 => SomeFired(m)

LEMMA CalmAtRest ==
  ASSUME DInv, Unstuck, CausesInv, AtRest, ~broken
  PROVE  Calm
  <1>1. Structure /\ Attended /\ NothingLost /\ Justice /\ Made \subseteq Ids
    BY DEF DInv, Unstuck, CausesInv, Justice, BooksRight
  <1>2. Depth = 1 /\ frames[1].todo = <<>> /\ Len(frames[1].todo) = 0
    BY NoEntries DEF AtRest, Top
  <1>3. \A op : ~Owing(op)
    BY <1>2 DEF Owing, Makes
  <1>4. \A d, i, e : ~OwesFire(d, i) /\ ~OwesCount(e)
    BY <1>3 DEF OwesFire, OwesCount
  <1>5. \A d \in Ids, i \in Lists : ~lists[d][i].firing
    BY <1>1, <1>2 DEF Attended, Alive
  <1>6. \A d \in Ids, i \in Sides : lists[d][i].fired => lists[d][i].list = <<>> /\ ~lists[d][i].disabled /\ i \in Lists
    <2>1. ListsOK
      BY <1>1 DEF Structure
    <2> QED
      BY <1>5, <2>1, SideIs DEF Settling
  <1>7. \A r \in Ids : ~SomeFired(r) => state[r] = "pending"
    BY <1>1 DEF Justice, StateRight
  <1>8. \A d, i : ~Opening(d, i)
    BY <1>2 DEF Opening
  <1>9. \A r \in Ids, i \in Sides : lists[r][i].fired => state[r] = Name(i) /\ ~lists[r][3 - i].fired
    BY <1>1, <1>8 DEF Justice, StateRight, Structure, OneSide
  <1>10. ASSUME NEW r \in Made, NEW e \in Wires, Owns(e, r, e.i), lists[r][e.i].fired
         PROVE  /\ e.fn = "then" => e.to \in passed \/ adopted[e.to] # {}
                /\ e.fn = "settle" => SomeFired(e.to)
                /\ e.fn = "count" => e.n \in arrived[e.to]
    <2>1. e.i \in Sides /\ e.i \in Lists /\ r \in Ids
      BY <1>1, WireIs
    <2>2. Linked(e, r)
      BY <1>1, <1>10 DEF NothingLost, WiresKept
    <2>3. lists[r][e.i].list = <<>> /\ ~lists[r][e.i].disabled
      BY <1>6, <1>10, <2>1
    <2>4. ~Comes(r, e.i, e)
      BY <1>1, <2>1, <2>3, NoneComes
    <2>5. Handed(e)
      BY <1>3, <2>2, <2>3, <2>4 DEF Linked
    <2> QED
      BY <1>4, <2>5 DEF Handed
  <1>11. \A d \in passed : SomeFired(d)
    BY <1>1, <1>4 DEF NothingLost, ValuesKept
  <1>12. \A m \in Made : made[m].kind = "when" /\ remaining[m] = 0 => SomeFired(m)
    BY <1>1, <1>4 DEF NothingLost, CountKept
  <1> QED
    BY <1>7, <1>9, <1>10, <1>11, <1>12 DEF Calm

\* The entries then and when wire.
LEMMA WireOf ==
  ASSUME NEW m \in Ids, NEW i \in Sides, NEW fn \in {"then", "settle"}, NEW e, e = Entry(fn, 0, m, i)
  PROVE  e \in Wires /\ e.fn = fn /\ e.to = m /\ e.i = i
  BY DEF Entry, Wires

LEMMA WireOfCount ==
  ASSUME NEW m \in Ids, NEW k \in 1..2, NEW e, e = Entry("count", k, m, 1)
  PROVE  e \in Wires /\ e.fn = "count" /\ e.to = m /\ e.i = 1 /\ e.n = k
  BY DEF Entry, Wires

LEMMA StateOf ==
  ASSUME Calm, NEW r \in Ids
  PROVE  /\ Settled(r) <=> SomeFired(r)
         /\ lists[r][1].fired <=> state[r] = "resolved"
         /\ lists[r][2].fired <=> state[r] = "rejected"
  <1>1. 1 \in Sides /\ 2 \in Sides /\ 3 - 1 = 2 /\ 3 - 2 = 1
    BY DEF Sides
  <1>2. Name(1) = "resolved" /\ Name(2) = "rejected"
    BY DEF Name
  <1> QED
    BY <1>1, <1>2 DEF Calm, SomeFired, Settled

LEMMA ThenSettles ==
  ASSUME Calm, Justice, NEW d \in Made, made[d].kind = "then"
  PROVE  /\ Causes(d) # {} => SomeFired(d)
         /\ \A i \in Sides : lists[d][i].fired => Name(i) \in Causes(d)
         /\ Settled(made[d].of[1]) => d \in passed \/ adopted[d] # {}
  <1>1. PICK p \in Ids : p = made[d].of[1]
    BY DEF Justice, BooksRight
  <1>2. d \in Ids /\ p \in Made /\ adopted[d] \subseteq Made /\ Made \subseteq Ids
    BY <1>1 DEF Justice, BooksRight
  <1>3. Causes(d) = {state[r] : r \in {x \in adopted[d] : Settled(x)}} \cup (IF d \in passed THEN {state[p]} ELSE {})
    BY <1>1 DEF Causes
  <1>4. ASSUME NEW r \in Made, Settled(r)
        PROVE  \E i \in Sides : lists[r][i].fired
    BY <1>2, <1>4, StateOf DEF SomeFired, Sides
  <1>5. ASSUME NEW r \in adopted[d], Settled(r)
        PROVE  SomeFired(d)
    <2>1. PICK i \in Sides : lists[r][i].fired
      BY <1>2, <1>4, <1>5
    <2>2. PICK e : e = Entry("settle", 0, d, i)
      OBVIOUS
    <2>3. e \in Wires /\ e.fn = "settle" /\ e.to = d /\ e.i = i
      BY <1>2, <2>2, WireOf
    <2>4. Owns(e, r, e.i)
      BY <1>5, <2>3 DEF Owns
    <2> QED
      BY <1>2, <2>1, <2>3, <2>4 DEF Calm
  <1>6. Causes(d) # {} => SomeFired(d)
    BY <1>3, <1>5 DEF Calm
  <1>7. ASSUME NEW i \in Sides, lists[d][i].fired
        PROVE  Name(i) \in Causes(d)
    <2>1. Cause(d, i)
      BY <1>7 DEF Justice, CausesRight
    <2>2. CASE \E r \in adopted[d] : lists[r][i].fired
      <3>1. PICK r \in adopted[d] : lists[r][i].fired
        BY <2>2
      <3>2. state[r] = Name(i) /\ SomeFired(r)
        BY <1>2, <3>1 DEF Calm, SomeFired, Sides
      <3>3. Settled(r)
        BY <1>2, <3>2, StateOf
      <3> QED
        BY <1>3, <3>2, <3>3
    <2>3. CASE d \in passed /\ lists[p][i].fired
      <3>1. state[p] = Name(i)
        BY <2>3 DEF Calm
      <3> QED
        BY <1>3, <2>3, <3>1
    <2> QED
      BY <1>1, <2>1, <2>2, <2>3 DEF Cause
  <1>8. ASSUME Settled(p)
        PROVE  d \in passed \/ adopted[d] # {}
    <2>1. PICK i \in Sides : lists[p][i].fired
      BY <1>2, <1>4, <1>8
    <2>2. PICK e : e = Entry("then", 0, d, i)
      OBVIOUS
    <2>3. e \in Wires /\ e.fn = "then" /\ e.to = d /\ e.i = i
      BY <1>2, <2>2, WireOf
    <2>4. Owns(e, p, e.i)
      BY <1>1, <2>3 DEF Owns
    <2> QED
      BY <1>2, <2>1, <2>3, <2>4 DEF Calm
  <1> QED
    BY <1>1, <1>6, <1>7, <1>8

LEMMA WhenSettles ==
  ASSUME Calm, Justice, CountRight, NEW d \in Made, made[d].kind = "when"
  PROVE  /\ Causes(d) # {} => SomeFired(d)
         /\ \A i \in Sides : lists[d][i].fired => Name(i) \in Causes(d)
  <1>1. d \in Ids /\ Made \subseteq Ids /\ \A k \in 1..2 : made[d].of[k] # Page => made[d].of[k] \in Made
    BY DEF Justice, BooksRight
  <1>2. Page \notin Ids
    BY DEF Page, Ids
  <1>3. PICK args : args = {made[d].of[k] : k \in 1..2} \ {Page}
    OBVIOUS
  <1>4. Causes(d) = IF \E a \in args : state[a] = "rejected" THEN {"rejected"}
                    ELSE IF \A a \in args : state[a] = "resolved" THEN {"resolved"} ELSE {}
    BY <1>3 DEF Causes
  <1>5. \A a \in args : a \in Made /\ a \in Ids /\ \E k \in 1..2 : made[d].of[k] = a /\ a # Page
    BY <1>1, <1>3
  <1>6. \A k \in 1..2 : made[d].of[k] # Page => made[d].of[k] \in args
    BY <1>3
  <1>7. ASSUME NEW a \in args, state[a] = "rejected"
        PROVE  SomeFired(d)
    <2>1. lists[a][2].fired
      BY <1>5, <1>7, StateOf
    <2>2. PICK e : e = Entry("settle", 0, d, 2)
      OBVIOUS
    <2>3. e \in Wires /\ e.fn = "settle" /\ e.to = d /\ e.i = 2
      BY <1>1, <2>2, WireOf DEF Sides
    <2>4. Owns(e, a, e.i)
      BY <1>5, <2>3 DEF Owns, Sides
    <2> QED
      BY <1>5, <2>1, <2>3, <2>4 DEF Calm
  <1>8. ASSUME \A a \in args : state[a] = "resolved"
        PROVE  SomeFired(d)
    <2>1. ASSUME NEW k \in 1..2, made[d].of[k] # Page
          PROVE  k \in arrived[d]
      <3>1. made[d].of[k] \in Made /\ lists[made[d].of[k]][1].fired
        BY <1>1, <1>6, <1>8, <2>1, StateOf
      <3>2. PICK e : e = Entry("count", k, d, 1)
        OBVIOUS
      <3>3. e \in Wires /\ e.fn = "count" /\ e.to = d /\ e.i = 1 /\ e.n = k
        BY <1>1, <3>2, WireOfCount
      <3>4. Owns(e, made[d].of[k], e.i)
        BY <3>3 DEF Owns
      <3> QED
        BY <3>1, <3>3, <3>4 DEF Calm
    <2>2. Left(d, 1) = 0 /\ Left(d, 2) = 0
      BY <2>1 DEF Left
    <2>3. remaining[d] = 0
      BY <2>2 DEF CountRight
    <2> QED
      BY <2>3 DEF Calm
  <1>9. ASSUME NEW i \in Sides, lists[d][i].fired
        PROVE  Name(i) \in Causes(d)
    <2>1. Cause(d, i)
      BY <1>9 DEF Justice, CausesRight
    <2>2. CASE i = 1
      <3>1. \A k \in 1..2 : made[d].of[k] # Page => lists[made[d].of[k]][1].fired
        BY <2>1, <2>2 DEF Cause
      <3>2. \A a \in args : state[a] = "resolved"
        BY <1>5, <3>1, StateOf
      <3> QED
        BY <1>4, <2>2, <3>2 DEF Name
    <2>3. CASE i = 2
      <3>1. PICK k \in 1..2 : made[d].of[k] # Page /\ lists[made[d].of[k]][2].fired
        BY <2>1, <2>3 DEF Cause
      <3>2. made[d].of[k] \in args /\ state[made[d].of[k]] = "rejected"
        BY <1>1, <1>6, <3>1, StateOf
      <3> QED
        BY <1>4, <2>3, <3>2 DEF Name
    <2> QED
      BY <2>2, <2>3 DEF Sides
  <1> QED
    BY <1>4, <1>7, <1>8, <1>9

LEMMA AllSettle == ASSUME DInv, Unstuck, CausesInv PROVE SettlesForItsCause
  <1> SUFFICES ASSUME AtRest, ~broken, NEW d \in Made \ Plain
               PROVE  /\ IF Causes(d) = {} THEN state[d] = "pending" ELSE state[d] \in Causes(d)
                      /\ made[d].kind = "then" /\ Settled(made[d].of[1]) => d \in passed \/ adopted[d] # {}
    BY DEF SettlesForItsCause
  <1>1. Calm /\ Justice /\ CountRight
    BY CalmAtRest DEF CausesInv, Tokens
  <1>2. d \in Ids
    BY <1>1 DEF Justice, BooksRight
  <1>3. made[d].kind \in {"then", "when"}
    <2>1. made[d] \in Making
      BY DEF DInv, Structure, Types, Counts, Made
    <2> QED
      BY <2>1 DEF Making, Plain
  <1>4. /\ Causes(d) # {} => SomeFired(d)
        /\ \A i \in Sides : lists[d][i].fired => Name(i) \in Causes(d)
        /\ made[d].kind = "then" /\ Settled(made[d].of[1]) => d \in passed \/ adopted[d] # {}
    BY <1>1, <1>3, ThenSettles, WhenSettles
  <1>5. CASE SomeFired(d)
    <2>1. PICK i \in Sides : lists[d][i].fired
      BY <1>5 DEF SomeFired, Sides
    <2>2. state[d] = Name(i) /\ Name(i) \in Causes(d)
      BY <1>1, <1>2, <1>4, <2>1 DEF Calm
    <2> QED
      BY <1>4, <2>2
  <1>6. CASE ~SomeFired(d)
    <2>1. state[d] = "pending" /\ Causes(d) = {}
      BY <1>1, <1>2, <1>4, <1>6 DEF Calm
    <2> QED
      BY <1>4, <2>1
  <1> QED
    BY <1>5, <1>6

\* What then and when wire neither comes of nothing nor is lost, while no function
\* of the page has thrown.
THEOREM CausesInvariant == Spec => []CausesInv
  <1>1. Init => CausesInv
    BY CausesAtFirst
  <1>2. DInv /\ CausesInv /\ [Next]_vars => CausesInv'
    BY CausesStep
  <1> QED
    BY <1>1, <1>2, DeferredsInvariant, PTL DEF Spec

\* With no code running and none that threw, every promise made by then or when has
\* been settled if, and as, something it depends on has, and the function of a then
\* on what was settled has run or passed it on: however many deferreds there are and
\* in whatever order they were wired and settled.
THEOREM PromisesSettleForTheirCause == Spec => []SettlesForItsCause
  <1>1. Init => Unstuck
    BY UnstuckAtFirst
  <1>2. DInv /\ Unstuck /\ [Next]_vars => Unstuck'
    BY UnstuckStep
  <1>3. DInv /\ Unstuck /\ CausesInv => SettlesForItsCause
    BY AllSettle
  <1> QED
    BY <1>1, <1>2, <1>3, DeferredsInvariant, CausesInvariant, PTL DEF Spec

===============================================================================
