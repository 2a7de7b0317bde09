---------------------------- MODULE CallbacksProofs ----------------------------
(***************************************************************************)
(* Proofs about callback lists, for any functions, any number of entries and *)
(* of fires, and callbacks that change the list or throw: the fires a list   *)
(* queues, then the entries of a round.  What a round owes, and what entries *)
(* hear, holds where no callback calls empty, which loses its place.         *)
(***************************************************************************)
EXTENDS Callbacks, FiniteSetTheorems, TLAPS

Fields == {"list", "disabled", "firing", "fired", "memory", "data", "at", "length", "start", "stack", "stacked"}

\* What matters of a list is what it fired and what it has still to fire.
Shape(x) ==
    /\ x = [field \in Fields |-> x[field]]
    /\ {x.disabled, x.firing, x.fired, x.stacked} \subseteq BOOLEAN
    /\ x.data \in Nat
    /\ x.stack \in Seq(Nat)

\* Only a list that may queue fires queues them, and only in the middle of a round.
Queues(x) ==
    /\ x.firing => x.fired
    /\ x.disabled => ~x.stacked
    /\ ~x.stacked \/ ~x.firing => x.stack = <<>>

\* What is remembered is what was fired last.
Remembers(x) == x.memory \in {0, x.data}

\* The last of the n fires accepted is the last in the queue, or was made.
UpToDate(x, n) == x.stacked => IF x.stack = <<>> THEN x.data = n ELSE x.stack[Len(x.stack)] = n

Good(x, n) == Shape(x) /\ Queues(x) /\ Remembers(x) /\ UpToDate(x, n)

IInv == options \in Flags /\ asked \in Nat /\ Good(l, asked)

-------------------------------------------------------------------------------
(* Queues. *)

LEMMA NoneLeft ==
  ASSUME NEW q \in Seq(Nat)
  PROVE  q = <<>> <=> Len(q) = 0
  OBVIOUS

LEMMA Appended ==
  ASSUME NEW q \in Seq(Nat), NEW d \in Nat
  PROVE  /\ Append(q, d) \in Seq(Nat) /\ Append(q, d) # <<>>
         /\ Append(q, d)[Len(Append(q, d))] = d
  OBVIOUS

\* The last of what is left when the first is taken.
LEMMA Taken ==
  ASSUME NEW q \in Seq(Nat), q # <<>>
  PROVE  /\ Head(q) \in Nat /\ Tail(q) \in Seq(Nat)
         /\ Tail(q) = <<>> => Head(q) = q[Len(q)]
         /\ Tail(q) # <<>> => Tail(q)[Len(Tail(q))] = q[Len(q)]
  <1>1. Len(q) \in Nat \ {0} /\ Head(q) = q[1] /\ Head(q) \in Nat
    OBVIOUS
  <1>2. Tail(q) \in Seq(Nat) /\ Len(Tail(q)) = Len(q) - 1 /\ \A i \in 1..Len(q) - 1 : Tail(q)[i] = q[i + 1]
    OBVIOUS
  <1>3. Tail(q) = <<>> <=> Len(Tail(q)) = 0
    BY <1>2, NoneLeft
  <1> QED
    BY <1>1, <1>2, <1>3

-------------------------------------------------------------------------------
(* What each method keeps. *)

\* A change of the fields a fire does not depend on.
LEMMA OtherFields ==
  ASSUME NEW x, NEW n, Good(x, n), NEW y, Shape(y),
         y.firing = x.firing, y.fired = x.fired, y.memory = x.memory,
         y.data = x.data, y.stack = x.stack, y.stacked = x.stacked,
         y.disabled => x.disabled
  PROVE  Good(y, n)
  BY DEF Good, Queues, Remembers, UpToDate, Shape

LEMMA BeginGood ==
  ASSUME NEW x, Shape(x), NEW o \in Flags, NEW n \in Nat, NEW data \in Nat,
         ~x.stacked => x.stack = <<>>,
         x.disabled => ~x.stacked,
         x.stacked => IF x.stack = <<>> THEN data = n ELSE x.stack[Len(x.stack)] = n
  PROVE  Good(Begin(x, o, data), n)
  <1> DEFINE y == Begin(x, o, data)
  <1>1. /\ y = [field \in Fields |-> y[field]]
        /\ y.disabled = x.disabled /\ y.firing = TRUE /\ y.fired = TRUE /\ y.stacked = x.stacked
        /\ y.data = data /\ y.stack = x.stack
        /\ y.memory = IF o.memory THEN data ELSE 0
    BY DEF Begin, Shape, Fields
  <1> QED
    BY <1>1 DEF Good, Shape, Queues, Remembers, UpToDate

LEMMA DisableGood ==
  ASSUME NEW x, Shape(x), Queues(x), NEW n
  PROVE  Good(Disable(x), n)
  <1> DEFINE y == Disable(x)
  <1>1. /\ y = [field \in Fields |-> y[field]]
        /\ y.disabled = TRUE /\ y.firing = x.firing /\ y.fired = x.fired /\ y.stacked = FALSE
        /\ y.data = x.data /\ y.stack = <<>> /\ y.memory = 0
    BY DEF Disable, Shape, Fields
  <1>2. <<>> \in Seq(Nat)
    OBVIOUS
  <1> QED
    BY <1>1, <1>2 DEF Good, Shape, Queues, Remembers, UpToDate

LEMMA StopGood ==
  ASSUME NEW x, NEW n, Good(x, n)
  PROVE  Good(Stop(x), n)
  <1> DEFINE y == Stop(x)
  <1>1. /\ y = [field \in Fields |-> y[field]]
        /\ y.disabled = x.disabled /\ y.firing = x.firing /\ y.fired = x.fired /\ y.stacked = x.stacked
        /\ y.data = x.data /\ y.stack = x.stack /\ y.memory = 0
    BY DEF Stop, Good, Shape, Fields
  <1> QED
    BY <1>1 DEF Good, Shape, Queues, Remembers, UpToDate

LEMMA AdvanceGood ==
  ASSUME NEW x, NEW n, Good(x, n)
  PROVE  Good(Advance(x), n)
  <1> DEFINE y == Advance(x)
  <1>1. /\ y = [field \in Fields |-> y[field]]
        /\ y.disabled = x.disabled /\ y.firing = x.firing /\ y.fired = x.fired /\ y.stacked = x.stacked
        /\ y.data = x.data /\ y.stack = x.stack /\ y.memory = x.memory
    BY DEF Advance, Good, Shape, Fields
  <1> QED
    BY <1>1, OtherFields DEF Good, Shape

LEMMA EmptyGood ==
  ASSUME NEW x, NEW n, Good(x, n)
  PROVE  Good(Empty(x), n)
  <1> DEFINE y == Empty(x)
  <1>1. /\ y = [field \in Fields |-> y[field]]
        /\ y.disabled = FALSE /\ y.firing = x.firing /\ y.fired = x.fired /\ y.stacked = x.stacked
        /\ y.data = x.data /\ y.stack = x.stack /\ y.memory = x.memory
    BY DEF Empty, Good, Shape, Fields
  <1> HIDE DEF y
  <1>2. Shape(y)
    BY <1>1 DEF Good, Shape
  <1>3. Good(y, n)
    BY <1>1, <1>2, OtherFields
  <1> QED
    BY <1>3 DEF y

LEMMA LockGood ==
  ASSUME NEW x, NEW n, Good(x, n)
  PROVE  Good(Lock(x), n)
  <1> DEFINE y == [x EXCEPT !.stack = <<>>, !.stacked = FALSE]
  <1>1. /\ y = [field \in Fields |-> y[field]]
        /\ y.disabled = x.disabled /\ y.firing = x.firing /\ y.fired = x.fired /\ y.stacked = FALSE
        /\ y.data = x.data /\ y.stack = <<>> /\ y.memory = x.memory
    BY DEF Good, Shape, Fields
  <1>2. <<>> \in Seq(Nat)
    OBVIOUS
  <1>3. Good(y, n)
    BY <1>1, <1>2 DEF Good, Shape, Queues, Remembers, UpToDate
  <1>4. Good(Disable(y), n)
    BY <1>3, DisableGood DEF Good
  <1> QED
    BY <1>3, <1>4 DEF Lock

\* The entries removed are not looked into: whatever is kept, and wherever the round is.
LEMMA RemoveGood ==
  ASSUME NEW x, NEW n, Good(x, n), NEW fn
  PROVE  Good(Remove(x, fn), n)
  <1> DEFINE kept == Kept(x, fn)
             len  == x.length - Cardinality(Places(x, fn))
             at   == x.at - Cardinality({i \in Places(x, fn) : i <= x.at})
  <1>1. Remove(x, fn) = IF x.disabled THEN x
                        ELSE IF ~x.firing THEN [x EXCEPT !.list = kept]
                        ELSE [x EXCEPT !.list = kept, !.length = len, !.at = at]
    BY DEF Remove
  <1> HIDE DEF kept, len, at
  <1> DEFINE y == [x EXCEPT !.list = kept]
             z == [x EXCEPT !.list = kept, !.length = len, !.at = at]
  <1>2. /\ y = [field \in Fields |-> y[field]]
        /\ y.disabled = x.disabled /\ y.firing = x.firing /\ y.fired = x.fired /\ y.stacked = x.stacked
        /\ y.data = x.data /\ y.stack = x.stack /\ y.memory = x.memory
    BY DEF Good, Shape, Fields
  <1>3. /\ z = [field \in Fields |-> z[field]]
        /\ z.disabled = x.disabled /\ z.firing = x.firing /\ z.fired = x.fired /\ z.stacked = x.stacked
        /\ z.data = x.data /\ z.stack = x.stack /\ z.memory = x.memory
    BY DEF Good, Shape, Fields
  <1> HIDE DEF y, z
  <1>4. Good(y, n)
    <2>1. Shape(y)
      BY <1>2 DEF Good, Shape
    <2> QED
      BY <1>2, <2>1, OtherFields
  <1>5. Good(z, n)
    <2>1. Shape(z)
      BY <1>3 DEF Good, Shape
    <2> QED
      BY <1>3, <2>1, OtherFields
  <1> QED
    BY <1>1, <1>4, <1>5 DEF y, z

LEMMA AddGood ==
  ASSUME NEW x, NEW n \in Nat, Good(x, n), NEW o \in Flags, NEW entry
  PROVE  Good(Add(x, o, entry), n)
  <1> DEFINE list == IF o.unique /\ Has(x, entry.fn) THEN x.list ELSE Append(x.list, entry)
             grown == [x EXCEPT !.list = list]
             longer == [grown EXCEPT !.length = Len(list)]
             late == [grown EXCEPT !.start = Len(x.list)]
  <1>1. Add(x, o, entry) = IF x.disabled THEN x
                           ELSE IF x.firing THEN longer
                           ELSE IF x.memory # 0 THEN Begin(late, o, x.memory)
                           ELSE grown
    BY DEF Add
  <1> HIDE DEF list
  <1>2. \A y \in {grown, longer, late} :
        /\ y = [field \in Fields |-> y[field]]
        /\ y.disabled = x.disabled /\ y.firing = x.firing /\ y.fired = x.fired /\ y.stacked = x.stacked
        /\ y.data = x.data /\ y.stack = x.stack /\ y.memory = x.memory
    BY DEF Good, Shape, Fields
  <1> HIDE DEF grown, longer, late
  <1>3. Good(grown, n) /\ Good(longer, n) /\ Good(late, n)
    <2>1. ASSUME NEW y \in {grown, longer, late} PROVE Good(y, n)
      <3>1. Shape(y)
        BY <1>2 DEF Good, Shape
      <3>2. /\ y.disabled = x.disabled /\ y.firing = x.firing /\ y.fired = x.fired /\ y.stacked = x.stacked
            /\ y.data = x.data /\ y.stack = x.stack /\ y.memory = x.memory
        BY <1>2
      <3> QED
        BY <3>1, <3>2, OtherFields
    <2> QED
      BY <2>1
  <1>4. x.memory # 0 => Good(Begin(late, o, x.memory), n)
    <2>1. x.memory # 0 => x.memory = late.data /\ x.memory \in Nat
      BY <1>2 DEF Good, Remembers, Shape
    <2> QED
      BY <2>1, <1>3, BeginGood DEF Good, Queues, UpToDate
  <1> QED
    BY <1>1, <1>3, <1>4

LEMMA FireGood ==
  ASSUME NEW x, NEW n \in Nat, Good(x, n), NEW o \in Flags
  PROVE  Good(FireWith(x, o, n + 1), IF Accepts(x) THEN n + 1 ELSE n)
  <1>1. CASE ~Accepts(x)
    BY <1>1 DEF FireWith
  <1>2. CASE Accepts(x) /\ x.firing
    <2> DEFINE y == [x EXCEPT !.stack = Append(@, n + 1)]
    <2>1. /\ y = [field \in Fields |-> y[field]]
          /\ y.disabled = x.disabled /\ y.firing = x.firing /\ y.fired = x.fired /\ y.stacked = x.stacked
          /\ y.data = x.data /\ y.stack = Append(x.stack, n + 1) /\ y.memory = x.memory
      BY DEF Good, Shape, Fields
    <2>2. x.stacked /\ x.fired
      BY <1>2 DEF Accepts, Good, Queues
    <2>3. /\ x.stack \in Seq(Nat)
          /\ Append(x.stack, n + 1) \in Seq(Nat)
          /\ Append(x.stack, n + 1) # <<>>
          /\ Append(x.stack, n + 1)[Len(Append(x.stack, n + 1))] = n + 1
      <3>1. x.stack \in Seq(Nat) /\ n + 1 \in Nat
        BY DEF Good, Shape
      <3> QED
        BY ONLY <3>1, Appended, Zenon
    <2>4. FireWith(x, o, n + 1) = y
      BY <1>2 DEF FireWith
    <2> QED
      BY <1>2, <2>1, <2>2, <2>3, <2>4 DEF Good, Shape, Queues, Remembers, UpToDate
  <1>3. CASE Accepts(x) /\ ~x.firing
    <2>1. Good(Begin(x, o, n + 1), n + 1)
      BY <1>3, BeginGood DEF Good, Queues
    <2> QED
      BY <1>3, <2>1 DEF FireWith
  <1> QED
    BY <1>1, <1>2, <1>3

LEMMA EndGood ==
  ASSUME NEW x, NEW n \in Nat, Good(x, n), NEW o \in Flags
  PROVE  Good(End(x, o), n)
  <1> DEFINE rest == [x EXCEPT !.firing = FALSE]
             popped == [rest EXCEPT !.stack = Tail(@)]
             bare == [rest EXCEPT !.list = <<>>]
  <1>1. /\ rest = [field \in Fields |-> rest[field]]
        /\ rest.disabled = x.disabled /\ rest.firing = FALSE /\ rest.fired = x.fired /\ rest.stacked = x.stacked
        /\ rest.data = x.data /\ rest.stack = x.stack /\ rest.memory = x.memory
    BY DEF Good, Shape, Fields
  <1>2. /\ bare = [field \in Fields |-> bare[field]]
        /\ bare.disabled = x.disabled /\ bare.firing = FALSE /\ bare.fired = x.fired /\ bare.stacked = x.stacked
        /\ bare.data = x.data /\ bare.stack = x.stack /\ bare.memory = x.memory
    BY DEF Good, Shape, Fields
  <1>3. /\ popped = [field \in Fields |-> popped[field]]
        /\ popped.disabled = x.disabled /\ popped.firing = FALSE /\ popped.fired = x.fired /\ popped.stacked = x.stacked
        /\ popped.data = x.data /\ popped.stack = Tail(x.stack) /\ popped.memory = x.memory
    BY DEF Good, Shape, Fields
  <1>4. x.stack = <<>> => Good(rest, n) /\ Good(bare, n)
    <2> HIDE DEF rest, bare
    <2> QED
      BY <1>1, <1>2 DEF Good, Shape, Queues, Remembers, UpToDate
  <1>5. ASSUME x.stacked, x.stack # <<>>
        PROVE  Good(Begin(popped, o, Head(x.stack)), n)
    <2>1. x.stack \in Seq(Nat) /\ x.stack[Len(x.stack)] = n
      BY <1>5 DEF Good, Shape, UpToDate
    <2>2. Head(x.stack) \in Nat /\ Tail(x.stack) \in Seq(Nat)
      BY <1>5, <2>1, Taken
    <2>3. IF Tail(x.stack) = <<>> THEN Head(x.stack) = n ELSE Tail(x.stack)[Len(Tail(x.stack))] = n
      BY <1>5, <2>1, Taken
    <2> HIDE DEF popped
    <2>4. Shape(popped)
      BY <1>3, <2>2 DEF Good, Shape
    <2> QED
      BY <1>3, <1>5, <2>2, <2>3, <2>4, BeginGood DEF Good, Queues
  <1>6. x.stack = <<>> => Good(Disable(rest), n)
    BY <1>4, DisableGood DEF Good
  <1>7. End(x, o) = CASE x.disabled -> rest
                      [] x.stacked /\ x.stack # <<>> -> Begin(popped, o, Head(x.stack))
                      [] x.stacked /\ x.stack = <<>> -> rest
                      [] ~x.disabled /\ ~x.stacked /\ x.memory # 0 -> bare
                      [] OTHER -> Disable(rest)
    BY DEF End
  <1>8. x.disabled => ~x.stacked
    BY DEF Good, Queues
  <1>9. ~x.stacked => x.stack = <<>>
    BY DEF Good, Queues
  <1> HIDE DEF rest, popped, bare
  <1>10. CASE x.disabled
    BY <1>4, <1>7, <1>8, <1>9, <1>10
  <1>11. CASE ~x.disabled /\ x.stacked /\ x.stack # <<>>
    BY <1>5, <1>7, <1>11
  <1>12. CASE ~x.disabled /\ x.stacked /\ x.stack = <<>>
    BY <1>4, <1>7, <1>12
  <1>13. CASE ~x.disabled /\ ~x.stacked
    BY <1>4, <1>6, <1>7, <1>9, <1>13
  <1> QED
    BY <1>10, <1>11, <1>12, <1>13 DEF Good, Shape

-------------------------------------------------------------------------------
LEMMA InitIInv == ListInit => IInv
  <1> SUFFICES ASSUME ListInit PROVE IInv
    OBVIOUS
  <1>1. options \in Flags /\ l = NewList(options) /\ asked = 0
    BY DEF ListInit
  <1>2. /\ l = [field \in Fields |-> l[field]]
        /\ l.disabled = FALSE /\ l.firing = FALSE /\ l.fired = FALSE /\ l.stacked = ~options.once
        /\ l.data = 0 /\ l.stack = <<>> /\ l.memory = 0
    BY <1>1 DEF NewList, Fields
  <1>3. options.once \in BOOLEAN
    BY <1>1 DEF Flags
  <1>4. <<>> \in Seq(Nat)
    OBVIOUS
  <1> QED
    <2>1. Shape(l)
      <3>1. l.stacked \in BOOLEAN
        BY <1>2, <1>3, Zenon
      <3>2. {l.disabled, l.firing, l.fired, l.stacked} \subseteq BOOLEAN
        BY <1>2, <3>1, Zenon
      <3>3. l.data \in Nat /\ l.stack \in Seq(Nat)
        BY ONLY <1>2, <1>4, 0 \in Nat, Zenon
      <3> QED
        BY <1>2, <3>2, <3>3, Zenon DEF Shape
    <2>2. Queues(l) /\ Remembers(l) /\ UpToDate(l, 0)
      BY <1>2 DEF Queues, Remembers, UpToDate
    <2> QED
      BY <1>1, <2>1, <2>2 DEF IInv, Good

LEMMA StepIInv == IInv /\ [ListNext]_listVars => IInv'
  <1> SUFFICES ASSUME IInv, [ListNext]_listVars PROVE IInv'
    OBVIOUS
  <1> USE DEF IInv
  <1>1. ASSUME NEW fn \in Functions, AddEntry(fn) PROVE IInv'
    BY <1>1, AddGood DEF AddEntry
  <1>2. ASSUME NEW fn \in Functions, RemoveFunction(fn) PROVE IInv'
    BY <1>2, RemoveGood DEF RemoveFunction
  <1>3. CASE EmptyList
    BY <1>3, EmptyGood DEF EmptyList
  <1>4. CASE DisableList
    BY <1>4, DisableGood DEF DisableList, Good
  <1>5. CASE LockList
    BY <1>5, LockGood DEF LockList
  <1>6. CASE FireList
    <2>1. l' = FireWith(l, options, asked + 1) /\ asked' = (IF Accepts(l) THEN asked + 1 ELSE asked) /\ options' = options
      BY <1>6 DEF FireList
    <2> QED
      BY <2>1, FireGood
  <1>7. CASE Call
    BY <1>7 DEF Call
  <1>8. ASSUME NEW false \in BOOLEAN, EntryReturns(false) PROVE IInv'
    <2>1. l' \in {Stop(l), Advance(l)} /\ UNCHANGED <<options, asked>>
      BY <1>8 DEF EntryReturns
    <2> QED
      BY <2>1, StopGood, AdvanceGood
  <1>9. CASE EntryThrows
    BY <1>9 DEF EntryThrows, listHistory
  <1>10. CASE EndListRound
    BY <1>10, EndGood DEF EndListRound
  <1>11. CASE UNCHANGED listVars
    BY <1>11 DEF listVars
  <1> QED
    BY <1>1, <1>2, <1>3, <1>4, <1>5, <1>6, <1>7, <1>8, <1>9, <1>10, <1>11 DEF ListNext, Loop

\* A fire that was accepted is the last in the queue until it is made: for any options,
\* entries, and callbacks that change the list (fireWith, fire, lock, disable).
THEOREM Inductive == ListSpec => []IInv
  <1> QED
    BY InitIInv, StepIInv, PTL DEF ListSpec

\* At rest a list has fired all it accepted, unless it was locked or disabled: a fire
\* from inside a callback is never lost (fireWith, the end of fire).
THEOREM NoFireIsLost == ListSpec => []NothingLeftQueued
  <1>1. IInv => NothingLeftQueued
    BY DEF IInv, Good, Queues, UpToDate, NothingLeftQueued
  <1> QED
    BY <1>1, Inductive, PTL
-------------------------------------------------------------------------------
(* What remove keeps of a list. *)

\* The places of the entries that stay, and how many of the first i entries stay and go.
Staying(x, fn)  == {k \in 1..Len(x.list) : x.list[k].fn # fn}
Rank(x, fn, i)  == Cardinality({k \in Staying(x, fn) : k <= i})
Gone(x, fn, i)  == Cardinality({k \in Places(x, fn) : k <= i})

LEMMA Finite ==
  ASSUME NEW x, Len(x.list) \in Nat, NEW fn, NEW i
  PROVE  /\ IsFiniteSet(Staying(x, fn)) /\ IsFiniteSet(Places(x, fn))
         /\ IsFiniteSet({k \in Staying(x, fn) : k <= i}) /\ IsFiniteSet({k \in Places(x, fn) : k <= i})
  <1>1. IsFiniteSet(1..Len(x.list))
    BY FS_Interval
  <1>2. /\ Staying(x, fn) \in SUBSET (1..Len(x.list)) /\ Places(x, fn) \in SUBSET (1..Len(x.list))
        /\ {k \in Staying(x, fn) : k <= i} \in SUBSET (1..Len(x.list))
        /\ {k \in Places(x, fn) : k <= i} \in SUBSET (1..Len(x.list))
    BY DEF Staying, Places
  <1> QED
    BY <1>1, <1>2, FS_Subset

LEMMA Counts ==
  ASSUME NEW x, Len(x.list) \in Nat, NEW fn, NEW i \in Nat
  PROVE  /\ Rank(x, fn, i) \in Nat /\ Gone(x, fn, i) \in Nat
         /\ Cardinality(Staying(x, fn)) \in Nat /\ Cardinality(Places(x, fn)) \in Nat
         /\ i <= Len(x.list) => Rank(x, fn, i) + Gone(x, fn, i) = i
         /\ i >= Len(x.list) => Rank(x, fn, i) = Cardinality(Staying(x, fn)) /\ Gone(x, fn, i) = Cardinality(Places(x, fn))
  <1> DEFINE A == {k \in Staying(x, fn) : k <= i}
             B == {k \in Places(x, fn) : k <= i}
  <1>1. IsFiniteSet(A) /\ IsFiniteSet(B)
    BY Finite
  <1>2. Rank(x, fn, i) \in Nat /\ Gone(x, fn, i) \in Nat
    BY <1>1, FS_CardinalityType DEF Rank, Gone
  <1>3. Cardinality(Staying(x, fn)) \in Nat /\ Cardinality(Places(x, fn)) \in Nat
    BY Finite, FS_CardinalityType
  <1>4. ASSUME i <= Len(x.list) PROVE Rank(x, fn, i) + Gone(x, fn, i) = i
    <2>1. A \cup B = 1..i /\ A \cap B = {}
      BY <1>4 DEF Staying, Places
    <2>2. Cardinality(1..i) = i
      BY FS_Interval
    <2>3. Cardinality(A \cup B) = Cardinality(A) + Cardinality(B) - Cardinality(A \cap B)
      BY <1>1, FS_Union
    <2>4. Cardinality(A \cap B) = 0
      BY <2>1, FS_EmptySet
    <2>5. Rank(x, fn, i) = Cardinality(A) /\ Gone(x, fn, i) = Cardinality(B)
      BY DEF Rank, Gone
    <2>6. i = Cardinality(A) + Cardinality(B) - 0
      BY <2>1, <2>2, <2>3, <2>4
    <2> HIDE DEF A, B
    <2> QED
      BY <1>2, <2>5, <2>6
  <1>5. ASSUME i >= Len(x.list) PROVE A = Staying(x, fn) /\ B = Places(x, fn)
    BY <1>5 DEF Staying, Places
  <1> QED
    BY <1>2, <1>3, <1>4, <1>5 DEF Rank, Gone

LEMMA StayOrGo ==
  ASSUME NEW x, NEW N \in Nat, N = Len(x.list), NEW fn
  PROVE  /\ Cardinality(Staying(x, fn)) + Cardinality(Places(x, fn)) = N
         /\ Cardinality(Places(x, fn)) \in Nat /\ Cardinality(Staying(x, fn)) \in Nat
  <1>1. /\ Cardinality(Staying(x, fn)) \in Nat /\ Cardinality(Places(x, fn)) \in Nat
        /\ Rank(x, fn, N) + Gone(x, fn, N) = N
        /\ Rank(x, fn, N) = Cardinality(Staying(x, fn)) /\ Gone(x, fn, N) = Cardinality(Places(x, fn))
    BY Counts
  <1> QED
    BY <1>1

\* The rank of a place grows with it, and at every place that stays.
LEMMA RankGrows ==
  ASSUME NEW x, Len(x.list) \in Nat, NEW fn, NEW i \in Nat, NEW j \in Nat, i <= j
  PROVE  /\ Rank(x, fn, i) <= Rank(x, fn, j)
         /\ i < j /\ j \in Staying(x, fn) => Rank(x, fn, i) < Rank(x, fn, j)
  <1> DEFINE A(n) == {k \in Staying(x, fn) : k <= n}
  <1>1. IsFiniteSet(A(j))
    BY Finite
  <1>2. A(i) \in SUBSET A(j)
    BY DEF Staying
  <1>3. Cardinality(A(i)) <= Cardinality(A(j)) /\ (Cardinality(A(i)) = Cardinality(A(j)) => A(i) = A(j))
    BY <1>1, <1>2, FS_Subset
  <1>4. i < j /\ j \in Staying(x, fn) => A(i) # A(j)
    OBVIOUS
  <1>5. Cardinality(A(i)) \in Nat /\ Cardinality(A(j)) \in Nat
    BY Counts DEF Rank
  <1> QED
    BY <1>3, <1>4, <1>5 DEF Rank

\* ... and is one of 1, 2, ... as many as stay, each of which is taken.
LEMMA RankIsPlace ==
  ASSUME NEW x, Len(x.list) \in Nat, NEW fn
  PROVE  /\ \A i \in Staying(x, fn) : Rank(x, fn, i) \in 1..Cardinality(Staying(x, fn))
         /\ \A k \in 1..Cardinality(Staying(x, fn)) : \E i \in Staying(x, fn) : Rank(x, fn, i) = k
  <1> DEFINE S == Staying(x, fn)
             T == 1..Cardinality(S)
             f == [i \in S |-> Rank(x, fn, i)]
  <1>1. S \subseteq 1..Len(x.list) /\ S \subseteq Nat
    BY DEF Staying
  <1>2. Cardinality(S) \in Nat /\ IsFiniteSet(S)
    BY Finite, FS_CardinalityType
  <1>3. ASSUME NEW i \in S PROVE Rank(x, fn, i) \in T
    <2>1. i \in Nat /\ i >= 1 /\ i <= Len(x.list)
      BY <1>1
    <2>2. Rank(x, fn, 0) < Rank(x, fn, i)
      BY <2>1, RankGrows
    <2>3. Rank(x, fn, i) <= Rank(x, fn, Len(x.list))
      BY <2>1, RankGrows
    <2>4. Rank(x, fn, Len(x.list)) = Cardinality(S)
      BY Counts
    <2> QED
      BY <1>2, <2>1, <2>2, <2>3, <2>4, Counts
  <1>4. f \in Injection(S, T)
    <2>1. f \in [S -> T]
      BY <1>3
    <2>2. ASSUME NEW i \in S, NEW j \in S, i # j PROVE Rank(x, fn, i) # Rank(x, fn, j)
      <3>1. i \in Nat /\ j \in Nat
        BY <1>1
      <3>2. i < j => Rank(x, fn, i) < Rank(x, fn, j)
        BY <3>1, RankGrows
      <3>3. j < i => Rank(x, fn, j) < Rank(x, fn, i)
        BY <3>1, RankGrows
      <3>4. Rank(x, fn, i) \in Nat /\ Rank(x, fn, j) \in Nat
        BY <3>1, Counts
      <3> QED
        BY <2>2, <3>1, <3>2, <3>3, <3>4
    <2> QED
      BY <2>1, <2>2 DEF Injection, IsInjective
  <1>5. IsFiniteSet(T) /\ Cardinality(T) = Cardinality(S)
    BY <1>2, FS_Interval
  <1>6. f \in Surjection(S, T)
    BY <1>4, <1>5, FS_Injection
  <1>7. \A k \in T : \E i \in S : f[i] = k
    BY <1>6 DEF Surjection
  <1> QED
    BY <1>3, <1>7

LEMMA KeptIs ==
  ASSUME NEW x, Len(x.list) \in Nat, NEW fn
  PROVE  /\ DOMAIN Kept(x, fn) = 1..Cardinality(Staying(x, fn))
         /\ Len(Kept(x, fn)) = Cardinality(Staying(x, fn))
         /\ \A i \in Staying(x, fn) : Kept(x, fn)[Rank(x, fn, i)] = x.list[i]
         /\ \A k \in 1..Cardinality(Staying(x, fn)) :
                \E i \in Staying(x, fn) : Rank(x, fn, i) = k /\ Kept(x, fn)[k] = x.list[i]
  <1> DEFINE n == Cardinality(Staying(x, fn))
             nth(k) == CHOOSE i \in Staying(x, fn) : Rank(x, fn, i) = k
  <1>1. Kept(x, fn) = [k \in 1..n |-> x.list[nth(k)]]
    BY DEF Kept, Staying, Rank
  <1>2. n \in Nat
    BY Counts, 0 \in Nat
  <1>3. \A k \in 1..n : nth(k) \in Staying(x, fn) /\ Rank(x, fn, nth(k)) = k
    BY RankIsPlace
  <1>4. ASSUME NEW i \in Staying(x, fn) PROVE nth(Rank(x, fn, i)) = i
    <2>1. Rank(x, fn, i) \in 1..n
      BY RankIsPlace
    <2> DEFINE j == nth(Rank(x, fn, i))
    <2>2. j \in Staying(x, fn) /\ Rank(x, fn, j) = Rank(x, fn, i)
      BY <1>3, <2>1
    <2> HIDE DEF j
    <2>3. i \in Nat /\ j \in Nat
      BY <2>2 DEF Staying
    <2>4. ~(i < j) /\ ~(j < i)
      BY <2>2, <2>3, RankGrows, Counts
    <2> QED
      BY <2>3, <2>4 DEF j
  <1> HIDE DEF nth
  <1>5. \A k \in 1..n : Kept(x, fn)[k] = x.list[nth(k)]
    BY <1>1
  <1>6. Len(Kept(x, fn)) = n
    BY <1>1, <1>2
  <1> QED
    BY <1>1, <1>3, <1>4, <1>5, <1>6, RankIsPlace
\* Where an entry that stays is afterwards: behind the place of the round if it was.
LEMMA KeptMoves ==
  ASSUME NEW x, Len(x.list) \in Nat, NEW fn, NEW at \in Nat, NEW to, to = at - Gone(x, fn, at)
  PROVE  /\ to \in Nat /\ to <= at
         /\ \A k \in 1..Len(Kept(x, fn)) : \E i \in Staying(x, fn) :
                /\ Kept(x, fn)[k] = x.list[i] /\ Rank(x, fn, i) = k
                /\ k > to => i > at
                /\ at <= Len(x.list) /\ k <= to => i <= at
         /\ at <= Len(x.list) =>
                /\ to <= Len(Kept(x, fn))
                /\ \A i \in Staying(x, fn) : i > at =>
                       \E k \in 1..Len(Kept(x, fn)) : k > to /\ Kept(x, fn)[k] = x.list[i]
  <1> DEFINE n == Cardinality(Staying(x, fn))
             N == Len(x.list)
  <1>1. /\ Rank(x, fn, at) \in Nat /\ Gone(x, fn, at) \in Nat /\ n \in Nat
        /\ at <= N => to = Rank(x, fn, at)
        /\ at >= N => Rank(x, fn, at) = n /\ Gone(x, fn, at) = Cardinality(Places(x, fn))
    <2>1. /\ Rank(x, fn, at) \in Nat /\ Gone(x, fn, at) \in Nat /\ n \in Nat
          /\ at <= N => Rank(x, fn, at) + Gone(x, fn, at) = at
          /\ at >= N => Rank(x, fn, at) = n /\ Gone(x, fn, at) = Cardinality(Places(x, fn))
      BY Counts
    <2> HIDE DEF n, N
    <2> QED
      BY <2>1
  <1>2. n + Cardinality(Places(x, fn)) = N /\ Cardinality(Places(x, fn)) \in Nat
    BY StayOrGo
  <1>3. at > N => to >= n
    BY <1>1, <1>2
  <1>4. to \in Nat /\ to <= at
    BY <1>1, <1>3
  <1>5. Len(Kept(x, fn)) = n
    BY KeptIs
  <1>6. \A i \in Staying(x, fn) : i \in Nat /\ i <= N
    BY DEF Staying
  <1>7. ASSUME NEW i \in Staying(x, fn), at <= N
        PROVE  Rank(x, fn, i) > to <=> i > at
    <2>1. i > at => Rank(x, fn, at) < Rank(x, fn, i)
      BY <1>6, RankGrows
    <2>2. i <= at => Rank(x, fn, i) <= Rank(x, fn, at)
      BY <1>6, RankGrows
    <2>3. Rank(x, fn, i) \in Nat
      BY <1>6, Counts
    <2> QED
      BY <1>1, <1>6, <1>7, <2>1, <2>2, <2>3
  <1>8. ASSUME NEW k \in 1..Len(Kept(x, fn))
        PROVE  \E i \in Staying(x, fn) :
                   /\ Kept(x, fn)[k] = x.list[i] /\ Rank(x, fn, i) = k
                   /\ k > to => i > at
                   /\ at <= N /\ k <= to => i <= at
    <2>1. PICK i \in Staying(x, fn) : Rank(x, fn, i) = k /\ Kept(x, fn)[k] = x.list[i]
      BY <1>5, KeptIs
    <2>2. CASE at <= N
      BY <1>4, <1>6, <1>7, <2>1, <2>2
    <2>3. CASE at > N
      BY <1>1, <1>3, <1>4, <1>5, <2>1, <2>3
    <2> QED
      BY <2>2, <2>3
  <1>9. ASSUME NEW i \in Staying(x, fn), i > at, at <= N
        PROVE  \E k \in 1..Len(Kept(x, fn)) : k > to /\ Kept(x, fn)[k] = x.list[i]
    BY <1>5, <1>7, <1>9, RankIsPlace, KeptIs
  <1>10. at <= N => to <= n
    <2>1. at <= N => Rank(x, fn, at) <= Rank(x, fn, N)
      BY RankGrows
    <2> QED
      BY <1>1, <2>1, Counts
  <1> QED
    BY <1>4, <1>5, <1>8, <1>9, <1>10

\* What is kept is of the list, in its order, each entry once.
LEMMA KeptOnce ==
  ASSUME NEW x, NEW S, x.list \in Seq(S), NEW fn
  PROVE  /\ Kept(x, fn) \in Seq(S)
         /\ Len(Kept(x, fn)) + Cardinality(Places(x, fn)) = Len(x.list)
         /\ Cardinality(Places(x, fn)) \in Nat /\ Len(Kept(x, fn)) \in Nat
  <1> DEFINE n == Cardinality(Staying(x, fn))
             kept == Kept(x, fn)
  <1>1. Len(x.list) \in Nat /\ \A i \in 1..Len(x.list) : x.list[i] \in S
    OBVIOUS
  <1>2. n + Cardinality(Places(x, fn)) = Len(x.list) /\ Cardinality(Places(x, fn)) \in Nat /\ n \in Nat
    BY <1>1, StayOrGo
  <1>3. Len(kept) = n /\ \A k \in 1..n : kept[k] \in S
    BY <1>1, KeptIs DEF Staying
  <1>4. kept = [k \in 1..n |-> kept[k]]
    BY DEF Kept, Staying
  <1> HIDE DEF kept, n
  <1>5. [k \in 1..n |-> kept[k]] \in Seq(S)
    BY <1>2, <1>3
  <1> QED
    BY <1>2, <1>3, <1>4, <1>5 DEF n, kept


-------------------------------------------------------------------------------
(* What each method does to the entries and the place of the round. *)

LEMMA BeginIs ==
  ASSUME NEW x, Shape(x), NEW o, NEW d, NEW y, y = Begin(x, o, d)
  PROVE  /\ y.list = x.list /\ (y.disabled <=> x.disabled) /\ y.firing /\ y.data = d
         /\ y.memory \in {0, d}
         /\ y.at = x.start + 1 /\ y.length = Len(x.list) /\ y.start = 0
  BY DEF Begin, Shape, Fields

LEMMA DisableIs ==
  ASSUME NEW x, Shape(x), NEW y, y = Disable(x)
  PROVE  /\ y.list = <<>> /\ y.disabled /\ (y.firing <=> x.firing) /\ y.data = x.data /\ y.memory = 0
         /\ y.at = x.at /\ y.length = x.length /\ y.start = x.start
  BY DEF Disable, Shape, Fields

LEMMA LockIs ==
  ASSUME NEW x, Shape(x), NEW y, y = Lock(x)
  PROVE  /\ y.list = (IF x.memory = 0 THEN <<>> ELSE x.list)
         /\ (y.disabled <=> x.memory = 0 \/ x.disabled)
         /\ (y.firing <=> x.firing) /\ y.data = x.data /\ y.memory = x.memory
         /\ y.at = x.at /\ y.length = x.length /\ y.start = x.start
  BY DEF Lock, Disable, Shape, Fields

LEMMA EmptyIs ==
  ASSUME NEW x, Shape(x), NEW y, y = Empty(x)
  PROVE  /\ y.list = <<>> /\ y.disabled = FALSE /\ (y.firing <=> x.firing) /\ y.data = x.data /\ y.memory = x.memory
         /\ y.at = x.at /\ y.length = x.length /\ y.start = x.start
  BY DEF Empty, Shape, Fields

LEMMA ReturnIs ==
  ASSUME NEW x, Shape(x), NEW y, y = Stop(x) \/ y = Advance(x)
  PROVE  /\ y.list = x.list /\ (y.disabled <=> x.disabled) /\ (y.firing <=> x.firing) /\ y.data = x.data
         /\ y.length = x.length /\ y.start = x.start
         /\ y = Stop(x) => y.memory = 0 /\ y.at = x.length + 1
         /\ y = Advance(x) => y.memory = x.memory /\ y.at = x.at + 1
  <1>1. CASE y = Stop(x)
    BY <1>1 DEF Stop, Advance, Shape, Fields
  <1>2. CASE y = Advance(x)
    BY <1>2 DEF Stop, Advance, Shape, Fields
  <1> QED
    BY <1>1, <1>2

LEMMA RemoveIs ==
  ASSUME NEW x, Shape(x), NEW fn, NEW y, y = Remove(x, fn)
  PROVE  /\ (y.disabled <=> x.disabled) /\ (y.firing <=> x.firing) /\ y.data = x.data /\ y.memory = x.memory
         /\ y.start = x.start
         /\ y.list = (IF x.disabled THEN x.list ELSE Kept(x, fn))
         /\ y.at = (IF x.disabled \/ ~x.firing THEN x.at ELSE x.at - Gone(x, fn, x.at))
         /\ y.length = (IF x.disabled \/ ~x.firing THEN x.length ELSE x.length - Cardinality(Places(x, fn)))
  <1> DEFINE kept == Kept(x, fn)
             len  == x.length - Cardinality(Places(x, fn))
             at   == x.at - Gone(x, fn, x.at)
  <1>1. y = IF x.disabled THEN x
            ELSE IF ~x.firing THEN [x EXCEPT !.list = kept]
            ELSE [x EXCEPT !.list = kept, !.length = len, !.at = at]
    BY DEF Remove, Gone
  <1> HIDE DEF kept, len, at
  <1>2. /\ (y.disabled <=> x.disabled) /\ (y.firing <=> x.firing) /\ y.data = x.data /\ y.memory = x.memory
        /\ y.start = x.start
        /\ y.list = (IF x.disabled THEN x.list ELSE kept)
        /\ y.at = (IF x.disabled \/ ~x.firing THEN x.at ELSE at)
        /\ y.length = (IF x.disabled \/ ~x.firing THEN x.length ELSE len)
    BY <1>1 DEF Shape, Fields
  <1> QED
    BY <1>2 DEF kept, len, at

\* The list after add: the entry is at its end, unless its function is there already.
Grown(x, o, entry) == IF x.disabled \/ (o.unique /\ Has(x, entry.fn)) THEN x.list ELSE Append(x.list, entry)

LEMMA AddIs ==
  ASSUME NEW x, Shape(x), NEW o, NEW entry, NEW y, y = Add(x, o, entry)
  PROVE  /\ y.list = Grown(x, o, entry) /\ (y.disabled <=> x.disabled) /\ y.data \in {x.data, x.memory}
         /\ x.disabled \/ x.firing \/ x.memory = 0 =>
                (y.firing <=> x.firing) /\ y.at = x.at /\ y.memory = x.memory /\ y.start = x.start /\ y.data = x.data
         /\ y.length = (IF x.disabled \/ (~x.firing /\ x.memory = 0) THEN x.length ELSE Len(y.list))
         /\ ~x.disabled /\ ~x.firing /\ x.memory # 0 =>
                /\ y.firing /\ y.at = Len(x.list) + 1 /\ y.start = 0
                /\ y.data = x.memory /\ y.memory \in {0, x.memory}
  <1> DEFINE list  == IF o.unique /\ Has(x, entry.fn) THEN x.list ELSE Append(x.list, entry)
             grown == [x EXCEPT !.list = list]
             late  == [grown EXCEPT !.start = Len(x.list)]
  <1>1. y = IF x.disabled THEN x
            ELSE IF x.firing THEN [grown EXCEPT !.length = Len(list)]
            ELSE IF x.memory # 0 THEN Begin(late, o, x.memory)
            ELSE grown
    BY DEF Add
  <1>2. ~x.disabled => Grown(x, o, entry) = list
    BY DEF Grown
  <1>3. x.disabled => Grown(x, o, entry) = x.list
    BY DEF Grown
  <1> HIDE DEF list
  <1>4. /\ grown.list = list /\ (grown.disabled <=> x.disabled) /\ (grown.firing <=> x.firing) /\ grown.data = x.data
        /\ grown.memory = x.memory /\ grown.at = x.at /\ grown.length = x.length /\ grown.start = x.start
    BY DEF Shape, Fields
  <1>5. CASE x.disabled
    BY <1>1, <1>3, <1>5
  <1>6. CASE ~x.disabled /\ x.firing
    BY <1>1, <1>2, <1>6 DEF Shape, Fields
  <1>7. CASE ~x.disabled /\ ~x.firing /\ x.memory # 0
    <2>1. Shape(late) /\ late.list = list /\ (late.disabled <=> x.disabled) /\ late.start = Len(x.list)
      BY DEF Shape, Fields
    <2> HIDE DEF late, grown
    <2>2. y = Begin(late, o, x.memory)
      BY <1>1, <1>7
    <2>3. /\ y.list = late.list /\ (y.disabled <=> late.disabled) /\ y.firing /\ y.data = x.memory
          /\ y.memory \in {0, x.memory}
          /\ y.at = late.start + 1 /\ y.length = Len(late.list) /\ y.start = 0
      BY <2>1, <2>2, BeginIs
    <2> QED
      BY <1>2, <1>7, <2>1, <2>3
  <1>8. CASE ~x.disabled /\ ~x.firing /\ x.memory = 0
    BY <1>1, <1>2, <1>4, <1>8
  <1> QED
    BY <1>5, <1>6, <1>7, <1>8 DEF Shape

LEMMA FireIs ==
  ASSUME NEW x, Shape(x), NEW o, NEW d, NEW y, y = FireWith(x, o, d)
  PROVE  /\ y.list = x.list /\ (y.disabled <=> x.disabled)
         /\ ~Accepts(x) \/ x.firing =>
                /\ (y.firing <=> x.firing) /\ y.at = x.at /\ y.memory = x.memory /\ y.start = x.start
                /\ y.data = x.data /\ y.length = x.length
         /\ Accepts(x) /\ ~x.firing =>
                /\ y.firing /\ y.at = x.start + 1 /\ y.start = 0 /\ y.length = Len(x.list)
                /\ y.data = d /\ y.memory \in {0, d}
  <1>1. CASE ~Accepts(x)
    BY <1>1 DEF FireWith
  <1>2. CASE Accepts(x) /\ x.firing
    BY <1>2 DEF FireWith, Shape, Fields
  <1>3. CASE Accepts(x) /\ ~x.firing
    <2>1. y = Begin(x, o, d)
      BY <1>3 DEF FireWith
    <2>2. /\ y.list = x.list /\ (y.disabled <=> x.disabled) /\ y.firing /\ y.data = d
          /\ y.memory \in {0, d}
          /\ y.at = x.start + 1 /\ y.length = Len(x.list) /\ y.start = 0
      BY <2>1, BeginIs
    <2> QED
      BY <1>3, <2>2
  <1> QED
    BY <1>1, <1>2, <1>3 DEF Shape

LEMMA EndIs ==
  ASSUME NEW x, Shape(x), Queues(x), x.start = 0, NEW o, NEW y, y = End(x, o)
  PROVE  /\ y.start = 0
         /\ y.firing => /\ y.list = x.list /\ (y.disabled <=> x.disabled) /\ ~y.disabled /\ y.at = 1
                        /\ y.length = Len(x.list) /\ y.memory \in {0, y.data}
         /\ ~y.firing => /\ y.at = x.at /\ y.length = x.length /\ y.data = x.data
                         /\ y.list \in {x.list, <<>>}
                         /\ y.disabled => x.disabled \/ (y.list = <<>> /\ y.memory = 0)
                         /\ x.disabled => y.disabled
                         /\ y.memory \in {0, x.memory}
                         /\ y.disabled /\ x.disabled => y.list = x.list /\ y.memory = x.memory
  <1> DEFINE rest == [x EXCEPT !.firing = FALSE]
             popped == [rest EXCEPT !.stack = Tail(@)]
             bare == [rest EXCEPT !.list = <<>>]
  <1>1. y = CASE x.disabled -> rest
              [] x.stacked /\ x.stack # <<>> -> Begin(popped, o, Head(x.stack))
              [] x.stacked /\ x.stack = <<>> -> rest
              [] ~x.disabled /\ ~x.stacked /\ x.memory # 0 -> bare
              [] OTHER -> Disable(rest)
    BY DEF End
  <1>2. /\ Shape(rest)
        /\ rest.list = x.list /\ (rest.disabled <=> x.disabled) /\ ~rest.firing /\ rest.data = x.data
        /\ rest.memory = x.memory /\ rest.at = x.at /\ rest.length = x.length /\ rest.start = x.start
    BY DEF Shape, Fields
  <1>3. /\ bare.list = <<>> /\ (bare.disabled <=> x.disabled) /\ ~bare.firing /\ bare.data = x.data
        /\ bare.memory = x.memory /\ bare.at = x.at /\ bare.length = x.length /\ bare.start = x.start
    BY DEF Shape, Fields
  <1>4. CASE x.disabled
    <2> HIDE DEF popped, rest, bare
    <2>1. y = rest
      BY <1>1, <1>4 DEF Queues
    <2> QED
      BY <1>2, <1>4, <2>1
  <1>5. CASE ~x.disabled /\ x.stacked /\ x.stack # <<>>
    <2>1. x.stack \in Seq(Nat)
      BY DEF Shape
    <2>2. Head(x.stack) \in Nat /\ Tail(x.stack) \in Seq(Nat)
      BY <1>5, <2>1, Taken
    <2>3. Shape(popped) /\ popped.list = x.list /\ (popped.disabled <=> x.disabled) /\ popped.start = x.start
      BY <2>2 DEF Shape, Fields
    <2> HIDE DEF popped, rest, bare
    <2>4. y = Begin(popped, o, Head(x.stack))
      BY <1>1, <1>5
    <2>5. /\ y.list = popped.list /\ (y.disabled <=> popped.disabled) /\ y.firing /\ y.data = Head(x.stack)
          /\ y.memory \in {0, Head(x.stack)}
          /\ y.at = popped.start + 1 /\ y.length = Len(popped.list) /\ y.start = 0
      BY <2>3, <2>4, BeginIs
    <2> QED
      BY <1>5, <2>3, <2>5
  <1>6. CASE ~x.disabled /\ x.stacked /\ x.stack = <<>>
    BY <1>1, <1>2, <1>6
  <1>7. CASE ~x.disabled /\ ~x.stacked /\ x.memory # 0
    <2> HIDE DEF popped, rest, bare
    <2> QED
      BY <1>1, <1>3, <1>7
  <1>8. CASE ~x.disabled /\ ~x.stacked /\ x.memory = 0
    <2> HIDE DEF popped, rest, bare
    <2>1. y = Disable(rest)
      BY <1>1, <1>8
    <2>2. /\ y.list = <<>> /\ y.disabled /\ (y.firing <=> rest.firing) /\ y.data = rest.data /\ y.memory = 0
          /\ y.at = rest.at /\ y.length = rest.length /\ y.start = rest.start
      BY <1>2, <2>1, DisableIs
    <2> QED
      BY <1>2, <1>8, <2>2
  <1> QED
    BY <1>4, <1>5, <1>6, <1>7, <1>8 DEF Shape
-------------------------------------------------------------------------------
(* The entries of a round. *)

Entries == [fn : Functions, n : 1..MaxEntries]

\* The first place whose entry the round has not called.
Ahead == IF running THEN l.at + 1 ELSE l.at

RoundTypes ==
    /\ l.list \in Seq(Entries)
    /\ l.at \in Nat /\ l.length \in Nat /\ l.start = 0
    /\ l.firing => Len(l.list) <= l.length
    /\ running \in BOOLEAN /\ threw \in BOOLEAN
    /\ added \in 0..MaxEntries
    /\ called \in Seq(1..MaxEntries)

\* No two entries of a list have the same number, and every number was given.
Distinct(list) == \A i, j \in 1..Len(list) : list[i].n = list[j].n => i = j
Given(list, a) == \A i \in 1..Len(list) : list[i].n <= a
Numbered == Distinct(l.list) /\ Given(l.list, added)

\* An entry is called only in a round whose loop goes on; a loop left by a throw stays open.
Turns == /\ running => l.firing /\ ~threw
         /\ threw => l.firing

\* What is called was given a number, and nothing from Ahead on was called in this round.
NotYet == /\ \A c \in 1..Len(called) : called[c] <= added
          /\ l.firing /\ ~threw =>
                \A k \in 1..Len(l.list), c \in 1..Len(called) : k >= Ahead => l.list[k].n # called[c]

RoundInv == RoundTypes /\ Numbered /\ Turns /\ CalledOnce /\ NotYet

LEMMA KeptDistinct ==
  ASSUME NEW x, x.list \in Seq(Entries), NEW fn, Distinct(x.list), NEW a, Given(x.list, a)
  PROVE  Distinct(Kept(x, fn)) /\ Given(Kept(x, fn), a)
  <1>1. Len(x.list) \in Nat
    OBVIOUS
  <1>2. \A k \in 1..Len(Kept(x, fn)) : \E i \in 1..Len(x.list) :
            Rank(x, fn, i) = k /\ Kept(x, fn)[k] = x.list[i]
    <2>1. /\ Len(Kept(x, fn)) = Cardinality(Staying(x, fn))
          /\ \A k \in 1..Cardinality(Staying(x, fn)) :
                 \E i \in Staying(x, fn) : Rank(x, fn, i) = k /\ Kept(x, fn)[k] = x.list[i]
      BY <1>1, KeptIs
    <2>2. Staying(x, fn) \subseteq 1..Len(x.list)
      BY DEF Staying
    <2> QED
      BY <2>1, <2>2
  <1>3. Given(Kept(x, fn), a)
    BY <1>2 DEF Given
  <1>4. Distinct(Kept(x, fn))
    <2> SUFFICES ASSUME NEW j \in 1..Len(Kept(x, fn)), NEW k \in 1..Len(Kept(x, fn)),
                        Kept(x, fn)[j].n = Kept(x, fn)[k].n
                 PROVE  j = k
      BY DEF Distinct
    <2>1. PICK i \in 1..Len(x.list) : Rank(x, fn, i) = j /\ Kept(x, fn)[j] = x.list[i]
      BY <1>2
    <2>2. PICK h \in 1..Len(x.list) : Rank(x, fn, h) = k /\ Kept(x, fn)[k] = x.list[h]
      BY <1>2
    <2>3. x.list[i].n = x.list[h].n
      BY <2>1, <2>2
    <2>4. i = h
      BY <2>3 DEF Distinct
    <2> QED
      BY <2>1, <2>2, <2>4
  <1> QED
    BY <1>3, <1>4

\* An entry under a number not given yet.
LEMMA GrownDistinct ==
  ASSUME NEW list \in Seq(Entries), NEW a \in Nat, Distinct(list), Given(list, a),
         NEW entry \in Entries, entry.n = a + 1
  PROVE  /\ Append(list, entry) \in Seq(Entries) /\ Len(Append(list, entry)) = Len(list) + 1
         /\ \A i \in 1..Len(list) : Append(list, entry)[i] = list[i]
         /\ Append(list, entry)[Len(list) + 1] = entry
         /\ Distinct(Append(list, entry)) /\ Given(Append(list, entry), a + 1)
  <1> DEFINE longer == Append(list, entry)
  <1>1. /\ longer \in Seq(Entries) /\ Len(longer) = Len(list) + 1 /\ Len(list) \in Nat
        /\ \A i \in 1..Len(list) : longer[i] = list[i]
        /\ longer[Len(list) + 1] = entry
    OBVIOUS
  <1> HIDE DEF longer
  <1>2. \A i \in 1..Len(list) : list[i].n <= a /\ list[i].n \in Nat
    <2>1. \A i \in 1..Len(list) : list[i] \in Entries
      OBVIOUS
    <2>2. \A e \in Entries : e.n \in Nat
      BY DEF Entries
    <2> QED
      BY <2>1, <2>2 DEF Given
  <1>3. \A i \in 1..Len(longer) : i \in 1..Len(list) \/ i = Len(list) + 1
    BY <1>1
  <1>4. \A i \in 1..Len(list) : longer[i].n = list[i].n
    BY <1>1
  <1>5. longer[Len(list) + 1].n = a + 1
    BY <1>1
  <1>6. Given(longer, a + 1)
    <2> SUFFICES ASSUME NEW i \in 1..Len(longer) PROVE longer[i].n <= a + 1
      BY DEF Given
    <2> QED
      BY <1>2, <1>3, <1>4, <1>5
  <1>7. Distinct(longer)
    <2> SUFFICES ASSUME NEW i \in 1..Len(longer), NEW j \in 1..Len(longer), longer[i].n = longer[j].n
                 PROVE  i = j
      BY DEF Distinct
    <2>1. CASE i \in 1..Len(list) /\ j \in 1..Len(list)
      BY <1>4, <2>1 DEF Distinct
    <2>2. CASE i \in 1..Len(list) /\ j = Len(list) + 1
      BY <1>2, <1>4, <1>5, <2>2
    <2>3. CASE j \in 1..Len(list) /\ i = Len(list) + 1
      BY <1>2, <1>4, <1>5, <2>3
    <2> QED
      BY <1>3, <2>1, <2>2, <2>3
  <1> QED
    BY <1>1, <1>6, <1>7 DEF longer

\* A step that calls nothing and keeps the entries and what is ahead, or leaves no entry.
LEMMA Quiet ==
  ASSUME RoundInv, UNCHANGED <<called, added>>, l'.list \in {l.list, <<>>},
         l'.firing /\ ~threw' => /\ l.firing /\ ~threw
                                 /\ \A k \in 1..Len(l'.list) : k >= Ahead' => k >= Ahead
  PROVE  /\ l'.list \in Seq(Entries) /\ Len(l'.list) \in Nat /\ Len(l'.list) <= Len(l.list)
         /\ Numbered' /\ CalledOnce' /\ NotYet'
  <1>1. Len(<<>>) = 0 /\ <<>> \in Seq(Entries)
    OBVIOUS
  <1>2. l.list \in Seq(Entries) /\ Len(l.list) \in Nat
    BY DEF RoundInv, RoundTypes
  <1>3. Numbered'
    BY <1>1 DEF RoundInv, Numbered, Distinct, Given
  <1>4. CalledOnce'
    BY DEF RoundInv, CalledOnce
  <1>5. NotYet'
    <2>1. ASSUME l'.firing /\ ~threw', NEW k \in 1..Len(l'.list), NEW c \in 1..Len(called), k >= Ahead'
          PROVE  l'.list[k].n # called[c]
      <3>1. l'.list = l.list
        BY <1>1
      <3>2. l.firing /\ ~threw /\ k >= Ahead
        BY <2>1
      <3> QED
        BY <3>1, <3>2 DEF RoundInv, NotYet
    <2> QED
      BY <2>1 DEF RoundInv, NotYet
  <1>6. l'.list \in Seq(Entries) /\ Len(l'.list) \in Nat /\ Len(l'.list) <= Len(l.list)
    <2>1. CASE l'.list = l.list
      BY <1>2, <2>1
    <2>2. CASE l'.list = <<>>
      BY <1>1, <1>2, <2>2
    <2> QED
      BY <2>1, <2>2
  <1> QED
    BY <1>3, <1>4, <1>5, <1>6

\* A step that starts a round.
LEMMA Anew ==
  ASSUME RoundInv, added' \in Nat, added' >= added, called' = <<>>
  PROVE  CalledOnce' /\ NotYet' /\ called' \in Seq(1..MaxEntries)
  <1>1. Len(<<>>) = 0 /\ <<>> \in Seq(1..MaxEntries)
    OBVIOUS
  <1> QED
    BY <1>1 DEF CalledOnce, NotYet
LEMMA AddRound ==
  ASSUME IInv, RoundInv, NEW fn \in Functions, AddEntry(fn)
  PROVE  RoundInv'
  <1>1. PICK e : e = [fn |-> fn, n |-> added + 1]
    OBVIOUS
  <1>2. /\ added < MaxEntries /\ added \in 0..MaxEntries /\ MaxEntries \in Nat /\ added' = added + 1
        /\ l' = Add(l, options, e)
        /\ UNCHANGED <<running, threw>>
        /\ Turn
    <2>1. MaxEntries \in Nat
      BY ListBounds
    <2> QED
      BY <1>1, <2>1 DEF AddEntry, RoundInv, RoundTypes
  <1>3. added' \in 0..MaxEntries /\ e \in Entries /\ e.n = added + 1 /\ added \in Nat
    BY <1>1, <1>2 DEF Entries
  <1>4. Shape(l)
    BY DEF IInv, Good
  <1>5. /\ l'.list = Grown(l, options, e)
        /\ l.disabled \/ l.firing \/ l.memory = 0 =>
                (l'.firing <=> l.firing) /\ l'.at = l.at /\ l'.start = l.start
        /\ l'.length = (IF l.disabled \/ (~l.firing /\ l.memory = 0) THEN l.length ELSE Len(l'.list))
        /\ ~l.disabled /\ ~l.firing /\ l.memory # 0 => l'.firing /\ l'.at = Len(l.list) + 1 /\ l'.start = 0
    BY <1>2, <1>4, AddIs
  <1>6. /\ l.list \in Seq(Entries) /\ Len(l.list) \in Nat /\ Distinct(l.list) /\ Given(l.list, added)
        /\ l.at \in Nat /\ l.length \in Nat /\ l.start = 0 /\ called \in Seq(1..MaxEntries)
        /\ l.firing => Len(l.list) <= l.length
        /\ running \in BOOLEAN /\ threw \in BOOLEAN
    BY DEF RoundInv, RoundTypes, Numbered
  <1>7. l'.list = l.list \/ (l'.list = Append(l.list, e) /\ ~l.disabled)
    BY <1>5 DEF Grown
  <1>8. /\ l'.list \in Seq(Entries) /\ Len(l'.list) \in Nat /\ Distinct(l'.list) /\ Given(l'.list, added')
        /\ l.disabled => l'.list = l.list
        /\ \A k \in 1..Len(l'.list) : (k \in 1..Len(l.list) /\ l'.list[k].n = l.list[k].n) \/ l'.list[k].n = added + 1
    <2>1. CASE l'.list = l.list
      <3>1. Given(l.list, added + 1)
        <4>1. \A i \in 1..Len(l.list) : l.list[i] \in Entries
          BY <1>6
        <4>2. \A x \in Entries : x.n \in Nat
          BY DEF Entries
        <4> QED
          BY <1>3, <1>6, <4>1, <4>2 DEF Given
      <3> QED
        BY <1>2, <1>6, <2>1, <3>1
    <2>2. CASE l'.list = Append(l.list, e) /\ ~l.disabled
      <3>1. /\ l'.list \in Seq(Entries) /\ Len(l'.list) = Len(l.list) + 1
            /\ \A i \in 1..Len(l.list) : l'.list[i] = l.list[i]
            /\ l'.list[Len(l.list) + 1] = e
            /\ Distinct(l'.list) /\ Given(l'.list, added + 1)
        BY <1>3, <1>6, <2>2, GrownDistinct
      <3> QED
        BY <1>2, <1>3, <1>6, <2>2, <3>1
    <2> QED
      BY <1>7, <2>1, <2>2
  <1>9. l'.at \in Nat /\ l'.length \in Nat /\ l'.start = 0 /\ (l'.firing => Len(l'.list) <= l'.length)
    BY <1>5, <1>6, <1>8
  <1>10. Numbered'
    BY <1>8 DEF Numbered
  <1>11. Turns'
    <2>1. (running => l.firing /\ ~threw) /\ (threw => l.firing)
      BY DEF RoundInv, Turns
    <2>2. l.firing => l'.firing
      BY <1>5
    <2> QED
      BY <1>2, <2>1, <2>2 DEF Turns
  <1>12. called' \in Seq(1..MaxEntries) /\ CalledOnce' /\ NotYet'
    <2>1. CASE ~l.firing /\ l'.firing
      <3>1. called' = <<>>
        BY <2>1 DEF AddEntry, StartsWith
      <3> QED
        BY <1>2, <1>3, <3>1, Anew
    <2>2. CASE ~(~l.firing /\ l'.firing)
      <3>1. called' = called
        BY <2>2 DEF AddEntry
      <3>2. (l'.firing <=> l.firing) /\ l'.at = l.at
        BY <1>5, <2>2
      <3>3. CalledOnce
        BY DEF RoundInv
      <3>4. CalledOnce'
        BY <3>1, <3>3 DEF CalledOnce
      <3>5. /\ \A c \in 1..Len(called) : called[c] <= added /\ called[c] \in Nat
            /\ l.firing /\ ~threw =>
                   \A k \in 1..Len(l.list), c \in 1..Len(called) : k >= Ahead => l.list[k].n # called[c]
        <4>1. \A c \in 1..Len(called) : called[c] \in Nat
          BY <1>2, <1>6
        <4> QED
          BY <4>1 DEF RoundInv, NotYet
      <3>6. Ahead' = Ahead
        BY <1>2, <3>2 DEF Ahead
      <3>7. ASSUME l'.firing, ~threw', NEW k \in 1..Len(l'.list), NEW c \in 1..Len(called), k >= Ahead'
            PROVE  l'.list[k].n # called[c]
        <4>1. CASE k \in 1..Len(l.list) /\ l'.list[k].n = l.list[k].n
          BY <1>2, <3>2, <3>5, <3>6, <3>7, <4>1
        <4>2. CASE l'.list[k].n = added + 1
          BY <1>3, <3>5, <4>2
        <4> QED
          BY <1>8, <4>1, <4>2
      <3>8. \A c \in 1..Len(called) : called[c] <= added'
        BY <1>2, <1>3, <3>5
      <3> QED
        BY <1>6, <3>1, <3>4, <3>7, <3>8 DEF NotYet
    <2> QED
      BY <2>1, <2>2
  <1> QED
    BY <1>2, <1>3, <1>6, <1>8, <1>9, <1>10, <1>11, <1>12 DEF RoundInv, RoundTypes

LEMMA RemoveRound ==
  ASSUME IInv, RoundInv, NEW fn \in Functions, RemoveFunction(fn)
  PROVE  RoundInv'
  <1>1. l' = Remove(l, fn) /\ UNCHANGED <<running, threw, added, called>> /\ Turn
    BY DEF RemoveFunction
  <1>2. /\ (l'.disabled <=> l.disabled) /\ (l'.firing <=> l.firing)
        /\ l'.start = l.start
        /\ l'.list = (IF l.disabled THEN l.list ELSE Kept(l, fn))
        /\ l'.at = (IF l.disabled \/ ~l.firing THEN l.at ELSE l.at - Gone(l, fn, l.at))
        /\ l'.length = (IF l.disabled \/ ~l.firing THEN l.length ELSE l.length - Cardinality(Places(l, fn)))
    BY <1>1, RemoveIs DEF IInv, Good
  <1>3. /\ l.list \in Seq(Entries) /\ Len(l.list) \in Nat /\ Distinct(l.list) /\ Given(l.list, added)
        /\ l.at \in Nat /\ l.length \in Nat /\ l.start = 0
        /\ l.firing => Len(l.list) <= l.length
        /\ running \in BOOLEAN /\ threw \in BOOLEAN
    BY DEF RoundInv, RoundTypes, Numbered
  <1>4. /\ Kept(l, fn) \in Seq(Entries) /\ Len(Kept(l, fn)) + Cardinality(Places(l, fn)) = Len(l.list)
        /\ Cardinality(Places(l, fn)) \in Nat /\ Len(Kept(l, fn)) \in Nat
    BY <1>3, KeptOnce
  <1>5. PICK to : to = l.at - Gone(l, fn, l.at)
    OBVIOUS
  <1>6. /\ to \in Nat
        /\ \A k \in 1..Len(Kept(l, fn)) : \E i \in Staying(l, fn) :
               Kept(l, fn)[k] = l.list[i] /\ (k > to => i > l.at)
    BY <1>3, <1>5, KeptMoves
  <1>7. /\ l'.list \in Seq(Entries) /\ l'.at \in Nat /\ l'.length \in Nat /\ l'.start = 0
        /\ l'.firing => Len(l'.list) <= l'.length
    BY <1>2, <1>3, <1>4, <1>5, <1>6
  <1>8. Numbered'
    BY <1>1, <1>2, <1>3, KeptDistinct DEF Numbered
  <1>9. Turns' /\ CalledOnce'
    BY <1>1, <1>2 DEF RoundInv, Turns, CalledOnce
  <1>10. NotYet'
    <2>1. ASSUME l'.firing, ~threw', NEW k \in 1..Len(l'.list), NEW c \in 1..Len(called), k >= Ahead'
          PROVE  l'.list[k].n # called[c]
      <3>1. running
        BY <1>1, <1>2, <2>1 DEF Turn
      <3>2. l.firing /\ ~threw /\ Ahead' = l'.at + 1 /\ Ahead = l.at + 1
        BY <1>1, <1>2, <2>1, <3>1 DEF Ahead
      <3>3. \A h \in 1..Len(l.list) : h >= Ahead => l.list[h].n # called[c]
        BY <3>2 DEF RoundInv, NotYet
      <3>4. CASE l.disabled
        BY <1>2, <2>1, <3>2, <3>3, <3>4
      <3>5. CASE ~l.disabled
        <4>1. l'.list = Kept(l, fn) /\ l'.at = to /\ k > to
          BY <1>2, <1>5, <1>6, <2>1, <3>2, <3>5
        <4>2. PICK i \in Staying(l, fn) : Kept(l, fn)[k] = l.list[i] /\ i > l.at
          BY <1>6, <4>1
        <4>3. i \in 1..Len(l.list) /\ i >= Ahead
          BY <1>3, <3>2, <4>2 DEF Staying
        <4> QED
          BY <3>3, <4>1, <4>2, <4>3
      <3> QED
        BY <3>4, <3>5
    <2> QED
      BY <1>1, <2>1 DEF RoundInv, NotYet
  <1> QED
    BY <1>1, <1>3, <1>7, <1>8, <1>9, <1>10 DEF RoundInv, RoundTypes

\* empty, disable and lock leave the round where it is.
LEMMA ClearRound ==
  ASSUME IInv, RoundInv, EmptyList \/ DisableList \/ LockList
  PROVE  RoundInv'
  <1>1. (l' = Empty(l) \/ l' = Disable(l) \/ l' = Lock(l)) /\ UNCHANGED <<running, threw, added, called>>
    BY DEF EmptyList, DisableList, LockList
  <1>2. /\ l'.list \in {l.list, <<>>} /\ (l'.firing <=> l.firing) /\ l'.at = l.at /\ l'.length = l.length
        /\ l'.start = l.start
    <2>1. Shape(l)
      BY DEF IInv, Good
    <2>2. CASE l' = Empty(l)
      BY <2>1, <2>2, EmptyIs
    <2>3. CASE l' = Disable(l)
      BY <2>1, <2>3, DisableIs
    <2>4. CASE l' = Lock(l)
      BY <2>1, <2>4, LockIs
    <2> QED
      BY <1>1, <2>2, <2>3, <2>4
  <1>3. Ahead' = Ahead
    BY <1>1, <1>2 DEF Ahead
  <1>4. l'.list \in Seq(Entries) /\ Len(l'.list) \in Nat /\ Len(l'.list) <= Len(l.list)
        /\ Numbered' /\ CalledOnce' /\ NotYet'
    BY <1>1, <1>2, <1>3, Quiet
  <1>5. Turns'
    BY <1>1, <1>2 DEF RoundInv, Turns
  <1>6. l'.firing => Len(l'.list) <= l'.length
    BY <1>2, <1>4 DEF RoundInv, RoundTypes
  <1> QED
    BY <1>1, <1>2, <1>4, <1>5, <1>6 DEF RoundInv, RoundTypes

LEMMA FireRound ==
  ASSUME IInv, RoundInv, FireList
  PROVE  RoundInv'
  <1>1. l' = FireWith(l, options, asked + 1) /\ UNCHANGED <<running, threw, added>>
    BY DEF FireList
  <1>2. /\ l'.list = l.list
        /\ ~Accepts(l) \/ l.firing =>
              (l'.firing <=> l.firing) /\ l'.at = l.at /\ l'.start = l.start /\ l'.length = l.length
        /\ Accepts(l) /\ ~l.firing => l'.firing /\ l'.at = l.start + 1 /\ l'.start = 0 /\ l'.length = Len(l.list)
    BY <1>1, FireIs DEF IInv, Good
  <1>3. RoundTypes /\ Turns /\ Numbered /\ Len(l.list) \in Nat /\ added \in Nat
    BY DEF RoundInv, RoundTypes
  <1>4. /\ l'.list \in Seq(Entries) /\ l'.at \in Nat /\ l'.length \in Nat /\ l'.start = 0
        /\ l'.firing => Len(l'.list) <= l'.length
    BY <1>2, <1>3 DEF RoundTypes
  <1>5. Numbered'
    BY <1>1, <1>2, <1>3 DEF Numbered
  <1>6. Turns'
    BY <1>1, <1>2, <1>3 DEF Turns
  <1>7. called' \in Seq(1..MaxEntries) /\ CalledOnce' /\ NotYet'
    <2>1. CASE ~l.firing /\ l'.firing
      <3>1. called' = <<>>
        BY <2>1 DEF FireList, StartsWith
      <3> QED
        BY <1>1, <1>3, <3>1, Anew
    <2>2. CASE ~(~l.firing /\ l'.firing)
      <3>1. called' = called
        BY <2>2 DEF FireList
      <3>2. (l'.firing <=> l.firing) /\ l'.at = l.at
        BY <1>2, <2>2
      <3>3. Ahead' = Ahead
        BY <1>1, <3>2 DEF Ahead
      <3>4. CalledOnce' /\ NotYet'
        BY <1>1, <1>2, <3>1, <3>2, <3>3, Quiet
      <3> QED
        BY <1>3, <3>1, <3>4 DEF RoundTypes
    <2> QED
      BY <2>1, <2>2
  <1> QED
    BY <1>1, <1>3, <1>4, <1>5, <1>6, <1>7 DEF RoundInv, RoundTypes

LEMMA CallRound ==
  ASSUME IInv, RoundInv, Call
  PROVE  RoundInv'
  <1>1. /\ UNCHANGED <<l, added>> /\ l.firing /\ ~running /\ ~threw
    BY DEF Call, ListLooping
  <1>2. RoundTypes /\ Numbered /\ CalledOnce /\ NotYet
    BY DEF RoundInv
  <1>3. Numbered'
    BY <1>1, <1>2 DEF Numbered
  <1>4. CASE l.at \notin 1..Len(l.list)
    <2>1. threw' = TRUE /\ UNCHANGED <<running, called>>
      BY <1>4 DEF Call
    <2> QED
      BY <1>1, <1>2, <1>3, <2>1 DEF RoundInv, RoundTypes, Turns, CalledOnce, NotYet
  <1>5. CASE l.at \in 1..Len(l.list)
    <2>1. PICK n : n = l.list[l.at].n
      OBVIOUS
    <2>2. running' = TRUE /\ called' = Append(called, n) /\ threw' = threw
      BY <1>5, <2>1 DEF Call
    <2>3. n \in 1..MaxEntries /\ n <= added /\ added \in Nat
      <3>1. l.list[l.at] \in Entries
        BY <1>2, <1>5 DEF RoundTypes
      <3> QED
        BY <1>2, <1>5, <2>1, <3>1 DEF Entries, Numbered, Given, RoundTypes
    <2>4. called \in Seq(1..MaxEntries) /\ Len(called) \in Nat
      BY <1>2 DEF RoundTypes
    <2>5. /\ called' \in Seq(1..MaxEntries) /\ Len(called') = Len(called) + 1
          /\ called'[Len(called) + 1] = n
          /\ \A c \in 1..Len(called) : called'[c] = called[c]
      BY <2>2, <2>3, <2>4
    <2>6. \A c \in 1..Len(called') : c \in 1..Len(called) \/ c = Len(called) + 1
      BY <2>4, <2>5
    <2>7. \A c \in 1..Len(called) : called[c] # n
      BY <1>1, <1>2, <1>5, <2>1 DEF NotYet, Ahead, RoundTypes
    <2>8. CalledOnce'
      <3> SUFFICES ASSUME NEW i \in 1..Len(called'), NEW j \in 1..Len(called'), called'[i] = called'[j]
                   PROVE  i = j
        BY DEF CalledOnce
      <3>1. CASE i \in 1..Len(called) /\ j \in 1..Len(called)
        BY <1>2, <2>5, <3>1 DEF CalledOnce
      <3> QED
        BY <2>5, <2>6, <2>7, <3>1
    <2>9. Ahead = l.at /\ Ahead' = l.at + 1 /\ l.at \in Nat
      BY <1>1, <1>2, <2>2 DEF Ahead, RoundTypes
    <2>10. ASSUME NEW k \in 1..Len(l.list), NEW c \in 1..Len(called'), k >= Ahead'
           PROVE  l.list[k].n # called'[c]
      <3>1. CASE c \in 1..Len(called)
        <4>1. called'[c] = called[c]
          BY <2>5, <3>1
        <4>2. k >= Ahead
          BY <2>9, <2>10
        <4> QED
          BY <1>1, <1>2, <3>1, <4>1, <4>2 DEF NotYet
      <3>2. CASE c = Len(called) + 1
        <4>1. k # l.at
          BY <2>9, <2>10
        <4> QED
          BY <1>2, <1>5, <2>1, <2>5, <3>2, <4>1 DEF Numbered, Distinct
      <3> QED
        BY <2>6, <3>1, <3>2
    <2>11. \A c \in 1..Len(called') : called'[c] <= added'
      <3>1. \A c \in 1..Len(called) : called[c] <= added
        BY <1>2 DEF NotYet
      <3> QED
        BY <1>1, <2>3, <2>5, <2>6, <3>1
    <2>12. NotYet'
      BY <1>1, <2>10, <2>11 DEF NotYet
    <2> QED
      BY <1>1, <1>2, <1>3, <2>2, <2>5, <2>8, <2>12 DEF RoundInv, RoundTypes, Turns
  <1> QED
    BY <1>4, <1>5

LEMMA ReturnRound ==
  ASSUME IInv, RoundInv, NEW false \in BOOLEAN, EntryReturns(false)
  PROVE  RoundInv'
  <1>1. /\ l' = Stop(l) \/ l' = Advance(l)
        /\ running /\ running' = FALSE /\ UNCHANGED <<threw, added, called>>
    BY DEF EntryReturns
  <1>2. /\ l'.list = l.list /\ (l'.firing <=> l.firing) /\ l'.length = l.length /\ l'.start = l.start
        /\ l' = Stop(l) => l'.at = l.length + 1
        /\ l' = Advance(l) => l'.at = l.at + 1
    BY <1>1, ReturnIs DEF IInv, Good
  <1>3. RoundTypes /\ Turns /\ Len(l.list) \in Nat
    BY DEF RoundInv, RoundTypes
  <1>4. l.firing /\ ~threw
    BY <1>1, <1>3 DEF Turns
  <1>5. \A k \in 1..Len(l'.list) : k >= Ahead' => k >= Ahead
    <2>1. Ahead = l.at + 1 /\ Ahead' = l'.at
      BY <1>1 DEF Ahead
    <2> QED
      BY <1>1, <1>2, <1>3, <1>4, <2>1 DEF RoundTypes
  <1>6. Numbered' /\ CalledOnce' /\ NotYet'
    BY <1>1, <1>2, <1>4, <1>5, Quiet
  <1>7. l'.at \in Nat
    BY <1>1, <1>2, <1>3 DEF RoundTypes
  <1> QED
    BY <1>1, <1>2, <1>3, <1>4, <1>6, <1>7 DEF RoundInv, RoundTypes, Turns

LEMMA ThrowRound ==
  ASSUME RoundInv, EntryThrows
  PROVE  RoundInv'
  <1>1. running /\ running' = FALSE /\ threw' = TRUE /\ UNCHANGED <<l, added, called>>
    BY DEF EntryThrows, listHistory
  <1> QED
    BY <1>1 DEF RoundInv, RoundTypes, Numbered, Turns, CalledOnce, NotYet

LEMMA EndRoundOf ==
  ASSUME IInv, RoundInv, EndListRound
  PROVE  RoundInv'
  <1>1. /\ l' = End(l, options) /\ UNCHANGED <<running, threw, added>>
        /\ l.firing /\ ~running /\ ~threw
    BY DEF EndListRound, ListLooping
  <1>2. RoundTypes /\ Numbered /\ Len(l.list) \in Nat /\ added \in Nat
    BY DEF RoundInv, RoundTypes
  <1>3. /\ l'.start = 0
        /\ l'.firing => l'.list = l.list /\ l'.at = 1 /\ l'.length = Len(l.list)
        /\ ~l'.firing => l'.at = l.at /\ l'.length = l.length /\ l'.list \in {l.list, <<>>}
    BY <1>1, <1>2, EndIs DEF IInv, Good, RoundTypes
  <1>4. Turns'
    BY <1>1 DEF Turns
  <1>5. CASE l'.firing
    <2>1. called' = <<>>
      BY <1>5 DEF EndListRound, StartsWith
    <2>2. called' \in Seq(1..MaxEntries) /\ CalledOnce' /\ NotYet'
      BY <1>1, <1>2, <2>1, Anew
    <2> QED
      BY <1>1, <1>2, <1>3, <1>4, <1>5, <2>2 DEF RoundInv, RoundTypes, Numbered
  <1>6. CASE ~l'.firing
    <2>1. called' = called
      BY <1>6 DEF EndListRound
    <2>2. l'.list \in Seq(Entries) /\ Numbered' /\ CalledOnce' /\ NotYet'
      BY <1>1, <1>3, <1>6, <2>1, Quiet
    <2> QED
      BY <1>1, <1>2, <1>3, <1>4, <1>6, <2>1, <2>2 DEF RoundInv, RoundTypes
  <1> QED
    BY <1>5, <1>6

LEMMA InitRound == ListInit => RoundInv
  <1> SUFFICES ASSUME ListInit PROVE RoundInv
    OBVIOUS
  <1>1. l = NewList(options) /\ running = FALSE /\ threw = FALSE /\ added = 0 /\ called = <<>>
    BY DEF ListInit
  <1>2. l.list = <<>> /\ l.at = 0 /\ l.length = 0 /\ l.start = 0 /\ ~l.firing
    BY <1>1 DEF NewList
  <1>3. Len(<<>>) = 0 /\ <<>> \in Seq(Entries) /\ <<>> \in Seq(1..MaxEntries)
    OBVIOUS
  <1>4. MaxEntries \in Nat
    BY ListBounds
  <1>5. RoundTypes
    <2>1. l.list \in Seq(Entries) /\ called \in Seq(1..MaxEntries)
      BY ONLY <1>1, <1>2, <1>3, Zenon
    <2>2. added \in 0..MaxEntries
      BY <1>1, <1>4
    <2> QED
      <3>1. running \in BOOLEAN /\ threw \in BOOLEAN
        BY <1>1
      <3>2. l.at \in Nat /\ l.length \in Nat /\ l.start = 0 /\ (l.firing => Len(l.list) <= l.length)
        BY <1>2
      <3> QED
        BY ONLY <2>1, <2>2, <3>1, <3>2 DEF RoundTypes
  <1>6. Numbered /\ CalledOnce /\ NotYet
    BY <1>1, <1>2, <1>3 DEF Numbered, Distinct, Given, CalledOnce, NotYet
  <1> QED
    BY <1>1, <1>5, <1>6 DEF RoundInv, Turns

LEMMA StepRound == IInv /\ RoundInv /\ [ListNext]_listVars => RoundInv'
  <1> SUFFICES ASSUME IInv, RoundInv, [ListNext]_listVars PROVE RoundInv'
    OBVIOUS
  <1>1. CASE UNCHANGED listVars
    BY <1>1 DEF listVars, RoundInv, RoundTypes, Numbered, Turns, CalledOnce, NotYet, Ahead
  <1>2. CASE ListNext
    BY <1>2, AddRound, RemoveRound, ClearRound, FireRound, CallRound, ReturnRound, ThrowRound, EndRoundOf
       DEF ListNext, Loop
  <1> QED
    BY <1>1, <1>2

\* Callbacks may add and remove entries, their own included, empty the list or throw:
\* no entry is called twice in a round (fire, add, remove, empty).
THEOREM NoEntryCalledTwice == ListSpec => []CalledOnce
  <1>1. ListSpec => []RoundInv
    BY InitRound, StepRound, Inductive, PTL DEF ListSpec
  <1>2. RoundInv => CalledOnce
    BY DEF RoundInv
  <1> QED
    BY <1>1, <1>2, PTL
-------------------------------------------------------------------------------
(* What holds further where no callback calls empty. *)

\* A list that is disabled has nothing, the round of another is somewhere in it, what
\* the round owes is called or ahead, ...
Blank == l.disabled => l.list = <<>> /\ l.memory = 0 /\ (l.firing /\ ~threw => owed = {})

Underway == l.firing /\ ~threw /\ ~l.disabled

InList == Underway => l.length = Len(l.list) /\ Ahead \in 1..Len(l.list) + 1

Owing == Underway =>
    \A n \in owed : \/ \E c \in 1..Len(called) : called[c] = n
                    \/ \E k \in 1..Len(l.list) : k >= Ahead /\ l.list[k].n = n

\* ... and what is behind it, or at rest everything, heard what is remembered.
Heard == l.memory # 0 /\ ~threw =>
    \A k \in 1..Len(l.list) : ~l.firing \/ k < Ahead => heard[l.list[k].n] = l.memory

Ears == heard = [n \in 1..MaxEntries |-> heard[n]]

PlaceInv == Blank /\ InList /\ Owing /\ Heard /\ Ears

\* A round that starts at the first entry nobody called owes what is ahead of it.
LEMMA StartOwes ==
  ASSUME StartsWith(l'), ~running', l'.at \in Nat, Len(l'.list) \in Nat, l'.at >= 1
  PROVE  Owing'
  <1>1. Ahead' = l'.at
    BY DEF Ahead
  <1>2. owed' = {l'.list[i].n : i \in l'.at..Len(l'.list)}
    BY DEF StartsWith
  <1>3. ASSUME NEW n \in owed' PROVE \E k \in 1..Len(l'.list) : k >= Ahead' /\ l'.list[k].n = n
    <2>1. PICK i \in l'.at..Len(l'.list) : n = l'.list[i].n
      BY <1>2
    <2>2. i \in 1..Len(l'.list) /\ i >= Ahead'
      BY <1>1
    <2> QED
      BY <2>1, <2>2
  <1> QED
    BY <1>3 DEF Owing

LEMMA AddPlace ==
  ASSUME IInv, RoundInv, PlaceInv, NEW fn \in Functions, AddEntry(fn)
  PROVE  PlaceInv'
  <1>1. PICK e : e = [fn |-> fn, n |-> added + 1]
    OBVIOUS
  <1>2. /\ added \in Nat /\ added' = added + 1
        /\ l' = Add(l, options, e)
        /\ UNCHANGED <<running, threw, heard>>
        /\ Turn
        /\ e.n = added + 1
    BY <1>1 DEF AddEntry, RoundInv, RoundTypes
  <1>3. /\ l.list \in Seq(Entries) /\ Len(l.list) \in Nat /\ Given(l.list, added)
        /\ (running => l.firing /\ ~threw) /\ (threw => l.firing)
        /\ l.at \in Nat
    BY DEF RoundInv, RoundTypes, Numbered, Turns
  <1>4. Ears'
    BY <1>2 DEF PlaceInv, Ears
  <1>5. /\ l'.list = Grown(l, options, e)
        /\ (l'.disabled <=> l.disabled)
        /\ l.disabled \/ l.firing \/ l.memory = 0 => (l'.firing <=> l.firing) /\ l'.at = l.at /\ l'.memory = l.memory
        /\ l'.length = (IF l.disabled \/ (~l.firing /\ l.memory = 0) THEN l.length ELSE Len(l'.list))
        /\ ~l.disabled /\ ~l.firing /\ l.memory # 0 =>
               l'.firing /\ l'.at = Len(l.list) + 1 /\ l'.memory \in {0, l.memory}
    BY <1>2, AddIs DEF IInv, Good
  <1>6. /\ Len(l'.list) \in Nat /\ Len(l'.list) >= Len(l.list)
        /\ \A k \in 1..Len(l.list) : l'.list[k] = l.list[k]
    <2>1. Len(Append(l.list, e)) = Len(l.list) + 1 /\ \A k \in 1..Len(l.list) : Append(l.list, e)[k] = l.list[k]
      BY <1>3
    <2> QED
      BY <1>3, <1>5, <2>1 DEF Grown
  <1>7. CASE l.disabled
    <2>1. l' = l
      BY <1>2, <1>7 DEF Add
    <2>2. l.list = <<>> /\ l.memory = 0 /\ (l.firing /\ ~threw => owed = {})
      BY <1>7 DEF PlaceInv, Blank
    <2>3. Numbers(<<>>) = {}
      BY DEF Numbers
    <2>4. owed' = owed
      BY <2>1, <2>2, <2>3 DEF AddEntry
    <2> QED
      BY <1>2, <1>4, <1>7, <2>1, <2>2, <2>4 DEF PlaceInv, Blank, InList, Underway, Owing, Heard
  <1>8. CASE ~l.disabled /\ l.firing /\ threw
    BY <1>2, <1>4, <1>5, <1>8 DEF PlaceInv, Blank, InList, Underway, Owing, Heard
  <1>9. CASE ~l.disabled /\ l.firing /\ ~threw
    <2>1. running
      BY <1>2, <1>9 DEF Turn
    <2>2. /\ l'.firing /\ ~l'.disabled /\ l'.at = l.at /\ l'.memory = l.memory /\ l'.length = Len(l'.list)
          /\ Ahead' = l.at + 1 /\ Ahead = l.at + 1
      BY <1>2, <1>5, <1>9, <2>1 DEF Ahead
    <2>3. Ahead \in 1..Len(l.list) + 1
      BY <1>9 DEF PlaceInv, InList, Underway
    <2>4. InList'
      BY <1>3, <1>6, <2>2, <2>3 DEF InList
    <2>5. Owing'
      <3>1. called' = called /\ owed' = IF added' \in Numbers(l'.list) THEN owed \cup {added'} ELSE owed
        BY <1>9, <2>1 DEF AddEntry
      <3>2. ASSUME NEW n \in owed
            PROVE  \/ \E c \in 1..Len(called) : called[c] = n
                   \/ \E k \in 1..Len(l'.list) : k >= Ahead' /\ l'.list[k].n = n
        <4>1. CASE \E c \in 1..Len(called) : called[c] = n
          BY <4>1
        <4>2. CASE \E k \in 1..Len(l.list) : k >= Ahead /\ l.list[k].n = n
          <5>1. PICK k \in 1..Len(l.list) : k >= Ahead /\ l.list[k].n = n
            BY <4>2
          <5>2. k \in 1..Len(l'.list) /\ k >= Ahead' /\ l'.list[k].n = n
            BY <1>3, <1>6, <2>2, <5>1
          <5> QED
            BY <5>2
        <4> QED
          BY <1>9, <4>1, <4>2 DEF PlaceInv, Owing, Underway
      <3>3. ASSUME added' \in Numbers(l'.list)
            PROVE  \E k \in 1..Len(l'.list) : k >= Ahead' /\ l'.list[k].n = added'
        <4>1. PICK k \in 1..Len(l'.list) : l'.list[k].n = added'
          BY <3>3 DEF Numbers
        <4>2. ASSUME k \in 1..Len(l.list) PROVE FALSE
          <5>1. l.list[k].n <= added /\ l.list[k].n = added + 1
            BY <1>2, <1>3, <1>6, <4>1, <4>2 DEF Given
          <5> QED
            BY <1>2, <5>1
        <4>3. k >= Ahead'
          BY <1>3, <1>6, <2>2, <2>3, <4>2
        <4> QED
          BY <4>1, <4>3
      <3> QED
        BY <3>1, <3>2, <3>3 DEF Owing
    <2>6. Heard'
      <3>1. ASSUME l.memory # 0, NEW k \in 1..Len(l'.list), k < Ahead'
            PROVE  heard[l'.list[k].n] = l.memory
        <4>1. k \in 1..Len(l.list) /\ k < Ahead
          BY <1>3, <1>6, <2>2, <2>3, <3>1
        <4>2. heard[l.list[k].n] = l.memory
          BY <1>9, <3>1, <4>1 DEF PlaceInv, Heard
        <4> QED
          BY <1>6, <4>1, <4>2
      <3> QED
        BY <1>2, <2>2, <3>1 DEF Heard
    <2>7. Blank'
      BY <2>2 DEF Blank
    <2> QED
      BY <1>4, <2>4, <2>5, <2>6, <2>7 DEF PlaceInv
  <1>10. CASE ~l.disabled /\ ~l.firing /\ l.memory # 0
    <2>1. /\ l'.firing /\ ~l'.disabled /\ l'.at = Len(l.list) + 1 /\ l'.memory \in {0, l.memory}
          /\ l'.length = Len(l'.list) /\ ~running /\ ~threw
      BY <1>3, <1>5, <1>10
    <2>2. Ahead' = Len(l.list) + 1
      BY <1>2, <2>1 DEF Ahead
    <2>3. StartsWith(l')
      BY <1>10, <2>1 DEF AddEntry
    <2>4. Owing'
      BY <1>2, <1>3, <1>6, <2>1, <2>3, StartOwes
    <2>5. InList'
      BY <1>3, <1>6, <2>1, <2>2 DEF InList
    <2>6. Heard'
      <3>1. ASSUME l'.memory # 0, NEW k \in 1..Len(l'.list), k < Ahead'
            PROVE  heard[l'.list[k].n] = l'.memory
        <4>1. k \in 1..Len(l.list) /\ l'.memory = l.memory
          BY <1>3, <1>6, <2>1, <2>2, <3>1
        <4>2. heard[l.list[k].n] = l.memory
          BY <1>10, <2>1, <4>1 DEF PlaceInv, Heard
        <4> QED
          BY <1>6, <4>1, <4>2
      <3> QED
        BY <1>2, <2>1, <3>1 DEF Heard
    <2>7. Blank'
      BY <2>1 DEF Blank
    <2> QED
      BY <1>4, <2>4, <2>5, <2>6, <2>7 DEF PlaceInv
  <1>11. CASE ~l.disabled /\ ~l.firing /\ l.memory = 0
    <2>1. ~l'.firing /\ ~l'.disabled /\ l'.memory = 0
      BY <1>5, <1>11
    <2> QED
      BY <1>4, <2>1 DEF PlaceInv, Blank, InList, Underway, Owing, Heard
  <1> QED
    BY <1>7, <1>8, <1>9, <1>10, <1>11

LEMMA RemovePlace ==
  ASSUME IInv, RoundInv, PlaceInv, NEW fn \in Functions, RemoveFunction(fn)
  PROVE  PlaceInv'
  <1>1. /\ l' = Remove(l, fn) /\ UNCHANGED <<running, threw, called, heard>> /\ Turn
        /\ owed' = owed \ (Numbers(l.list) \ Numbers(l'.list))
    BY DEF RemoveFunction
  <1>2. /\ (l'.disabled <=> l.disabled) /\ (l'.firing <=> l.firing) /\ l'.memory = l.memory
        /\ l'.list = (IF l.disabled THEN l.list ELSE Kept(l, fn))
        /\ l'.at = (IF l.disabled \/ ~l.firing THEN l.at ELSE l.at - Gone(l, fn, l.at))
        /\ l'.length = (IF l.disabled \/ ~l.firing THEN l.length ELSE l.length - Cardinality(Places(l, fn)))
    BY <1>1, RemoveIs DEF IInv, Good
  <1>3. l.list \in Seq(Entries) /\ Len(l.list) \in Nat /\ Distinct(l.list) /\ l.at \in Nat
    BY DEF RoundInv, RoundTypes, Numbered
  <1>4. /\ Len(Kept(l, fn)) + Cardinality(Places(l, fn)) = Len(l.list)
        /\ Cardinality(Places(l, fn)) \in Nat /\ Len(Kept(l, fn)) \in Nat
    BY <1>3, KeptOnce
  <1>5. Ears'
    BY <1>1 DEF PlaceInv, Ears
  <1>6. CASE l.disabled
    <2>1. l' = l
      BY <1>1, <1>6 DEF Remove
    <2>2. l.list = <<>> /\ l.memory = 0 /\ (l.firing /\ ~threw => owed = {})
      BY <1>6 DEF PlaceInv, Blank
    <2>3. owed = {} => owed' = {}
      BY <1>1
    <2> QED
      BY <1>1, <1>5, <1>6, <2>1, <2>2, <2>3 DEF PlaceInv, Blank, InList, Underway, Owing, Heard
  <1>7. CASE ~l.disabled /\ l.firing /\ threw
    BY <1>1, <1>2, <1>5, <1>7 DEF PlaceInv, Blank, InList, Underway, Owing, Heard
  <1>8. CASE ~l.disabled /\ l.firing /\ ~threw
    <2>1. PICK to : to = l.at - Gone(l, fn, l.at)
      OBVIOUS
    <2>2. running /\ Ahead = l.at + 1 /\ Ahead' = to + 1
      BY <1>1, <1>2, <1>8, <2>1 DEF Turn, Ahead
    <2>3. l.length = Len(l.list) /\ Ahead \in 1..Len(l.list) + 1
      BY <1>8 DEF PlaceInv, InList, Underway
    <2>4. l.at <= Len(l.list)
      BY <1>3, <2>2, <2>3
    <2>5. /\ to \in Nat /\ to <= Len(Kept(l, fn))
          /\ \A k \in 1..Len(Kept(l, fn)) : \E i \in Staying(l, fn) :
                 Kept(l, fn)[k] = l.list[i] /\ (k <= to => i <= l.at)
          /\ \A i \in Staying(l, fn) : i > l.at =>
                 \E k \in 1..Len(Kept(l, fn)) : k > to /\ Kept(l, fn)[k] = l.list[i]
      BY <1>3, <2>1, <2>4, KeptMoves
    <2>6. l'.list = Kept(l, fn) /\ l'.firing /\ ~l'.disabled /\ l'.length = Len(l'.list) /\ l'.memory = l.memory
      BY <1>2, <1>4, <1>8, <2>3
    <2>7. InList'
      BY <1>4, <2>2, <2>5, <2>6 DEF InList
    <2>8. Owing'
      <3>1. ASSUME NEW n \in owed', \A c \in 1..Len(called) : called[c] # n
            PROVE  \E k \in 1..Len(l'.list) : k >= Ahead' /\ l'.list[k].n = n
        <4>1. n \in owed /\ n \notin Numbers(l.list) \ Numbers(l'.list)
          BY <1>1
        <4>2. PICK i \in 1..Len(l.list) : i >= Ahead /\ l.list[i].n = n
          BY <1>8, <3>1, <4>1 DEF PlaceInv, Owing, Underway
        <4>3. n \in Numbers(l'.list)
          BY <4>1, <4>2 DEF Numbers
        <4>4. PICK j \in 1..Len(l'.list) : l'.list[j].n = n
          BY <4>3 DEF Numbers
        <4>5. PICK h \in Staying(l, fn) : l'.list[j] = l.list[h]
          BY <2>5, <2>6, <4>4
        <4>6. h \in 1..Len(l.list) /\ l.list[h].n = l.list[i].n
          BY <4>2, <4>4, <4>5 DEF Staying
        <4>7. h = i
          BY <1>3, <4>6 DEF Distinct
        <4>8. i \in Staying(l, fn) /\ i > l.at
          BY <1>3, <2>2, <4>2, <4>5, <4>7
        <4>9. PICK k \in 1..Len(Kept(l, fn)) : k > to /\ Kept(l, fn)[k] = l.list[i]
          BY <2>5, <4>8
        <4>10. k >= Ahead'
          BY <2>2, <2>5, <4>9
        <4> QED
          BY <2>6, <4>2, <4>9, <4>10
      <3> QED
        BY <1>1, <3>1 DEF Owing
    <2>9. Heard'
      <3>1. ASSUME l.memory # 0, NEW k \in 1..Len(l'.list), k < Ahead'
            PROVE  heard[l'.list[k].n] = l.memory
        <4>1. PICK i \in Staying(l, fn) : l'.list[k] = l.list[i] /\ (k <= to => i <= l.at)
          BY <2>5, <2>6
        <4>2. i \in 1..Len(l.list) /\ i < Ahead
          BY <1>3, <2>2, <2>5, <3>1, <4>1 DEF Staying
        <4> QED
          BY <1>8, <3>1, <4>1, <4>2 DEF PlaceInv, Heard
      <3> QED
        BY <1>1, <2>6, <3>1 DEF Heard
    <2> QED
      BY <1>5, <2>6, <2>7, <2>8, <2>9 DEF PlaceInv, Blank
  <1>9. CASE ~l.disabled /\ ~l.firing
    <2>1. ~l'.firing /\ ~l'.disabled /\ l'.list = Kept(l, fn) /\ l'.memory = l.memory
      BY <1>2, <1>9
    <2>2. Heard'
      <3>1. ASSUME l.memory # 0, ~threw, NEW k \in 1..Len(l'.list)
            PROVE  heard[l'.list[k].n] = l.memory
        <4>1. \A h \in 1..Len(Kept(l, fn)) : \E i \in Staying(l, fn) : Kept(l, fn)[h] = l.list[i]
          <5>1. PICK to : to = l.at - Gone(l, fn, l.at)
            OBVIOUS
          <5> QED
            BY <1>3, <5>1, KeptMoves
        <4>2. PICK i \in Staying(l, fn) : l'.list[k] = l.list[i]
          BY <2>1, <4>1
        <4>3. i \in 1..Len(l.list)
          BY <4>2 DEF Staying
        <4> QED
          BY <1>9, <3>1, <4>2, <4>3 DEF PlaceInv, Heard
      <3> QED
        BY <1>1, <2>1, <3>1 DEF Heard
    <2> QED
      BY <1>5, <2>1, <2>2 DEF PlaceInv, Blank, InList, Underway, Owing
  <1> QED
    BY <1>6, <1>7, <1>8, <1>9
LEMMA ClearPlace ==
  ASSUME IInv, RoundInv, PlaceInv, ~EmptyInside, EmptyList \/ DisableList \/ LockList
  PROVE  PlaceInv'
  <1>1. UNCHANGED <<running, threw, called, heard>> /\ Turn
    BY DEF EmptyList, DisableList, LockList
  <1>2. Shape(l)
    BY DEF IInv, Good
  <1>3. Ears'
    BY <1>1 DEF PlaceInv, Ears
  <1>4. Len(<<>>) = 0
    OBVIOUS
  <1>5. CASE EmptyList
    <2>1. ~running /\ l' = Empty(l)
      BY <1>5 DEF EmptyList
    <2>2. l'.list = <<>> /\ ~l'.disabled /\ (l'.firing <=> l.firing) /\ l'.memory = l.memory
      BY <1>2, <2>1, EmptyIs
    <2>3. l.firing => threw
      BY <1>1, <2>1 DEF Turn
    <2> QED
      BY <1>1, <1>3, <1>4, <2>2, <2>3 DEF PlaceInv, Blank, InList, Underway, Owing, Heard
  <1>6. CASE DisableList
    <2>1. l' = Disable(l) /\ owed' = {}
      BY <1>6 DEF DisableList
    <2>2. l'.list = <<>> /\ l'.disabled /\ (l'.firing <=> l.firing) /\ l'.memory = 0
      BY <1>2, <2>1, DisableIs
    <2> QED
      BY <1>1, <1>3, <2>1, <2>2 DEF PlaceInv, Blank, InList, Underway, Owing, Heard
  <1>7. CASE LockList
    <2>1. l' = Lock(l) /\ owed' = IF l'.disabled THEN {} ELSE owed
      BY <1>7 DEF LockList
    <2>2. /\ l'.list = (IF l.memory = 0 THEN <<>> ELSE l.list)
          /\ (l'.disabled <=> l.memory = 0 \/ l.disabled)
          /\ (l'.firing <=> l.firing) /\ l'.memory = l.memory /\ l'.at = l.at /\ l'.length = l.length
      BY <1>2, <2>1, LockIs
    <2>3. CASE l.memory = 0
      <3>1. l'.list = <<>> /\ l'.disabled /\ l'.memory = 0 /\ owed' = {}
        BY <2>1, <2>2, <2>3
      <3> QED
        BY <1>1, <1>3, <3>1 DEF PlaceInv, Blank, InList, Underway, Owing, Heard
    <2>4. CASE l.memory # 0
      <3>1. ~l.disabled
        BY <2>4 DEF PlaceInv, Blank
      <3>2. l'.list = l.list /\ ~l'.disabled /\ owed' = owed /\ Ahead' = Ahead
        BY <1>1, <2>1, <2>2, <2>4, <3>1 DEF Ahead
      <3> QED
        BY <1>1, <1>3, <2>2, <3>1, <3>2 DEF PlaceInv, Blank, InList, Underway, Owing, Heard
    <2> QED
      BY <2>3, <2>4
  <1> QED
    BY <1>5, <1>6, <1>7

LEMMA FirePlace ==
  ASSUME IInv, RoundInv, PlaceInv, FireList
  PROVE  PlaceInv'
  <1>1. l' = FireWith(l, options, asked + 1) /\ UNCHANGED <<running, threw, heard>> /\ Turn
    BY DEF FireList
  <1>2. /\ l'.list = l.list /\ (l'.disabled <=> l.disabled)
        /\ ~Accepts(l) \/ l.firing =>
              (l'.firing <=> l.firing) /\ l'.at = l.at /\ l'.memory = l.memory /\ l'.length = l.length
        /\ Accepts(l) /\ ~l.firing => l'.firing /\ l'.at = l.start + 1 /\ l'.length = Len(l.list)
    BY <1>1, FireIs DEF IInv, Good
  <1>3. Ears'
    BY <1>1 DEF PlaceInv, Ears
  <1>4. CASE ~Accepts(l) \/ l.firing
    <2>1. called' = called /\ owed' = owed /\ Ahead' = Ahead
      BY <1>1, <1>2, <1>4 DEF FireList, Ahead
    <2> QED
      BY <1>1, <1>2, <1>3, <1>4, <2>1 DEF PlaceInv, Blank, InList, Underway, Owing, Heard
  <1>5. CASE Accepts(l) /\ ~l.firing
    <2>1. StartsWith(l') /\ ~running /\ ~threw /\ ~l.disabled /\ l.start = 0 /\ Len(l.list) \in Nat
      BY <1>2, <1>5 DEF FireList, RoundInv, RoundTypes, Turns, Accepts
    <2>2. l'.at = 1 /\ l'.firing /\ ~l'.disabled /\ l'.length = Len(l'.list) /\ Ahead' = 1
      BY <1>1, <1>2, <1>5, <2>1 DEF Ahead
    <2>3. Owing'
      BY <1>1, <1>2, <2>1, <2>2, StartOwes
    <2>4. InList'
      BY <1>2, <2>1, <2>2 DEF InList
    <2>5. Heard'
      BY <2>2 DEF Heard
    <2> QED
      BY <1>3, <2>2, <2>3, <2>4, <2>5 DEF PlaceInv, Blank
  <1> QED
    BY <1>4, <1>5

\* An entry is called with what was fired last: the only value a list remembers.
LEMMA CallPlace ==
  ASSUME IInv, RoundInv, PlaceInv, Call
  PROVE  PlaceInv'
  <1>1. /\ UNCHANGED <<l, owed>> /\ l.firing /\ ~running /\ ~threw /\ ~l.disabled /\ l.at <= l.length
    BY DEF Call, ListLooping, HasNext
  <1>2. l.length = Len(l.list) /\ Ahead \in 1..Len(l.list) + 1 /\ Ahead = l.at
    BY <1>1 DEF PlaceInv, InList, Underway, Ahead
  <1>3. l.list \in Seq(Entries) /\ Len(l.list) \in Nat /\ Distinct(l.list) /\ called \in Seq(1..MaxEntries)
    BY DEF RoundInv, RoundTypes, Numbered
  <1>4. l.at \in 1..Len(l.list)
    BY <1>1, <1>2, <1>3
  <1>5. PICK n : n = l.list[l.at].n
    OBVIOUS
  <1>6. running' = TRUE /\ called' = Append(called, n) /\ heard' = [heard EXCEPT ![n] = l.data] /\ threw' = threw
    BY <1>4, <1>5 DEF Call
  <1>7. n \in 1..MaxEntries
    <2>1. l.list[l.at] \in Entries
      BY <1>3, <1>4
    <2> QED
      BY <1>5, <2>1 DEF Entries
  <1>8. Ahead' = l.at + 1
    BY <1>1, <1>6 DEF Ahead
  <1>9. InList'
    BY <1>1, <1>2, <1>3, <1>4, <1>8 DEF InList
  <1>10. Ears'
    BY <1>6 DEF PlaceInv, Ears
  <1>11. Owing'
    <2>1. /\ Len(called') = Len(called) + 1 /\ Len(called) \in Nat /\ called'[Len(called) + 1] = n
          /\ \A c \in 1..Len(called) : called'[c] = called[c]
      BY <1>3, <1>6, <1>7
    <2>2. ASSUME NEW m \in owed
          PROVE  \/ \E c \in 1..Len(called') : called'[c] = m
                 \/ \E k \in 1..Len(l.list) : k >= Ahead' /\ l.list[k].n = m
      <3>1. CASE \E c \in 1..Len(called) : called[c] = m
        BY <2>1, <3>1
      <3>2. CASE \E k \in 1..Len(l.list) : k >= Ahead /\ l.list[k].n = m
        <4>1. PICK k \in 1..Len(l.list) : k >= Ahead /\ l.list[k].n = m
          BY <3>2
        <4>2. CASE k = l.at
          BY <1>5, <2>1, <4>1, <4>2
        <4>3. CASE k # l.at
          <5>1. k >= Ahead'
            BY <1>2, <1>4, <1>8, <4>1, <4>3
          <5> QED
            BY <4>1, <5>1
        <4> QED
          BY <4>2, <4>3
      <3> QED
        BY <1>1, <3>1, <3>2 DEF PlaceInv, Owing, Underway
    <2> QED
      BY <1>1, <2>2 DEF Owing
  <1>12. Heard'
    <2>1. ASSUME l.memory # 0, NEW k \in 1..Len(l.list), k < Ahead'
          PROVE  heard'[l.list[k].n] = l.memory
      <3>1. l.memory = l.data
        BY <2>1 DEF IInv, Good, Remembers
      <3>2. l.list[k].n \in 1..MaxEntries
        <4>1. l.list[k] \in Entries
          BY <1>3
        <4> QED
          BY <4>1 DEF Entries
      <3>3. CASE k = l.at
        BY <1>5, <1>6, <1>7, <3>1, <3>3 DEF PlaceInv, Ears
      <3>4. CASE k # l.at
        <4>1. k < Ahead
          BY <1>2, <1>4, <1>8, <2>1, <3>4
        <4>2. heard[l.list[k].n] = l.memory
          BY <1>1, <2>1, <4>1 DEF PlaceInv, Heard
        <4>3. l.list[k].n # n
          BY <1>3, <1>4, <1>5, <3>4 DEF Distinct
        <4> QED
          BY <1>6, <3>2, <4>2, <4>3 DEF PlaceInv, Ears
      <3> QED
        BY <3>3, <3>4
    <2> QED
      BY <1>1, <2>1 DEF Heard
  <1> QED
    BY <1>1, <1>9, <1>10, <1>11, <1>12 DEF PlaceInv, Blank

LEMMA ReturnPlace ==
  ASSUME IInv, RoundInv, PlaceInv, NEW false \in BOOLEAN, EntryReturns(false)
  PROVE  PlaceInv'
  <1>1. /\ (l' = Stop(l) /\ owed' = {}) \/ (l' = Advance(l) /\ owed' = owed)
        /\ running /\ running' = FALSE /\ UNCHANGED <<threw, called, heard>>
    BY DEF EntryReturns
  <1>2. /\ l'.list = l.list /\ (l'.disabled <=> l.disabled) /\ (l'.firing <=> l.firing) /\ l'.length = l.length
        /\ l' = Stop(l) => l'.memory = 0 /\ l'.at = l.length + 1
        /\ l' = Advance(l) => l'.memory = l.memory /\ l'.at = l.at + 1
    BY <1>1, ReturnIs DEF IInv, Good
  <1>3. l.firing /\ ~threw /\ Len(l.list) \in Nat /\ l.at \in Nat
    BY <1>1 DEF RoundInv, RoundTypes, Turns
  <1>4. Ears'
    BY <1>1 DEF PlaceInv, Ears
  <1>5. Ahead = l.at + 1 /\ Ahead' = l'.at
    BY <1>1 DEF Ahead
  <1>6. CASE l.disabled
    <2>1. l.list = <<>> /\ l.memory = 0 /\ owed = {} /\ l'.memory = 0 /\ owed' = {}
      BY <1>1, <1>2, <1>3, <1>6 DEF PlaceInv, Blank
    <2> QED
      BY <1>2, <1>4, <1>6, <2>1 DEF PlaceInv, Blank, InList, Underway, Owing, Heard
  <1>7. CASE ~l.disabled
    <2>1. l.length = Len(l.list) /\ Ahead \in 1..Len(l.list) + 1
      BY <1>3, <1>7 DEF PlaceInv, InList, Underway
    <2>2. CASE l' = Stop(l) /\ owed' = {}
      <3>1. l'.memory = 0 /\ Ahead' = Len(l.list) + 1 /\ ~l'.disabled
        BY <1>2, <1>5, <1>7, <2>1, <2>2
      <3> QED
        BY <1>2, <1>3, <1>4, <2>1, <2>2, <3>1 DEF PlaceInv, Blank, InList, Underway, Owing, Heard
    <2>3. CASE l' = Advance(l) /\ owed' = owed
      <3>1. l'.memory = l.memory /\ Ahead' = Ahead /\ ~l'.disabled
        BY <1>2, <1>5, <1>7, <2>3
      <3> QED
        BY <1>1, <1>2, <1>3, <1>4, <1>7, <2>1, <2>3, <3>1
           DEF PlaceInv, Blank, InList, Underway, Owing, Heard
    <2> QED
      BY <1>1, <2>2, <2>3
  <1> QED
    BY <1>6, <1>7

LEMMA ThrowPlace ==
  ASSUME PlaceInv, EntryThrows
  PROVE  PlaceInv'
  <1>1. threw' = TRUE /\ UNCHANGED <<l, called, owed, heard>>
    BY DEF EntryThrows, listHistory
  <1> QED
    BY <1>1 DEF PlaceInv, Blank, InList, Underway, Owing, Heard, Ears

LEMMA EndPlace ==
  ASSUME IInv, RoundInv, PlaceInv, EndListRound
  PROVE  PlaceInv'
  <1>1. /\ l' = End(l, options) /\ UNCHANGED <<running, threw, heard>>
        /\ l.firing /\ ~running /\ ~threw /\ (l.disabled \/ ~(l.at <= l.length))
    BY DEF EndListRound, ListLooping, HasNext
  <1>2. l.list \in Seq(Entries) /\ Len(l.list) \in Nat /\ l.at \in Nat /\ l.start = 0
    BY DEF RoundInv, RoundTypes
  <1>3. /\ l'.firing => /\ l'.list = l.list /\ (l'.disabled <=> l.disabled) /\ ~l'.disabled /\ l'.at = 1
                        /\ l'.length = Len(l.list)
        /\ ~l'.firing => /\ l'.list \in {l.list, <<>>}
                         /\ l'.disabled => l.disabled \/ (l'.list = <<>> /\ l'.memory = 0)
                         /\ l.disabled => l'.disabled
                         /\ l'.memory \in {0, l.memory}
                         /\ l'.disabled /\ l.disabled => l'.list = l.list /\ l'.memory = l.memory
    BY <1>1, <1>2, EndIs DEF IInv, Good
  <1>4. Ears'
    BY <1>1 DEF PlaceInv, Ears
  <1>5. CASE l'.firing
    <2>1. StartsWith(l')
      BY <1>5 DEF EndListRound
    <2>2. Owing'
      BY <1>1, <1>2, <1>3, <1>5, <2>1, StartOwes
    <2>3. Ahead' = 1
      BY <1>1, <1>3, <1>5 DEF Ahead
    <2>4. InList' /\ Heard' /\ Blank'
      BY <1>2, <1>3, <1>5, <2>3 DEF InList, Heard, Blank
    <2> QED
      BY <1>4, <2>2, <2>4 DEF PlaceInv
  <1>6. CASE ~l'.firing /\ l.disabled
    <2>1. l'.list = <<>> /\ l'.memory = 0
      BY <1>3, <1>6 DEF PlaceInv, Blank
    <2> QED
      BY <1>4, <1>6, <2>1 DEF PlaceInv, Blank, InList, Underway, Owing, Heard
  <1>7. CASE ~l'.firing /\ ~l.disabled
    <2>1. l.length = Len(l.list) /\ Ahead = l.at /\ l.at \in 1..Len(l.list) + 1
      BY <1>1, <1>7 DEF PlaceInv, InList, Underway, Ahead
    <2>2. \A k \in 1..Len(l.list) : k < Ahead
      BY <1>1, <1>2, <1>7, <2>1
    <2>3. l.memory # 0 => \A k \in 1..Len(l.list) : heard[l.list[k].n] = l.memory
      BY <1>1, <2>2 DEF PlaceInv, Heard
    <2>4. Len(<<>>) = 0
      OBVIOUS
    <2>5. Heard'
      BY <1>1, <1>3, <1>7, <2>3, <2>4 DEF Heard
    <2>6. Blank'
      BY <1>3, <1>7 DEF Blank
    <2> QED
      BY <1>4, <1>7, <2>5, <2>6 DEF PlaceInv, InList, Underway, Owing
  <1> QED
    BY <1>5, <1>6, <1>7

LEMMA InitPlace == ListInit => PlaceInv
  <1> SUFFICES ASSUME ListInit PROVE PlaceInv
    OBVIOUS
  <1>1. l.list = <<>> /\ l.memory = 0 /\ ~l.firing /\ heard = [n \in 1..MaxEntries |-> 0]
    BY DEF ListInit, NewList
  <1> QED
    BY <1>1 DEF PlaceInv, Blank, InList, Underway, Owing, Heard, Ears

LEMMA StepPlace ==
  ASSUME ~EmptyInside
  PROVE  IInv /\ RoundInv /\ PlaceInv /\ [ListNext]_listVars => PlaceInv'
  <1> SUFFICES ASSUME IInv, RoundInv, PlaceInv, [ListNext]_listVars PROVE PlaceInv'
    OBVIOUS
  <1>1. CASE UNCHANGED listVars
    BY <1>1 DEF listVars, PlaceInv, Blank, InList, Underway, Owing, Heard, Ears, Ahead
  <1>2. CASE ListNext
    BY <1>2, AddPlace, RemovePlace, ClearPlace, FirePlace, CallPlace, ReturnPlace, ThrowPlace, EndPlace
       DEF ListNext, Loop
  <1> QED
    BY <1>1, <1>2

LEMMA PlaceInductive ==
  ASSUME ~EmptyInside
  PROVE  ListSpec => [](RoundInv /\ PlaceInv)
  <1>1. ListInit => RoundInv /\ PlaceInv
    BY InitRound, InitPlace
  <1>2. IInv /\ RoundInv /\ PlaceInv /\ [ListNext]_listVars => (RoundInv /\ PlaceInv)'
    BY StepRound, StepPlace
  <1> QED
    BY <1>1, <1>2, Inductive, PTL DEF ListSpec

\* Where no callback calls empty (which loses the place of the round), a round that ends
\* has called every entry it had to call and nobody removed, however entries were added,
\* removed and moved meanwhile (fire, add, remove, lock, disable).
THEOREM NoEntrySkipped ==
  ASSUME ~EmptyInside
  PROVE  ListSpec => []NoneSkipped
  <1>1. RoundInv /\ PlaceInv => NoneSkipped
    <2> SUFFICES ASSUME RoundInv, PlaceInv, ListLooping, ~HasNext(l), NEW n \in owed
                 PROVE  \E i \in 1..Len(called) : called[i] = n
      BY DEF NoneSkipped
    <2>1. l.firing /\ ~running /\ ~threw /\ (l.disabled \/ ~(l.at <= l.length))
      BY DEF ListLooping, HasNext
    <2>2. ~l.disabled
      BY <2>1 DEF PlaceInv, Blank
    <2>3. l.length = Len(l.list) /\ Ahead = l.at /\ l.at \in Nat /\ Len(l.list) \in Nat
      BY <2>1, <2>2 DEF PlaceInv, InList, Underway, Ahead, RoundInv, RoundTypes
    <2>4. \A k \in 1..Len(l.list) : ~(k >= Ahead)
      BY <2>1, <2>2, <2>3
    <2> QED
      BY <2>1, <2>2, <2>4 DEF PlaceInv, Owing, Underway
  <1> QED
    BY <1>1, PlaceInductive, PTL

\* There, every entry of a list at rest that remembers has been called with the last value
\* fired, however late it was added (add, fire, disable).
THEOREM LateEntriesHear ==
  ASSUME ~EmptyInside
  PROVE  ListSpec => []MemoryIsHeard
  <1>1. RoundInv /\ PlaceInv => MemoryIsHeard
    BY DEF PlaceInv, Heard, RoundInv, Turns, MemoryIsHeard, Numbers
  <1> QED
    BY <1>1, PlaceInductive, PTL
===============================================================================
