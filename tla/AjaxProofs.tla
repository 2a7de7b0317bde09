------------------------------ MODULE AjaxProofs ------------------------------
(***************************************************************************)
(* Proofs about the requests of any page, for any number of requests.        *)
(***************************************************************************)
EXTENDS Ajax, FiniteSetTheorems, TLAPS

Stages    == {"idle", "open", "settled", "complete", "finished", "threw"}
Nullable  == Requests \cup {None}
Generated == 1..Cardinality(Requests)       \* the names ajax may generate
Made      == {r \in Requests : kind[r] # "none"}

Types ==
    /\ kind \in [Requests -> Jsonp \cup {"plain", "none"}]
    /\ phase \in [Requests -> Stages]
    /\ name \in [Requests -> Names \cup {0}]
    /\ held \in [Requests -> Nullable]
    /\ overwritten \in [Requests -> Nullable]
    /\ window \in [Names -> Nullable]
    /\ oldCallbacks \in Seq(Generated)
    /\ named \in Nat
    /\ active \in Nat
    /\ net \in [Requests -> {"no", "sent", "gone"}]
    /\ stack \in Seq(Requests)
    /\ outcome \in [Requests -> {"none", "success", "error", "aborted"}]
    /\ got \in [Requests -> Nullable]

\* Requests of a generated name, and where each request is in its life.
Named(r) == kind[r] \in {"script", "local"}

Lives ==
    \A r \in Requests :
        /\ phase[r] = "idle" <=> kind[r] = "none"
        /\ phase[r] \in {"idle", "open"} => outcome[r] = "none"
        /\ net[r] = "sent" /\ phase[r] # "open" => kind[r] \in Scripted /\ outcome[r] = "aborted"
        /\ kind[r] = "none" => held[r] = None
        /\ kind[r] = "fixed" => name[r] = Fixed
        /\ Named(r) => name[r] \in 1..named
        /\ kind[r] \in {"plain", "none"} => name[r] = 0

\* done() runs once at a time for a request.
StackRight ==
    /\ \A i \in 1..Len(stack) : phase[stack[i]] \in {"settled", "complete"}
    /\ \A i, j \in 1..Len(stack) : stack[i] = stack[j] => i = j

\* Each generated name is free or stands for the open request that has it.
Free(n) == \E i \in 1..Len(oldCallbacks) : oldCallbacks[i] = n

FewNames  == named <= Cardinality(Made)
OldOnes   == /\ \A i \in 1..Len(oldCallbacks) : oldCallbacks[i] <= named
             /\ \A i, j \in 1..Len(oldCallbacks) : oldCallbacks[i] = oldCallbacks[j] => i = j
Installed == \A n \in Generated : window[n] # None => phase[window[n]] = "open" /\ name[window[n]] = n
AllPlaced == \A n \in 1..named : Free(n) \/ window[n] # None
Standing  == \A r \in Requests : Named(r) /\ phase[r] = "open" => window[name[r]] = r /\ ~Free(name[r])

NamesRight == FewNames /\ OldOnes /\ Installed /\ AllPlaced /\ Standing

\* Only the name the page chose is ever installed over another function.
FixedRight ==
    /\ window[Fixed] # None => kind[window[Fixed]] = "fixed"
    /\ \A r \in Requests : overwritten[r] # None => kind[r] = "fixed" /\ kind[overwritten[r]] = "fixed"

\* The answer x may be given to r.
Suits(x, r) == x = r \/ (kind[x] = "script" /\ outcome[x] = "aborted" /\ name[x] = name[r])

HeldRight(h) == \A r \in Requests : Named(r) /\ h[r] # None => Suits(h[r], r)

GotRight == \A r \in Requests : outcome[r] = "success" /\ kind[r] # "fixed" => got[r] \in Requests /\ Suits(got[r], r)

Counted == {r \in Requests : Global(kind[r]) /\ phase[r] \in {"open", "settled", "complete", "threw"}}

IInv ==
    /\ Types /\ Lives /\ StackRight /\ NamesRight /\ FixedRight
    /\ HeldRight(held) /\ GotRight /\ ActiveCounts

-------------------------------------------------------------------------------
(* Sequences. *)

\* The last element of a sequence and what is before it.
LEMMA LastFront ==
  ASSUME NEW S, NEW s \in Seq(S), s # <<>>
  PROVE  /\ Len(s) \in Nat \ {0}
         /\ Last(s) = s[Len(s)] /\ Last(s) \in S
         /\ Front(s) \in Seq(S) /\ Len(Front(s)) = Len(s) - 1
         /\ \A i \in 1..Len(s) - 1 : Front(s)[i] = s[i]
  <1>1. Len(s) \in Nat \ {0} /\ \A i \in 1..Len(s) : s[i] \in S
    OBVIOUS
  <1>2. Last(s) = s[Len(s)] /\ Last(s) \in S
    BY <1>1 DEF Last
  <1>3. Front(s) = SubSeq(s, 1, Len(s) - 1)
    BY DEF Front
  <1>4. ASSUME NEW n \in Nat, n <= Len(s)
        PROVE  SubSeq(s, 1, n) \in Seq(S) /\ Len(SubSeq(s, 1, n)) = n /\ \A i \in 1..n : SubSeq(s, 1, n)[i] = s[i]
    <2>1. SubSeq(s, 1, n) \in Seq(S)
      BY <1>4
    <2>2. Len(SubSeq(s, 1, n)) = n
      BY <1>4
    <2>3. ASSUME NEW i \in 1..n PROVE SubSeq(s, 1, n)[i] = s[i]
      BY <1>4
    <2> QED
      BY <2>1, <2>2, <2>3
  <1>5. Len(s) - 1 \in Nat /\ Len(s) - 1 <= Len(s)
    BY <1>1
  <1>6. /\ Front(s) \in Seq(S) /\ Len(Front(s)) = Len(s) - 1
        /\ \A i \in 1..Len(s) - 1 : Front(s)[i] = s[i]
    BY ONLY <1>3, <1>4, <1>5, Zenon
  <1> QED
    BY <1>1, <1>2, <1>6

\* Appending keeps what was there.
LEMMA Appended ==
  ASSUME NEW S, NEW s \in Seq(S), NEW x \in S
  PROVE  /\ Append(s, x) \in Seq(S) /\ Len(Append(s, x)) = Len(s) + 1 /\ Len(s) \in Nat
         /\ Append(s, x)[Len(s) + 1] = x
         /\ \A i \in 1..Len(s) : Append(s, x)[i] = s[i]
  OBVIOUS

-------------------------------------------------------------------------------
(* Names. *)

\* There is one name for each request, and the page's.
LEMMA NamesAre ==
  /\ Cardinality(Requests) \in Nat /\ Fixed = Cardinality(Requests) + 1
  /\ Names = Generated \cup {Fixed} /\ Fixed \notin Generated /\ Generated = Names \ {Fixed}
  /\ 0 \notin Names
  BY RequestsType, FS_CardinalityType DEF Names, Fixed, Generated

\* A page that has not made all its requests has not used all names.
LEMMA NameLeft ==
  ASSUME IInv, NEW r \in Requests, kind[r] = "none"
  PROVE  named < Cardinality(Requests)
  <1>1. Made \subseteq Requests \ {r}
    BY DEF Made
  <1>2. IsFiniteSet(Requests \ {r}) /\ Cardinality(Requests \ {r}) = Cardinality(Requests) - 1
    BY RequestsType, FS_RemoveElement
  <1>3. IsFiniteSet(Made) /\ Cardinality(Made) <= Cardinality(Requests) - 1
    BY <1>1, <1>2, FS_Subset
  <1>4. Cardinality(Made) \in Nat
    BY <1>3, FS_CardinalityType
  <1> QED
    BY <1>3, <1>4, NamesAre DEF IInv, NamesRight, FewNames, Types

\* At most as many names as requests made were generated.
LEMMA NamedInRange ==
  ASSUME IInv
  PROVE  named \in 0..Cardinality(Requests) /\ 1..named \subseteq Generated
  <1>1. IsFiniteSet(Made) /\ Cardinality(Made) <= Cardinality(Requests)
    BY RequestsType, FS_Subset DEF Made
  <1>2. Cardinality(Made) \in Nat
    BY <1>1, FS_CardinalityType
  <1> QED
    BY <1>1, <1>2, NamesAre DEF IInv, NamesRight, FewNames, Types, Generated

\* A free name stands for nothing.
LEMMA FreeIsUnused ==
  ASSUME IInv, NEW n \in Generated, Free(n) \/ n > named
  PROVE  window[n] = None
  <1> SUFFICES ASSUME window[n] # None PROVE FALSE
    OBVIOUS
  <1>1. window[n] \in Requests /\ phase[window[n]] = "open" /\ name[window[n]] = n
    BY NamesAre DEF IInv, Types, NamesRight, Installed, Nullable
  <1>2. Named(window[n])
    BY <1>1, NamesAre DEF IInv, Types, Lives, Named, Jsonp
  <1> QED
    BY <1>1, <1>2, NamesAre DEF IInv, Lives, NamesRight, Standing, Types, Generated

\* What the prefilter gives a new request as its name.
LEMMA NewName ==
  ASSUME IInv, NEW r \in Requests, kind[r] = "none", NEW k \in Jsonp \cup {"plain"}
  PROVE  /\ NameFor(k) \in Names \cup {0}
         /\ k = "fixed" <=> NameFor(k) = Fixed
         /\ k = "plain" <=> NameFor(k) = 0
         /\ k \in {"script", "local"} =>
               /\ NameFor(k) \in Generated
               /\ window[NameFor(k)] = None
               /\ oldCallbacks # <<>> => NameFor(k) = Last(oldCallbacks) /\ Free(NameFor(k)) /\ NameFor(k) <= named
               /\ oldCallbacks = <<>> => NameFor(k) = named + 1
  <1>1. named + 1 \in Generated /\ named \in Nat
    BY NameLeft, NamesAre DEF IInv, Types, Generated
  <1>2. CASE k \notin {"script", "local"}
    BY <1>2, NamesAre DEF NameFor, Jsonp
  <1>3. CASE k \in {"script", "local"} /\ oldCallbacks = <<>>
    <2>1. NameFor(k) = named + 1
      BY <1>3 DEF NameFor
    <2> QED
      BY <1>1, <1>3, <2>1, FreeIsUnused, NamesAre
  <1>4. CASE k \in {"script", "local"} /\ oldCallbacks # <<>>
    <2>1. NameFor(k) = Last(oldCallbacks)
      BY <1>4 DEF NameFor
    <2>2. /\ Len(oldCallbacks) \in Nat \ {0}
          /\ Last(oldCallbacks) = oldCallbacks[Len(oldCallbacks)] /\ Last(oldCallbacks) \in Generated
      BY <1>4, LastFront DEF IInv, Types
    <2>3. Free(NameFor(k)) /\ NameFor(k) <= named /\ NameFor(k) \in Generated
      BY <2>1, <2>2 DEF Free, IInv, NamesRight, OldOnes
    <2> QED
      BY <1>4, <2>1, <2>3, FreeIsUnused, NamesAre
  <1> QED
    BY <1>2, <1>3, <1>4

-------------------------------------------------------------------------------
(* The invariant is inductive. *)

LEMMA InitInv ==
  ASSUME RequestsInit
  PROVE  IInv
  <1> USE DEF RequestsInit
  <1>1. Types
    BY NamesAre DEF Types, Stages, Nullable, Generated
  <1>2. Lives /\ StackRight /\ FixedRight
    BY NamesAre DEF Lives, StackRight, FixedRight, Named, Jsonp
  <1>3. Made = {} /\ Cardinality(Made) = 0
    BY FS_EmptySet DEF Made
  <1>4. NamesRight
    BY <1>3, NamesAre DEF NamesRight, FewNames, OldOnes, Installed, AllPlaced, Standing, Named
  <1>5. HeldRight(held) /\ GotRight
    BY DEF HeldRight, GotRight
  <1>6. Counted = {} /\ Cardinality(Counted) = 0
    BY FS_EmptySet DEF Counted, Global
  <1> QED
    BY <1>1, <1>2, <1>4, <1>5, <1>6 DEF IInv, ActiveCounts, Counted

\* The requests counted are a finite set, as large as the counter.
LEMMA CountedIs ==
  ASSUME IInv
  PROVE  IsFiniteSet(Counted) /\ active = Cardinality(Counted) /\ active \in Nat
  BY RequestsType, FS_Subset DEF IInv, ActiveCounts, Counted, Types

\* One more is counted, one less, or as many.
LEMMA OneMore ==
  ASSUME IInv, NEW r \in Requests, r \notin Counted, Counted' = Counted \cup {r}, active' = active + 1
  PROVE  ActiveCounts'
  BY CountedIs, FS_AddElement DEF ActiveCounts, Counted

LEMMA OneLess ==
  ASSUME IInv, NEW r \in Requests, r \in Counted, Counted' = Counted \ {r}, active' = active - 1
  PROVE  ActiveCounts' /\ active' \in Nat
  <1>1. Cardinality(Counted \ {r}) = Cardinality(Counted) - 1 /\ IsFiniteSet(Counted \ {r})
    BY CountedIs, FS_RemoveElement
  <1>2. Cardinality(Counted \ {r}) \in Nat
    BY <1>1, FS_CardinalityType
  <1> QED
    BY <1>1, <1>2, CountedIs DEF ActiveCounts, Counted

LEMMA AsMany ==
  ASSUME IInv, Counted' = Counted, active' = active
  PROVE  ActiveCounts'
  BY CountedIs DEF ActiveCounts, Counted

\* One more request is made.
LEMMA OneMade ==
  ASSUME IInv, NEW r \in Requests, kind[r] = "none", NEW k \in Jsonp \cup {"plain"},
         kind' = [kind EXCEPT ![r] = k]
  PROVE  Cardinality(Made') = Cardinality(Made) + 1 /\ Cardinality(Made) \in Nat
  <1>1. Made' = Made \cup {r} /\ r \notin Made
    BY DEF IInv, Types, Made, Jsonp
  <1>2. IsFiniteSet(Made) /\ Cardinality(Made) \in Nat
    BY RequestsType, FS_Subset, FS_CardinalityType DEF Made
  <1> QED
    BY <1>1, <1>2, FS_AddElement

\* What suits a request goes on to, while nothing that tells is changed.
LEMMA SuitsKept ==
  ASSUME NEW r, NEW x, Suits(x, r), kind'[x] = kind[x], name'[x] = name[x], name'[r] = name[r],
         outcome[x] = "aborted" => outcome'[x] = "aborted"
  PROVE  Suits(x, r)'
  BY DEF Suits

-------------------------------------------------------------------------------
(* A request is made. *)

\* What holds of a request that is not made yet.
LEMMA Unmade ==
  ASSUME IInv, NEW r \in Requests, kind[r] = "none"
  PROVE  /\ phase[r] = "idle" /\ outcome[r] = "none" /\ held[r] = None /\ r \notin Counted
         /\ \A i \in 1..Len(stack) : stack[i] # r
         /\ \A q \in Requests : Named(q) /\ held[q] # None => held[q] # r
         /\ \A q \in Requests : outcome[q] = "success" /\ kind[q] # "fixed" => got[q] # r
  <1>1. phase[r] = "idle" /\ outcome[r] = "none" /\ held[r] = None
    BY DEF IInv, Lives
  <1>2. \A i \in 1..Len(stack) : stack[i] # r
    BY <1>1 DEF IInv, StackRight
  <1>3. ASSUME NEW q \in Requests, Suits(r, q) PROVE q = r
    BY <1>1, <1>3 DEF Suits
  <1> QED
    BY <1>1, <1>2, <1>3 DEF IInv, HeldRight, GotRight, Counted, Global, Named

\* The names after one was given to a new JSONP request that keeps it (ajax), with its
\* function installed.
LEMMA SendKeepsNames ==
  ASSUME IInv, NEW r \in Requests, NEW k \in Jsonp \cup {"plain"}, Send(r, k)
  PROVE  NamesRight'
  <1>0. PICK n : n = NameFor(k)
    OBVIOUS
  <1>1. /\ kind[r] = "none" /\ kind' = [kind EXCEPT ![r] = k] /\ phase' = [phase EXCEPT ![r] = "open"]
        /\ name' = [name EXCEPT ![r] = n]
        /\ oldCallbacks' = IF n \in Names \ {Fixed} /\ oldCallbacks # <<>> THEN Front(oldCallbacks) ELSE oldCallbacks
        /\ named' = IF n = named + 1 /\ k # "fixed" THEN named + 1 ELSE named
        /\ window' = IF k \in Jsonp THEN [window EXCEPT ![n] = r] ELSE window
    BY <1>0 DEF Send
  <1>2. /\ n \in Names \cup {0} /\ (k = "fixed" <=> n = Fixed) /\ (k = "plain" <=> n = 0)
        /\ k \in {"script", "local"} =>
               /\ n \in Generated
               /\ window[n] = None
               /\ oldCallbacks # <<>> => n = Last(oldCallbacks) /\ Free(n) /\ n <= named
               /\ oldCallbacks = <<>> => n = named + 1
    BY <1>0, <1>1, NewName
  <1>3. Cardinality(Made') = Cardinality(Made) + 1 /\ Cardinality(Made) \in Nat
    BY <1>1, OneMade
  <1>4. phase[r] = "idle" /\ \A q \in Requests : q # r => kind'[q] = kind[q] /\ phase'[q] = phase[q] /\ name'[q] = name[q]
    BY <1>1, Unmade DEF IInv, Types
  <1>5. kind'[r] = k /\ phase'[r] = "open" /\ name'[r] = n
    BY <1>1 DEF IInv, Types
  <1>6. named \in Nat /\ named <= Cardinality(Made) /\ 1..named \subseteq Generated
    BY NamedInRange DEF IInv, Types, NamesRight, FewNames
  <1>7. \A m \in Generated : window[m] # r
    BY <1>4, RequestsType DEF IInv, NamesRight, Installed
  <1>8. CASE k \notin {"script", "local"}
    <2>1. oldCallbacks' = oldCallbacks /\ named' = named
      BY <1>1, <1>2, <1>6, <1>8, NamesAre DEF Jsonp
    <2>2. \A m \in Generated : window'[m] = window[m]
      BY <1>1, <1>2, <1>8, NamesAre DEF Jsonp, IInv, Types
    <2>3. ~Named(r)'
      BY <1>5, <1>8 DEF Named
    <2>4. \A q \in Requests : Named(q)' => Named(q) /\ q # r
      BY <1>4, <2>3 DEF Named
    <2>5. \A q \in Requests : Named(q) => name[q] \in Generated
      BY <1>6 DEF IInv, Lives
    <2>6. ASSUME NEW m \in Generated, window'[m] # None PROVE phase'[window'[m]] = "open" /\ name'[window'[m]] = m
      BY <1>4, <1>7, <2>2, <2>6, NamesAre DEF IInv, NamesRight, Installed, Types, Nullable
    <2>7. ASSUME NEW q \in Requests, Named(q)', phase'[q] = "open" PROVE window'[name'[q]] = q /\ ~Free(name[q])'
      <3>1. name'[q] = name[q] /\ name[q] \in Generated /\ window[name[q]] = q /\ ~Free(name[q])
        BY <1>4, <2>4, <2>5, <2>7 DEF IInv, NamesRight, Standing
      <3> QED
        BY <2>1, <2>2, <3>1 DEF Free
    <2>8. \A m \in 1..named : Free(m)' = Free(m)
      BY <2>1 DEF Free
    <2>9. FewNames' /\ OldOnes'
      BY <1>3, <1>6, <2>1 DEF IInv, NamesRight, FewNames, OldOnes
    <2>10. AllPlaced'
      BY <1>6, <2>1, <2>2, <2>8 DEF IInv, NamesRight, AllPlaced
    <2>11. Installed' /\ Standing'
      BY <2>6, <2>7 DEF Installed, Standing
    <2> QED
      BY <2>9, <2>10, <2>11 DEF NamesRight
  <1>9. CASE k \in {"script", "local"}
    <2>1. n \in Generated /\ n \in Names /\ n # Fixed /\ window' = [window EXCEPT ![n] = r] /\ window[n] = None
      BY <1>1, <1>2, <1>9, NamesAre DEF Jsonp
    <2>2. window'[n] = r /\ \A m \in Generated : m # n => window'[m] = window[m]
      BY <2>1, NamesAre DEF IInv, Types
    <2>3. \A q \in Requests : Named(q)' => Named(q) \/ q = r
      BY <1>4 DEF Named
    <2>4. \A q \in Requests : Named(q) => name[q] \in Generated
      BY <1>6 DEF IInv, Lives
    <2>5. ASSUME NEW m \in Generated, window'[m] # None PROVE phase'[window'[m]] = "open" /\ name'[window'[m]] = m
      BY <1>4, <1>5, <1>7, <2>2, <2>5, NamesAre DEF IInv, NamesRight, Installed, Types, Nullable
    <2>6. /\ named' \in Nat /\ named' <= Cardinality(Made) + 1 /\ named <= named' /\ n <= named'
          /\ \A i \in 1..Len(oldCallbacks') : oldCallbacks'[i] <= named' /\ oldCallbacks'[i] # n
          /\ \A i, j \in 1..Len(oldCallbacks') : oldCallbacks'[i] = oldCallbacks'[j] => i = j
          /\ \A m \in 1..named' : m # n => (Free(m) => Free(m)') /\ m \in 1..named
          /\ \A m : Free(m)' => Free(m)
      <3>1. CASE oldCallbacks = <<>>
        <4>1. n = named + 1 /\ named' = named + 1 /\ oldCallbacks' = <<>>
          BY <1>1, <1>2, <1>9, <3>1
        <4>2. \A m : ~Free(m)' /\ ~Free(m)
          BY <3>1, <4>1 DEF Free
        <4>3. Len(oldCallbacks') = 0
          BY <4>1
        <4>4. \A m \in 1..named' : m # n => m \in 1..named
          BY <1>6, <4>1
        <4>5. named' \in Nat /\ named' <= Cardinality(Made) + 1 /\ named <= named' /\ n <= named'
          BY <1>3, <1>6, <4>1
        <4>6. \A i \in 1..Len(oldCallbacks') : FALSE
          BY <4>3
        <4> QED
          BY <4>2, <4>4, <4>5, <4>6, Zenon
      <3>2. CASE oldCallbacks # <<>>
        <4> DEFINE l == Len(oldCallbacks)
        <4>1. oldCallbacks' = Front(oldCallbacks) /\ n = Last(oldCallbacks) /\ n <= named
          BY <1>1, <1>2, <1>9, <2>1, <3>2
        <4>2. n # named + 1 /\ named' = named
          BY <1>1, <1>6, <2>1, <4>1 DEF Generated
        <4>3. /\ l \in Nat \ {0} /\ n = oldCallbacks[l] /\ Len(oldCallbacks') = l - 1
              /\ \A i \in 1..l - 1 : oldCallbacks'[i] = oldCallbacks[i]
          BY <3>2, <4>1, LastFront DEF IInv, Types
        <4> HIDE DEF l
        <4>4. /\ \A i \in 1..l : oldCallbacks[i] <= named
              /\ \A i, j \in 1..l : oldCallbacks[i] = oldCallbacks[j] => i = j
          BY DEF IInv, NamesRight, OldOnes, l
        <4>5. ASSUME NEW m \in 1..named', m # n, Free(m) PROVE Free(m)'
          <5>1. PICK i \in 1..l : oldCallbacks[i] = m
            BY <4>5 DEF Free, l
          <5>2. i \in 1..l - 1
            BY <4>3, <4>5, <5>1
          <5> QED
            BY <4>3, <5>1, <5>2 DEF Free
        <4>6. ASSUME NEW m, Free(m)' PROVE Free(m)
          BY <4>3, <4>6 DEF Free, l
        <4>7. \A i \in 1..l - 1 : oldCallbacks'[i] <= named /\ oldCallbacks'[i] # n
          BY <4>3, <4>4
        <4>8. \A i, j \in 1..l - 1 : oldCallbacks'[i] = oldCallbacks'[j] => i = j
          BY <4>3, <4>4
        <4> QED
          BY <1>3, <1>6, <4>1, <4>2, <4>3, <4>5, <4>6, <4>7, <4>8
      <3> QED
        BY <3>1, <3>2
    <2>7. ~Free(n)'
      BY <2>6 DEF Free
    <2>8. ASSUME NEW q \in Requests, Named(q)', phase'[q] = "open" PROVE window'[name'[q]] = q /\ ~Free(name[q])'
      <3>1. CASE q = r
        BY <1>5, <2>2, <2>7, <3>1
      <3>2. CASE q # r
        <4>1. name'[q] = name[q] /\ name[q] \in Generated /\ window[name[q]] = q /\ ~Free(name[q])
          BY <1>4, <2>3, <2>4, <2>8, <3>2 DEF IInv, NamesRight, Standing
        <4>2. name[q] # n
          BY <2>1, <4>1, RequestsType
        <4>3. PICK m : m = name[q]
          OBVIOUS
        <4>4. window'[m] = q /\ ~Free(m)'
          BY <2>2, <2>6, <4>1, <4>2, <4>3
        <4> QED
          BY <4>1, <4>3, <4>4 DEF Free
      <3> QED
        BY <3>1, <3>2
    <2>9. ASSUME NEW m \in 1..named' PROVE Free(m)' \/ window'[m] # None
      BY <1>6, <2>2, <2>6, <2>9, RequestsType DEF IInv, NamesRight, AllPlaced
    <2>10. FewNames' /\ OldOnes'
      BY <1>3, <2>6 DEF FewNames, OldOnes
    <2>11. Installed' /\ AllPlaced'
      BY <2>5, <2>9 DEF Installed, AllPlaced
    <2>12. Standing'
      BY <2>8 DEF Standing
    <2> QED
      BY <2>10, <2>11, <2>12 DEF NamesRight
  <1> QED
    BY <1>8, <1>9

\* The stacks of requests that were there go on as they are; so do the answers.
LEMMA SendKeeps ==
  ASSUME IInv, NEW r \in Requests, NEW k \in Kinds, Send(r, k)
  PROVE  IInv'
  <1>0. PICK n : n = NameFor(k)
    OBVIOUS
  <1>1. /\ kind[r] = "none" /\ kind' = [kind EXCEPT ![r] = k] /\ phase' = [phase EXCEPT ![r] = "open"]
        /\ name' = [name EXCEPT ![r] = n]
        /\ oldCallbacks' = IF n \in Names \ {Fixed} /\ oldCallbacks # <<>> THEN Front(oldCallbacks) ELSE oldCallbacks
        /\ named' = IF n = named + 1 /\ k # "fixed" THEN named + 1 ELSE named
        /\ window' = IF k \in Jsonp THEN [window EXCEPT ![n] = r] ELSE window
        /\ overwritten' = IF k \in Jsonp THEN [overwritten EXCEPT ![r] = window[n]] ELSE overwritten
        /\ active' = IF Global(k) THEN active + 1 ELSE active
        /\ net' = [net EXCEPT ![r] = "sent"]
        /\ UNCHANGED <<held, stack, outcome, got>>
    BY <1>0 DEF Send
  <1>2. k \in Jsonp \cup {"plain"} /\ (k \in Jsonp <=> k # "plain")
    BY KindsType DEF Jsonp
  <1>3. /\ n \in Names \cup {0} /\ (k = "fixed" <=> n = Fixed) /\ (k = "plain" <=> n = 0)
        /\ k \in {"script", "local"} =>
               /\ n \in Generated
               /\ window[n] = None
               /\ oldCallbacks # <<>> => n = Last(oldCallbacks) /\ Free(n) /\ n <= named
               /\ oldCallbacks = <<>> => n = named + 1
    BY <1>0, <1>1, <1>2, NewName
  <1>4. NamesRight'
    BY <1>2, SendKeepsNames
  <1>5. Types
    BY DEF IInv
  <1>6. /\ \A q \in Requests : q # r => kind'[q] = kind[q] /\ phase'[q] = phase[q] /\ name'[q] = name[q]
        /\ kind'[r] = k /\ phase'[r] = "open" /\ name'[r] = n
    BY <1>1, <1>5 DEF Types
  <1>7. Types'
    <2>1. oldCallbacks' \in Seq(Generated)
      BY <1>1, <1>5, LastFront DEF Types
    <2>2. named' \in Nat /\ active' \in Nat
      BY <1>1, <1>5 DEF Types
    <2>3. window' \in [Names -> Nullable] /\ overwritten' \in [Requests -> Nullable]
      <3>1. k \in Jsonp => n \in Names
        BY <1>2, <1>3, NamesAre
      <3> QED
        BY <1>1, <1>5, <3>1 DEF Types, Nullable
    <2>4. kind' \in [Requests -> Jsonp \cup {"plain", "none"}] /\ phase' \in [Requests -> Stages]
          /\ name' \in [Requests -> Names \cup {0}] /\ net' \in [Requests -> {"no", "sent", "gone"}]
      BY <1>1, <1>2, <1>3, <1>5 DEF Types, Stages
    <2> QED
      BY <1>1, <1>5, <2>1, <2>2, <2>3, <2>4 DEF Types
  <1>8. /\ phase[r] = "idle" /\ outcome[r] = "none" /\ held[r] = None /\ r \notin Counted
        /\ \A i \in 1..Len(stack) : stack[i] # r
        /\ \A q \in Requests : Named(q) /\ held[q] # None => held[q] # r
        /\ \A q \in Requests : outcome[q] = "success" /\ kind[q] # "fixed" => got[q] # r
    BY <1>1, Unmade
  <1>9. Lives'
    <2>1. ASSUME NEW q \in Requests, q # r
          PROVE  /\ phase'[q] = "idle" <=> kind'[q] = "none"
                 /\ phase'[q] \in {"idle", "open"} => outcome'[q] = "none"
                 /\ net'[q] = "sent" /\ phase'[q] # "open" => kind'[q] \in Scripted /\ outcome'[q] = "aborted"
                 /\ kind'[q] = "none" => held'[q] = None
                 /\ kind'[q] = "fixed" => name'[q] = Fixed
                 /\ kind'[q] \in {"plain", "none"} => name'[q] = 0
                 /\ Named(q)' => name'[q] \in 1..named'
      <3>1. net'[q] = net[q] /\ (Named(q)' <=> Named(q)) /\ 1..named \subseteq 1..named'
        BY <1>1, <1>5, <1>6, <2>1 DEF Types, Named
      <3> QED
        BY <1>1, <1>6, <2>1, <3>1 DEF IInv, Lives
    <2>2. Named(r)' => n \in 1..named'
      <3> SUFFICES ASSUME k \in {"script", "local"} PROVE n \in 1..named'
        BY <1>6 DEF Named
      <3>1. n \in Nat /\ n >= 1 /\ n # Fixed /\ n \in Names
        BY <1>3, NamesAre DEF Generated
      <3>2. CASE oldCallbacks = <<>>
        BY <1>1, <1>3, <1>5, <3>1, <3>2 DEF Types
      <3>3. CASE oldCallbacks # <<>>
        BY <1>1, <1>3, <1>5, <3>1, <3>3 DEF Types
      <3> QED
        BY <3>2, <3>3
    <2>3. k # "none"
      BY <1>2 DEF Jsonp
    <2> QED
      BY <1>1, <1>3, <1>6, <1>8, <2>1, <2>2, <2>3 DEF Lives
  <1>10. StackRight'
    <2>1. \A i \in 1..Len(stack) : stack[i] \in Requests
      BY <1>5 DEF Types
    <2> QED
      BY <1>1, <1>6, <1>8, <2>1 DEF IInv, StackRight
  <1>11. FixedRight'
    <2>1. \A q \in Requests : overwritten[q] # None => overwritten[q] \in Requests /\ overwritten[q] # r /\ q # r
      BY <1>1, <1>5 DEF IInv, FixedRight, Types, Nullable
    <2>2. window[Fixed] # None => window[Fixed] \in Requests /\ window[Fixed] # r /\ kind[window[Fixed]] = "fixed"
      BY <1>1, <1>5, NamesAre DEF IInv, FixedRight, Types, Nullable
    <2>3. overwritten'[r] # None => k = "fixed" /\ overwritten'[r] = window[Fixed]
      <3>1. overwritten[r] = None
        BY <1>1 DEF IInv, FixedRight
      <3>2. CASE k \notin Jsonp
        BY <1>1, <3>1, <3>2
      <3>3. CASE k \in Jsonp
        BY <1>1, <1>2, <1>3, <1>5, <3>3 DEF Types, Jsonp
      <3> QED
        BY <3>2, <3>3
    <2>4. \A q \in Requests : q # r => overwritten'[q] = overwritten[q]
      BY <1>1, <1>5 DEF Types
    <2>5. window'[Fixed] = IF k = "fixed" THEN r ELSE window[Fixed]
      BY <1>1, <1>2, <1>3, <1>5, NamesAre DEF Types
    <2> QED
      BY <1>6, <2>1, <2>2, <2>3, <2>4, <2>5 DEF IInv, FixedRight
  <1>12. HeldRight(held)'
    <2> SUFFICES ASSUME NEW q \in Requests, Named(q)', held[q] # None PROVE Suits(held[q], q)'
      BY <1>1 DEF HeldRight
    <2>1. q # r /\ held[q] # r /\ held[q] \in Requests /\ Named(q) /\ Suits(held[q], q)
      BY <1>1, <1>5, <1>6, <1>8 DEF IInv, HeldRight, Types, Nullable, Named
    <2> QED
      BY <1>1, <1>6, <2>1 DEF Suits
  <1>13. GotRight'
    <2> SUFFICES ASSUME NEW q \in Requests, outcome[q] = "success", kind'[q] # "fixed"
                 PROVE  got[q] \in Requests /\ Suits(got[q], q)'
      BY <1>1 DEF GotRight
    <2>1. q # r /\ got[q] # r /\ got[q] \in Requests /\ Suits(got[q], q)
      BY <1>6, <1>8 DEF IInv, GotRight
    <2> QED
      BY <1>1, <1>6, <2>1 DEF Suits
  <1>14. ActiveCounts'
    <2>1. CASE Global(k)
      <3>1. Counted' = Counted \cup {r}
        BY <1>6, <2>1 DEF Counted
      <3> QED
        BY <1>1, <1>8, <2>1, <3>1, OneMore
    <2>2. CASE ~Global(k)
      <3>1. Counted' = Counted
        BY <1>6, <1>8, <2>2 DEF Counted
      <3> QED
        BY <1>1, <2>2, <3>1, AsMany
    <2> QED
      BY <2>1, <2>2
  <1> QED
    BY <1>4, <1>7, <1>9, <1>10, <1>11, <1>12, <1>13, <1>14 DEF IInv

\* A request cancelled in beforeSend gives its name back, if it is a new one.
LEMMA CancelKeeps ==
  ASSUME IInv, NEW r \in Requests, NEW k \in Kinds, Cancel(r, k)
  PROVE  IInv'
  <1>0. PICK n : n = NameFor(k)
    OBVIOUS
  <1>1. /\ kind[r] = "none" /\ kind' = [kind EXCEPT ![r] = k] /\ phase' = [phase EXCEPT ![r] = "settled"]
        /\ stack' = Append(stack, r)
        /\ name' = [name EXCEPT ![r] = n]
        /\ oldCallbacks' = IF n = named + 1 /\ k # "fixed" THEN Append(oldCallbacks, n) ELSE oldCallbacks
        /\ named' = IF n = named + 1 /\ k # "fixed" THEN n ELSE named
        /\ active' = IF Global(k) THEN active + 1 ELSE active
        /\ net' = [net EXCEPT ![r] = "gone"]
        /\ outcome' = [outcome EXCEPT ![r] = "aborted"]
        /\ UNCHANGED <<held, overwritten, window, got>>
    BY <1>0 DEF Cancel
  <1>2. k \in Jsonp \cup {"plain"} /\ (k \in Jsonp <=> k # "plain")
    BY KindsType DEF Jsonp
  <1>3. /\ n \in Names \cup {0} /\ (k = "fixed" <=> n = Fixed) /\ (k = "plain" <=> n = 0)
        /\ k \in {"script", "local"} =>
               /\ n \in Generated
               /\ window[n] = None
               /\ oldCallbacks # <<>> => n = Last(oldCallbacks) /\ Free(n) /\ n <= named
               /\ oldCallbacks = <<>> => n = named + 1
    BY <1>0, <1>1, <1>2, NewName
  <1>4. /\ phase[r] = "idle" /\ outcome[r] = "none" /\ held[r] = None /\ r \notin Counted
        /\ \A i \in 1..Len(stack) : stack[i] # r
        /\ \A q \in Requests : Named(q) /\ held[q] # None => held[q] # r
        /\ \A q \in Requests : outcome[q] = "success" /\ kind[q] # "fixed" => got[q] # r
    BY <1>1, Unmade
  <1>5. Types
    BY DEF IInv
  <1>6. /\ \A q \in Requests : q # r => /\ kind'[q] = kind[q] /\ phase'[q] = phase[q] /\ name'[q] = name[q]
                                        /\ net'[q] = net[q] /\ outcome'[q] = outcome[q]
        /\ kind'[r] = k /\ phase'[r] = "settled" /\ name'[r] = n /\ net'[r] = "gone" /\ outcome'[r] = "aborted"
    BY <1>1, <1>5 DEF Types
  <1>7. named \in Nat /\ named <= Cardinality(Made) /\ 1..named \subseteq Generated
    BY NamedInRange DEF IInv, Types, NamesRight, FewNames
  <1>8. \/ /\ oldCallbacks' = oldCallbacks /\ named' = named
           /\ k \in {"script", "local"} => n \in 1..named
        \/ /\ oldCallbacks = <<>> /\ oldCallbacks' = <<n>>
           /\ k \in {"script", "local"} /\ n = named + 1 /\ named' = named + 1 /\ n \in Generated
    <2>1. CASE k \notin {"script", "local"}
      BY <1>1, <1>2, <1>3, <1>7, <2>1, NamesAre DEF Jsonp
    <2>2. CASE k \in {"script", "local"} /\ oldCallbacks = <<>>
      BY <1>1, <1>3, <2>2
    <2>3. CASE k \in {"script", "local"} /\ oldCallbacks # <<>>
      BY <1>1, <1>3, <1>7, <2>3 DEF Generated
    <2> QED
      BY <2>1, <2>2, <2>3
  <1>9. Types'
    <2>1. oldCallbacks' \in Seq(Generated) /\ named' \in Nat
      BY <1>1, <1>5, <1>7, <1>8 DEF Types
    <2>2. active' \in Nat /\ stack' \in Seq(Requests)
      BY <1>1, <1>5 DEF Types
    <2>3. kind' \in [Requests -> Jsonp \cup {"plain", "none"}] /\ phase' \in [Requests -> Stages]
          /\ name' \in [Requests -> Names \cup {0}] /\ net' \in [Requests -> {"no", "sent", "gone"}]
          /\ outcome' \in [Requests -> {"none", "success", "error", "aborted"}]
      BY <1>1, <1>2, <1>3, <1>5 DEF Types, Stages
    <2> QED
      BY <1>1, <1>5, <2>1, <2>2, <2>3 DEF Types
  <1>10. Lives'
    <2>1. ASSUME NEW q \in Requests, q # r
          PROVE  /\ phase'[q] = "idle" <=> kind'[q] = "none"
                 /\ phase'[q] \in {"idle", "open"} => outcome'[q] = "none"
                 /\ net'[q] = "sent" /\ phase'[q] # "open" => kind'[q] \in Scripted /\ outcome'[q] = "aborted"
                 /\ kind'[q] = "none" => held'[q] = None
                 /\ kind'[q] = "fixed" => name'[q] = Fixed
                 /\ kind'[q] \in {"plain", "none"} => name'[q] = 0
                 /\ Named(q)' => name'[q] \in 1..named'
      <3>1. (Named(q)' <=> Named(q)) /\ 1..named \subseteq 1..named'
        BY <1>6, <1>7, <1>8, <2>1 DEF Named
      <3> QED
        BY <1>1, <1>6, <2>1, <3>1 DEF IInv, Lives
    <2>2. Named(r)' => n \in 1..named'
      BY <1>6, <1>7, <1>8 DEF Named
    <2>3. k # "none"
      BY <1>2 DEF Jsonp
    <2> QED
      BY <1>1, <1>3, <1>6, <1>4, <2>1, <2>2, <2>3 DEF Lives
  <1>11. StackRight'
    <2>1. /\ \A i \in 1..Len(stack) : stack[i] \in Requests /\ stack'[i] = stack[i]
          /\ Len(stack') = Len(stack) + 1 /\ stack'[Len(stack) + 1] = r /\ Len(stack) \in Nat
      BY <1>1, <1>5 DEF Types
    <2> QED
      BY <1>6, <1>4, <2>1 DEF IInv, StackRight
  <1>12. FixedRight'
    <2>1. \A q \in Requests : overwritten[q] # None => overwritten[q] \in Requests /\ overwritten[q] # r /\ q # r
      BY <1>1, <1>5 DEF IInv, FixedRight, Types, Nullable
    <2>2. window[Fixed] # None => window[Fixed] \in Requests /\ window[Fixed] # r
      BY <1>1, <1>5, NamesAre DEF IInv, FixedRight, Types, Nullable
    <2> QED
      BY <1>1, <1>6, <2>1, <2>2 DEF IInv, FixedRight
  <1>13. HeldRight(held)'
    <2> SUFFICES ASSUME NEW q \in Requests, Named(q)', held[q] # None PROVE Suits(held[q], q)'
      BY <1>1 DEF HeldRight
    <2>1. q # r /\ held[q] # r /\ held[q] \in Requests /\ Named(q) /\ Suits(held[q], q)
      BY <1>1, <1>4, <1>5, <1>6 DEF IInv, HeldRight, Types, Nullable, Named
    <2> QED
      BY <1>1, <1>6, <2>1 DEF Suits
  <1>14. GotRight'
    <2> SUFFICES ASSUME NEW q \in Requests, outcome'[q] = "success", kind'[q] # "fixed"
                 PROVE  got[q] \in Requests /\ Suits(got[q], q)'
      BY <1>1 DEF GotRight
    <2>1. q # r /\ got[q] # r /\ got[q] \in Requests /\ Suits(got[q], q)
      BY <1>4, <1>6 DEF IInv, GotRight
    <2> QED
      BY <1>1, <1>6, <2>1 DEF Suits
  <1>15. ActiveCounts'
    <2>1. CASE Global(k)
      <3>1. Counted' = Counted \cup {r}
        BY <1>6, <2>1 DEF Counted
      <3> QED
        BY <1>1, <1>4, <2>1, <3>1, OneMore
    <2>2. CASE ~Global(k)
      <3>1. Counted' = Counted
        BY <1>4, <1>6, <2>2 DEF Counted
      <3> QED
        BY <1>1, <2>2, <3>1, AsMany
    <2> QED
      BY <2>1, <2>2
  <1>16. NamesRight'
    <2>1. Cardinality(Made') = Cardinality(Made) + 1 /\ Cardinality(Made) \in Nat
      BY <1>1, <1>2, OneMade
    <2>2. FewNames'
      BY <1>7, <1>8, <2>1 DEF FewNames
    <2>3. OldOnes'
      <3>1. CASE oldCallbacks' = oldCallbacks /\ named' = named
        BY <3>1 DEF IInv, NamesRight, OldOnes
      <3>2. CASE oldCallbacks' = <<n>> /\ n = named + 1 /\ named' = named + 1
        BY <1>7, <3>2 DEF OldOnes
      <3> QED
        BY <1>8, <3>1, <3>2
    <2>4. Installed'
      BY <1>1, <1>4, <1>5, <1>6, NamesAre DEF IInv, NamesRight, Installed, Types, Nullable
    <2>6. AllPlaced'
      <3>1. CASE oldCallbacks' = oldCallbacks /\ named' = named
        BY <1>1, <3>1 DEF IInv, NamesRight, AllPlaced, Free
      <3>2. CASE /\ oldCallbacks = <<>> /\ oldCallbacks' = <<n>> /\ n = named + 1 /\ named' = named + 1
        <4>1. ASSUME NEW m \in 1..named', m # n PROVE window[m] # None
          BY <1>7, <3>2, <4>1 DEF IInv, NamesRight, AllPlaced, Free
        <4>2. Free(n)'
          BY <3>2 DEF Free
        <4> QED
          BY <1>1, <4>1, <4>2 DEF AllPlaced
      <3> QED
        BY <1>8, <3>1, <3>2
    <2>7. Standing'
      <3> SUFFICES ASSUME NEW q \in Requests, Named(q)', phase'[q] = "open"
                   PROVE  window[name'[q]] = q /\ ~Free(name[q])'
        BY <1>1 DEF Standing
      <3>1. q # r /\ Named(q) /\ window[name[q]] = q /\ ~Free(name[q]) /\ name'[q] = name[q]
        BY <1>6 DEF IInv, NamesRight, Standing, Named
      <3>2. ~Free(name[q])'
        <4>1. CASE oldCallbacks' = oldCallbacks
          BY <3>1, <4>1 DEF Free
        <4>2. CASE oldCallbacks' = <<n>> /\ window[n] = None
          BY <3>1, <4>2, RequestsType DEF Free
        <4> QED
          BY <1>3, <1>8, <4>1, <4>2
      <3> QED
        BY <3>1, <3>2
    <2> QED
      BY <2>2, <2>3, <2>4, <2>6, <2>7 DEF NamesRight
  <1> QED
    BY <1>9, <1>10, <1>11, <1>12, <1>13, <1>14, <1>15, <1>16 DEF IInv

-------------------------------------------------------------------------------
(* A request is done. *)

\* Containers the code may hold once a function was called: only those of made requests
\* have an answer, and one that suits.
Fills(h) ==
    /\ h \in [Requests -> Nullable]
    /\ \A q \in Requests : kind[q] = "none" => h[q] = None
    /\ HeldRight(h)

\* The clean-up gives the name of the request back, and its function is gone.
LEMMA CleanUpKeepsNames ==
  ASSUME IInv, NEW r \in Requests, phase[r] = "open", phase' = [phase EXCEPT ![r] = "settled"],
         NEW now, CleanUp(r, now), UNCHANGED <<kind, name, named>>
  PROVE  NamesRight' /\ oldCallbacks' \in Seq(Generated) /\ window' \in [Names -> Nullable]
  <1>1. Types
    BY DEF IInv
  <1>2. named \in Nat /\ 1..named \subseteq Generated
    BY NamedInRange, <1>1 DEF Types
  <1>3. FewNames'
    BY DEF IInv, NamesRight, FewNames, Made
  <1>4. phase'[r] = "settled" /\ \A q \in Requests : q # r => phase'[q] = phase[q]
    BY <1>1 DEF Types
  <1>5. ASSUME NEW q \in Requests, Named(q)', phase'[q] = "open"
        PROVE  q # r /\ window[name[q]] = q /\ ~Free(name[q]) /\ name[q] \in Generated /\ Named(q)
    BY <1>2, <1>4, <1>5 DEF IInv, NamesRight, Standing, Lives, Named
  <1>6. CASE ~Named(r)
    <2>1. oldCallbacks' = oldCallbacks /\ window' \in [Names -> Nullable]
          /\ \A m \in Generated : window'[m] = window[m]
      <3>1. CASE kind[r] \in Jsonp
        <4>1. kind[r] = "fixed" /\ name[r] = Fixed
          BY <1>6, <3>1 DEF Named, Jsonp, IInv, Lives
        <4> QED
          BY <1>1, <3>1, <4>1, NamesAre DEF CleanUp, Types
      <3>2. CASE kind[r] \notin Jsonp
        BY <1>1, <3>2, NamesAre DEF CleanUp, Types
      <3> QED
        BY <3>1, <3>2
    <2>2. \A m \in Generated : window[m] # r
      <3> SUFFICES ASSUME NEW m \in Generated, window[m] = r PROVE FALSE
        OBVIOUS
      <3>1. name[r] = m
        BY RequestsType DEF IInv, NamesRight, Installed
      <3> QED
        BY <1>1, <1>6, <3>1, NamesAre DEF IInv, Lives, Types, Named, Jsonp
    <2>3. Installed'
      BY <1>1, <1>4, <2>1, <2>2, NamesAre DEF IInv, NamesRight, Installed, Types, Nullable
    <2>4. OldOnes' /\ AllPlaced'
      BY <1>2, <2>1 DEF IInv, NamesRight, OldOnes, AllPlaced, Free
    <2>5. Standing'
      BY <1>5, <2>1 DEF Standing, Free
    <2> QED
      BY <1>1, <1>3, <2>1, <2>3, <2>4, <2>5 DEF NamesRight, Types
  <1>7. CASE Named(r)
    <2>0. PICK n : n = name[r]
      OBVIOUS
    <2>1. /\ n \in 1..named /\ n \in Generated /\ n \in Names /\ window[n] = r /\ ~Free(n) /\ kind[r] \in Jsonp
          /\ kind[r] # "fixed" /\ overwritten[r] = None
      BY <1>2, <1>7, <2>0, NamesAre DEF IInv, Lives, NamesRight, Standing, FixedRight, Named, Jsonp
    <2>2. window' = [window EXCEPT ![n] = None] /\ oldCallbacks' = Append(oldCallbacks, n)
      BY <2>0, <2>1 DEF CleanUp
    <2>3. window'[n] = None /\ window' \in [Names -> Nullable] /\ \A m \in Generated : m # n => window'[m] = window[m]
      BY <1>1, <2>1, <2>2, NamesAre DEF Types, Nullable
    <2>4. /\ oldCallbacks' \in Seq(Generated) /\ Len(oldCallbacks') = Len(oldCallbacks) + 1 /\ Len(oldCallbacks) \in Nat
          /\ oldCallbacks'[Len(oldCallbacks) + 1] = n
          /\ \A i \in 1..Len(oldCallbacks) : oldCallbacks'[i] = oldCallbacks[i]
      BY <1>1, <2>1, <2>2, Appended DEF Types
    <2>5. OldOnes'
      BY <1>2, <2>1, <2>4 DEF IInv, NamesRight, OldOnes, Free
    <2>6. \A m : Free(m)' <=> Free(m) \/ m = n
      BY <2>4 DEF Free
    <2>7. Installed'
      <3> SUFFICES ASSUME NEW m \in Generated, window'[m] # None PROVE phase'[window'[m]] = "open" /\ name[window'[m]] = m
        BY DEF Installed
      <3>1. m # n /\ window'[m] = window[m] /\ window[m] \in Requests /\ phase[window[m]] = "open" /\ name[window[m]] = m
        BY <1>1, <2>3, NamesAre DEF IInv, NamesRight, Installed, Types, Nullable
      <3>2. window[m] # r
        BY <2>0, <3>1
      <3> QED
        BY <1>4, <3>1, <3>2
    <2>8. AllPlaced'
      BY <1>2, <2>3, <2>6 DEF IInv, NamesRight, AllPlaced
    <2>9. Standing'
      <3> SUFFICES ASSUME NEW q \in Requests, Named(q)', phase'[q] = "open"
                   PROVE  window'[name'[q]] = q /\ ~Free(name[q])'
        BY DEF Standing
      <3>1. q # r /\ window[name[q]] = q /\ ~Free(name[q]) /\ name[q] \in Generated
        BY <1>5
      <3>2. PICK m : m = name[q]
        OBVIOUS
      <3>3. m # n /\ window'[m] = q /\ ~Free(m)'
        BY <2>1, <2>3, <2>6, <3>1, <3>2
      <3> QED
        BY <3>2, <3>3 DEF Free
    <2> QED
      BY <1>3, <2>3, <2>4, <2>5, <2>7, <2>8, <2>9 DEF NamesRight
  <1> QED
    BY <1>6, <1>7

LEMMA DoneKeeps ==
  ASSUME IInv, NEW r \in Requests, phase[r] = "open",
         NEW told \in {"success", "error", "aborted"}, NEW answer \in Nullable, NEW now, Done(r, told, answer, now), Fills(now),
         told = "success" /\ kind[r] # "fixed" => answer \in Requests /\ Suits(answer, r),
         NEW left \in {"no", "sent", "gone"}, net' = [net EXCEPT ![r] = left],
         left = "sent" => kind[r] \in Scripted /\ told = "aborted"
  PROVE  IInv'
  <1>1. /\ phase' = [phase EXCEPT ![r] = "settled"]
        /\ stack' = Append(stack, r)
        /\ outcome' = [outcome EXCEPT ![r] = told]
        /\ got' = [got EXCEPT ![r] = IF told = "success" THEN answer ELSE None]
        /\ CleanUp(r, now)
        /\ UNCHANGED <<kind, name, named, active>>
    BY DEF Done
  <1>2. Types
    BY DEF IInv
  <1>3. NamesRight' /\ oldCallbacks' \in Seq(Generated) /\ window' \in [Names -> Nullable]
    BY <1>1, CleanUpKeepsNames
  <1>4. /\ phase'[r] = "settled" /\ outcome'[r] = told /\ got'[r] = (IF told = "success" THEN answer ELSE None) /\ net'[r] = left
        /\ \A q \in Requests : q # r => phase'[q] = phase[q] /\ outcome'[q] = outcome[q] /\ got'[q] = got[q] /\ net'[q] = net[q]
    BY <1>1, <1>2 DEF Types
  <1>5. outcome[r] = "none" /\ kind[r] # "none" /\ \A i \in 1..Len(stack) : stack[i] # r
    BY <1>2 DEF IInv, Lives, StackRight, Types
  <1>6. /\ held' \in [Requests -> Nullable]
        /\ overwritten' \in [Requests -> Nullable]
        /\ \A q \in Requests : held'[q] # None => held'[q] = now[q] \/ kind[q] = "fixed"
        /\ \A q \in Requests : overwritten'[q] # None => overwritten'[q] = overwritten[q]
    <2>1. CASE kind[r] \in Jsonp
      <3>1. /\ held' = [q \in Requests |-> IF q = r THEN None
                                          ELSE IF q = overwritten[r] /\ now[r] # None THEN now[r]
                                          ELSE now[q]]
            /\ overwritten' = [overwritten EXCEPT ![r] = None]
        BY <1>1, <2>1 DEF CleanUp
      <3>2. overwritten[r] # None => kind[overwritten[r]] = "fixed"
        BY DEF IInv, FixedRight
      <3> QED
        BY <1>2, <3>1, <3>2, RequestsType DEF Types, Nullable, Fills
    <2>2. CASE kind[r] \notin Jsonp
      BY <1>1, <1>2, <2>2 DEF CleanUp, Types, Fills
    <2> QED
      BY <2>1, <2>2
  <1>7. Types'
    <2>1. stack' \in Seq(Requests)
      BY <1>1, <1>2 DEF Types
    <2>2. phase' \in [Requests -> Stages] /\ outcome' \in [Requests -> {"none", "success", "error", "aborted"}]
          /\ got' \in [Requests -> Nullable] /\ net' \in [Requests -> {"no", "sent", "gone"}]
      BY <1>1, <1>2 DEF Types, Stages, Nullable
    <2> QED
      BY <1>1, <1>2, <1>3, <1>6, <2>1, <2>2 DEF Types
  <1>8. Lives'
    <2>1. \A q \in Requests : kind[q] = "none" => held'[q] = None
      BY <1>6 DEF Fills
    <2>2. \A q \in Requests : Named(q)' <=> Named(q)
      BY <1>1 DEF Named
    <2> QED
      BY <1>1, <1>4, <1>5, <2>1, <2>2 DEF IInv, Lives
  <1>9. StackRight'
    <2>1. /\ \A i \in 1..Len(stack) : stack[i] \in Requests /\ stack'[i] = stack[i]
          /\ Len(stack') = Len(stack) + 1 /\ stack'[Len(stack) + 1] = r /\ Len(stack) \in Nat
      BY <1>1, <1>2 DEF Types
    <2> QED
      BY <1>4, <1>5, <2>1 DEF IInv, StackRight
  <1>10. FixedRight'
    <2>1. window'[Fixed] = window[Fixed] \/ window'[Fixed] = overwritten[r]
      BY <1>1, <1>2, NamesAre DEF CleanUp, Types
    <2> QED
      BY <1>1, <1>6, <2>1 DEF IInv, FixedRight
  <1>11. ASSUME NEW x \in Requests, NEW q \in Requests, Suits(x, q) PROVE Suits(x, q)'
    BY <1>1, <1>4, <1>5, <1>11 DEF Suits
  <1>12. HeldRight(held)'
    <2> SUFFICES ASSUME NEW q \in Requests, Named(q)', held'[q] # None PROVE Suits(held[q], q)'
      BY DEF HeldRight
    <2>1. Named(q) /\ held'[q] = now[q] /\ now[q] \in Requests /\ Suits(now[q], q)
      BY <1>1, <1>6 DEF Named, Fills, HeldRight, Nullable
    <2>2. PICK x : x = now[q]
      OBVIOUS
    <2>3. Suits(x, q)'
      BY <1>11, <2>1, <2>2
    <2> QED
      BY <2>1, <2>2, <2>3 DEF Suits
  <1>13. GotRight'
    <2> SUFFICES ASSUME NEW q \in Requests, outcome'[q] = "success", kind[q] # "fixed"
                 PROVE  got'[q] \in Requests /\ Suits(got[q], q)'
      BY <1>1 DEF GotRight
    <2>1. PICK x \in Requests : x = got'[q] /\ Suits(x, q)
      BY <1>4 DEF IInv, GotRight
    <2>2. Suits(x, q)'
      BY <1>11, <2>1
    <2> QED
      BY <2>1, <2>2 DEF Suits
  <1>14. ActiveCounts'
    <2>1. Counted' = Counted
      BY <1>1, <1>4 DEF Counted
    <2> QED
      BY <1>1, <2>1, AsMany
  <1> QED
    BY <1>3, <1>7, <1>8, <1>9, <1>10, <1>12, <1>13, <1>14 DEF IInv

-------------------------------------------------------------------------------
(* The answers. *)

LEMMA HeldFills ==
  ASSUME IInv
  PROVE  Fills(held)
  BY DEF IInv, Types, Lives, Fills

\* An answer calls the function of its name: that of its own request, while that is
\* open, and of the one that took the name over from an aborted script otherwise.
LEMMA CalledFills ==
  ASSUME IInv, NEW r \in Requests, kind[r] \in Jsonp,
         phase[r] = "open" \/ (kind[r] \in Scripted /\ outcome[r] = "aborted")
  PROVE  Fills(Called(r))
  <1>0. PICK q : q = window[name[r]]
    OBVIOUS
  <1>1. CASE q = None
    BY <1>0, <1>1, HeldFills DEF Called
  <1>2. CASE q # None
    <2>1. Called(r) = [held EXCEPT ![q] = r]
      BY <1>0, <1>2 DEF Called
    <2>2. /\ kind[r] = "fixed" => name[r] = Fixed
          /\ kind[r] # "fixed" => Named(r) /\ name[r] \in Generated
      BY NamedInRange DEF IInv, Lives, Named, Jsonp
    <2>3. q \in Requests /\ kind[q] # "none" /\ (Named(q) => Suits(r, q))
      <3>1. CASE kind[r] = "fixed"
        BY <1>0, <1>2, <2>2, <3>1, NamesAre DEF IInv, FixedRight, Types, Nullable, Named
      <3>2. CASE kind[r] # "fixed"
        <4>1. q \in Requests /\ phase[q] = "open" /\ name[q] = name[r]
          BY <1>0, <1>2, <2>2, <3>2, NamesAre DEF IInv, NamesRight, Installed, Types, Nullable
        <4>2. kind[q] # "none"
          BY <4>1 DEF IInv, Lives
        <4>3. phase[r] = "open" => q = r
          BY <1>0, <2>2, <3>2 DEF IInv, NamesRight, Standing
        <4> QED
          BY <3>2, <4>1, <4>2, <4>3 DEF Suits, Scripted
      <3> QED
        BY <3>1, <3>2
    <2>4. Called(r) \in [Requests -> Nullable] /\ \A p \in Requests : Called(r)[p] = IF p = q THEN r ELSE held[p]
      BY <2>1, <2>3 DEF IInv, Types, Nullable
    <2>5. \A p \in Requests : kind[p] = "none" => Called(r)[p] = None
      BY <2>3, <2>4 DEF IInv, Lives
    <2>6. HeldRight(Called(r))
      BY <2>3, <2>4 DEF IInv, HeldRight
    <2> QED
      BY <2>4, <2>5, <2>6 DEF Fills
  <1> QED
    BY <1>1, <1>2

\* What arrives for a request that is over changes nothing but a container.
LEMMA LateKeeps ==
  ASSUME IInv, NEW r \in Requests, net' = [net EXCEPT ![r] = "gone"], Fills(held'),
         UNCHANGED <<kind, phase, name, overwritten, window, oldCallbacks, named, active, stack, outcome, got>>
  PROVE  IInv'
  <1>1. Types'
    BY DEF IInv, Types, Fills
  <1>2. Lives'
    <2>1. \A q \in Requests : (Named(q)' <=> Named(q)) /\ (net'[q] = "sent" => net[q] = "sent")
      BY DEF IInv, Types, Named
    <2> QED
      BY <2>1 DEF IInv, Lives, Fills
  <1>3. StackRight' /\ FixedRight'
    BY DEF IInv, StackRight, FixedRight
  <1>4. NamesRight'
    BY DEF IInv, NamesRight, FewNames, OldOnes, Installed, AllPlaced, Standing, Free, Named, Made
  <1>5. HeldRight(held)'
    BY DEF Fills, HeldRight, Named, Suits
  <1>6. GotRight'
    BY DEF IInv, GotRight, Suits
  <1>7. ActiveCounts'
    <2>1. Counted' = Counted
      BY DEF Counted
    <2> QED
      BY <2>1, AsMany
  <1> QED
    BY <1>1, <1>2, <1>3, <1>4, <1>5, <1>6, <1>7 DEF IInv

LEMMA ScriptRunsKeeps ==
  ASSUME IInv, NEW r \in Requests, NEW calls \in BOOLEAN, ScriptRuns(r, calls)
  PROVE  IInv'
  <1>0. PICK now : now = IF calls THEN Called(r) ELSE held
    OBVIOUS
  <1>1. /\ kind[r] \in Scripted /\ net[r] = "sent" /\ net' = [net EXCEPT ![r] = "gone"]
        /\ IF phase[r] = "open"
           THEN Done(r, Told(now[r] # None), now[r], now)
           ELSE /\ held' = now
                /\ UNCHANGED <<kind, phase, name, overwritten, window, oldCallbacks, named, active, stack, outcome, got>>
    BY <1>0 DEF ScriptRuns
  <1>2. phase[r] = "open" \/ outcome[r] = "aborted"
    BY <1>1 DEF IInv, Lives
  <1>3. Fills(now)
    BY <1>0, <1>1, <1>2, HeldFills, CalledFills DEF Jsonp, Scripted
  <1>4. CASE phase[r] = "open"
    <2>1. now[r] \in Nullable /\ Told(now[r] # None) \in {"success", "error", "aborted"}
          /\ (Told(now[r] # None) = "success" => now[r] # None)
      BY <1>3 DEF Fills, Told
    <2>2. kind[r] # "fixed" => Named(r)
      BY <1>1 DEF Scripted, Named
    <2>3. Told(now[r] # None) = "success" /\ kind[r] # "fixed" => now[r] \in Requests /\ Suits(now[r], r)
      BY <1>3, <2>1, <2>2 DEF Fills, HeldRight, Nullable
    <2> QED
      BY <1>1, <1>3, <1>4, <2>1, <2>3, DoneKeeps
  <1>5. CASE phase[r] # "open"
    BY <1>1, <1>3, <1>5, LateKeeps
  <1> QED
    BY <1>4, <1>5

LEMMA ScriptLostKeeps ==
  ASSUME IInv, NEW r \in Requests, ScriptLost(r)
  PROVE  IInv'
  BY LateKeeps, HeldFills DEF ScriptLost

LEMMA XhrAnswersKeeps ==
  ASSUME IInv, NEW r \in Requests, NEW answer \in {"data", "silent", "error"}, XhrAnswers(r, answer)
  PROVE  IInv'
  <1>0. PICK now : now = IF answer = "data" /\ kind[r] = "local" THEN Called(r) ELSE held
    OBVIOUS
  <1>1. PICK good \in BOOLEAN : good <=> answer # "error" /\ (IF kind[r] = "local" THEN now[r] # None ELSE answer = "data")
    OBVIOUS
  <1>2. PICK told : told = Told(good)
    OBVIOUS
  <1>3. PICK given : given = IF kind[r] = "local" THEN now[r] ELSE r
    OBVIOUS
  <1>4. /\ kind[r] \in {"local", "plain"} /\ net[r] = "sent" /\ net' = [net EXCEPT ![r] = "gone"]
        /\ Done(r, told, given, now)
    BY <1>0, <1>1, <1>2, <1>3 DEF XhrAnswers, Told
  <1>5. phase[r] = "open"
    BY <1>4 DEF IInv, Lives, Scripted
  <1>6. Fills(now)
    BY <1>0, <1>4, <1>5, HeldFills, CalledFills DEF Jsonp
  <1>7. told \in {"success", "error", "aborted"} /\ (told = "success" => good)
    BY <1>2 DEF Told
  <1>8. given \in Nullable /\ (told = "success" => given \in Requests /\ Suits(given, r))
    <2>1. CASE kind[r] = "local"
      BY <1>1, <1>3, <1>6, <1>7, <2>1 DEF Fills, HeldRight, Nullable, Named
    <2>2. CASE kind[r] # "local"
      BY <1>3, <2>2 DEF Nullable, Suits
    <2> QED
      BY <2>1, <2>2
  <1> QED
    BY <1>4, <1>5, <1>6, <1>7, <1>8, DoneKeeps

LEMMA AbortKeeps ==
  ASSUME IInv, NEW r \in Requests, Abort(r)
  PROVE  IInv'
  <1>0. PICK left : left = IF kind[r] \in Scripted THEN net[r] ELSE "gone"
    OBVIOUS
  <1>1. left \in {"no", "sent", "gone"} /\ net' = [net EXCEPT ![r] = left] /\ (left = "sent" => kind[r] \in Scripted)
    BY <1>0 DEF IInv, Types, Abort
  <1>2. phase[r] = "open" /\ Done(r, "aborted", None, held) /\ None \in Nullable
    BY DEF Abort, Nullable
  <1> QED
    BY <1>1, <1>2, HeldFills, DoneKeeps

-------------------------------------------------------------------------------
(* done() goes on. *)

\* Only requests in done() move, and not back: names, containers and answers are as
\* they were.
LEMMA MovesKeep ==
  ASSUME IInv, phase' \in [Requests -> Stages],
         \A q \in Requests : {phase[q], phase'[q]} \cap {"idle", "open"} # {} => phase'[q] = phase[q],
         UNCHANGED <<kind, name, held, overwritten, window, oldCallbacks, named, net, outcome, got>>
  PROVE  Lives' /\ NamesRight' /\ FixedRight' /\ HeldRight(held)' /\ GotRight'
  <1>1. \A q \in Requests : (phase'[q] = "idle" <=> phase[q] = "idle") /\ (phase'[q] = "open" <=> phase[q] = "open")
    OBVIOUS
  <1>2. Lives'
    <2>1. \A q \in Requests : Named(q)' <=> Named(q)
      BY DEF Named
    <2> QED
      BY <1>1, <2>1 DEF IInv, Lives
  <1>3. FewNames' /\ OldOnes' /\ AllPlaced'
    BY DEF IInv, NamesRight, FewNames, OldOnes, AllPlaced, Free, Made
  <1>4. Installed'
    BY <1>1, NamesAre DEF IInv, NamesRight, Installed, Types, Nullable
  <1>5. Standing'
    BY <1>1 DEF IInv, NamesRight, Standing, Free, Named
  <1>6. FixedRight'
    BY DEF IInv, FixedRight
  <1>7. HeldRight(held)' /\ GotRight'
    BY DEF IInv, HeldRight, GotRight, Suits, Named
  <1> QED
    BY <1>2, <1>3, <1>4, <1>5, <1>6, <1>7 DEF NamesRight

\* The request on top of the stack.
LEMMA TopIs ==
  ASSUME IInv, stack # <<>>
  PROVE  /\ Top \in Requests /\ Len(stack) \in Nat \ {0} /\ Top = stack[Len(stack)]
         /\ Front(stack) \in Seq(Requests) /\ Len(Front(stack)) = Len(stack) - 1
         /\ \A i \in 1..Len(stack) - 1 : Front(stack)[i] = stack[i] /\ stack[i] # Top
  <1>1. stack \in Seq(Requests)
    BY DEF IInv, Types
  <1>2. /\ Len(stack) \in Nat \ {0} /\ Top = stack[Len(stack)] /\ Top \in Requests
        /\ Front(stack) \in Seq(Requests) /\ Len(Front(stack)) = Len(stack) - 1
        /\ \A i \in 1..Len(stack) - 1 : Front(stack)[i] = stack[i]
    BY <1>1, LastFront DEF Top
  <1>3. \A i \in 1..Len(stack) - 1 : stack[i] # Top
    BY <1>2 DEF IInv, StackRight
  <1> QED
    BY <1>2, <1>3

LEMMA CompleteKeeps ==
  ASSUME IInv, Complete
  PROVE  IInv'
  <1>0. PICK r \in Requests : r = Top
    BY TopIs DEF Complete
  <1>1. /\ phase[r] = "settled" /\ phase' = [phase EXCEPT ![r] = "complete"]
        /\ UNCHANGED <<kind, name, held, overwritten, window, oldCallbacks, named, active, net, stack, outcome, got>>
    BY <1>0 DEF Complete
  <1>2. Types
    BY DEF IInv
  <1>3. phase'[r] = "complete" /\ \A q \in Requests : q # r => phase'[q] = phase[q]
    BY <1>1, <1>2 DEF Types
  <1>4. phase' \in [Requests -> Stages]
    BY <1>1, <1>2 DEF Types, Stages
  <1>5. Types'
    BY <1>1, <1>2, <1>4 DEF Types
  <1>6. Lives' /\ NamesRight' /\ FixedRight' /\ HeldRight(held)' /\ GotRight'
    BY <1>1, <1>3, <1>4, MovesKeep
  <1>7. StackRight'
    BY <1>1, <1>2, <1>3 DEF IInv, StackRight, Types
  <1>8. ActiveCounts'
    <2>1. Counted' = Counted
      BY <1>1, <1>3 DEF Counted
    <2> QED
      BY <1>1, <2>1, AsMany
  <1> QED
    BY <1>5, <1>6, <1>7, <1>8 DEF IInv

LEMMA FinishKeeps ==
  ASSUME IInv, Finish
  PROVE  IInv'
  <1>0. PICK r \in Requests : r = Top
    BY TopIs DEF Finish
  <1>1. /\ phase[r] = "complete" /\ phase' = [phase EXCEPT ![r] = "finished"]
        /\ active' = IF Global(kind[r]) THEN active - 1 ELSE active
        /\ stack # <<>> /\ stack' = Front(stack)
        /\ UNCHANGED <<kind, name, held, overwritten, window, oldCallbacks, named, net, outcome, got>>
    BY <1>0 DEF Finish
  <1>2. Types
    BY DEF IInv
  <1>3. phase'[r] = "finished" /\ \A q \in Requests : q # r => phase'[q] = phase[q]
    BY <1>1, <1>2 DEF Types
  <1>4. phase' \in [Requests -> Stages]
    BY <1>1, <1>2 DEF Types, Stages
  <1>5. /\ stack' \in Seq(Requests) /\ Len(stack') = Len(stack) - 1 /\ Len(stack) \in Nat
        /\ \A i \in 1..Len(stack') : stack'[i] = stack[i] /\ stack[i] # r /\ i \in 1..Len(stack)
    BY <1>0, <1>1, TopIs
  <1>6. Lives' /\ NamesRight' /\ FixedRight' /\ HeldRight(held)' /\ GotRight'
    BY <1>1, <1>3, <1>4, MovesKeep
  <1>7. StackRight'
    <2>1. \A i \in 1..Len(stack') : stack[i] \in Requests
      BY <1>2, <1>5 DEF Types
    <2> QED
      BY <1>3, <1>5, <2>1 DEF IInv, StackRight
  <1>8. ActiveCounts' /\ active' \in Nat
    <2>1. CASE Global(kind[r])
      <3>1. r \in Counted /\ Counted' = Counted \ {r}
        BY <1>1, <1>3, <2>1 DEF Counted
      <3> QED
        BY <1>1, <2>1, <3>1, OneLess
    <2>2. CASE ~Global(kind[r])
      <3>1. Counted' = Counted
        BY <1>1, <1>3, <2>2 DEF Counted
      <3> QED
        BY <1>1, <1>2, <2>2, <3>1, AsMany DEF Types
    <2> QED
      BY <2>1, <2>2
  <1>9. Types'
    BY <1>1, <1>2, <1>4, <1>5, <1>8 DEF Types
  <1> QED
    BY <1>6, <1>7, <1>8, <1>9 DEF IInv

\* Those on the stack are counted already, and stay so.
LEMMA ThrowKeeps ==
  ASSUME IInv, Throw
  PROVE  IInv'
  <1>1. /\ phase' = [r \in Requests |-> IF Contains(stack, r) THEN "threw" ELSE phase[r]]
        /\ stack' = <<>>
        /\ UNCHANGED <<kind, name, held, overwritten, window, oldCallbacks, named, active, net, outcome, got>>
    BY DEF Throw
  <1>2. Types
    BY DEF IInv
  <1>3. \A q \in Requests : Contains(stack, q) => phase[q] \in {"settled", "complete"} /\ phase'[q] = "threw"
    BY <1>1, <1>2 DEF IInv, StackRight, Contains, Types
  <1>4. \A q \in Requests : ~Contains(stack, q) => phase'[q] = phase[q]
    BY <1>1
  <1>5. phase' \in [Requests -> Stages]
    BY <1>1, <1>2 DEF Types, Stages
  <1>6. Lives' /\ NamesRight' /\ FixedRight' /\ HeldRight(held)' /\ GotRight'
    BY <1>1, <1>3, <1>4, <1>5, MovesKeep
  <1>7. Types'
    BY <1>1, <1>2, <1>5 DEF Types
  <1>8. StackRight'
    BY <1>1 DEF StackRight
  <1>9. ActiveCounts'
    <2>1. Counted' = Counted
      BY <1>1, <1>3, <1>4 DEF Counted
    <2> QED
      BY <1>1, <2>1, AsMany
  <1> QED
    BY <1>6, <1>7, <1>8, <1>9 DEF IInv

-------------------------------------------------------------------------------
(* The theorems. *)

LEMMA NextKeeps ==
  ASSUME IInv, [RequestsNext]_requestVars
  PROVE  IInv'
  <1>1. ASSUME NEW r \in Requests, NEW k \in Kinds, Send(r, k) PROVE IInv'
    BY <1>1, SendKeeps
  <1>2. ASSUME NEW r \in Requests, NEW k \in Kinds, Cancel(r, k) PROVE IInv'
    BY <1>2, CancelKeeps
  <1>3. ASSUME NEW r \in Requests, Abort(r) PROVE IInv'
    BY <1>3, AbortKeeps
  <1>4. ASSUME NEW r \in Requests, ScriptLost(r) PROVE IInv'
    BY <1>4, ScriptLostKeeps
  <1>5. ASSUME NEW r \in Requests, NEW calls \in BOOLEAN, ScriptRuns(r, calls) PROVE IInv'
    BY <1>5, ScriptRunsKeeps
  <1>6. ASSUME NEW r \in Requests, NEW answer \in {"data", "silent", "error"}, XhrAnswers(r, answer) PROVE IInv'
    BY <1>6, XhrAnswersKeeps
  <1>7. CASE Complete
    BY <1>7, CompleteKeeps
  <1>8. CASE Finish
    BY <1>8, FinishKeeps
  <1>9. CASE Throw
    BY <1>9, ThrowKeeps
  <1>10. CASE UNCHANGED requestVars
    BY <1>10 DEF requestVars, IInv, Types, Lives, StackRight, NamesRight, FewNames, OldOnes, Installed, AllPlaced,
         Standing, Free, FixedRight, HeldRight, GotRight, Suits, Named, ActiveCounts, Made
  <1>11. CASE Finished
    BY <1>10, <1>11 DEF Finished
  <1> QED
    BY <1>1, <1>2, <1>3, <1>4, <1>5, <1>6, <1>7, <1>8, <1>9, <1>10, <1>11 DEF RequestsNext

\* Where every request, name and container stands is kept by every step.
THEOREM Inductive == RequestsSpec => []IInv
  <1>1. RequestsInit => IInv
    BY InitInv
  <1>2. IInv /\ [RequestsNext]_requestVars => IInv'
    BY NextKeeps
  <1> QED
    BY <1>1, <1>2, PTL DEF RequestsSpec

\* Each generated name is free or an open request's, never both.
LEMMA NamesAreOwned ==
  ASSUME IInv
  PROVE  NamesOwned
  <1> SUFFICES ASSUME NEW n \in 1..named,
                      NEW places, places = {i \in DOMAIN oldCallbacks : oldCallbacks[i] = n}
               PROVE  \/ places = {} /\ \E r \in Requests : Owners(n) = {r} /\ window[n] = r
                      \/ Cardinality(places) = 1 /\ Owners(n) = {} /\ window[n] = None
    BY DEF NamesOwned
  <1>1. n \in Generated /\ n \in Names /\ n # Fixed /\ n # 0
    BY NamedInRange, NamesAre
  <1>2. DOMAIN oldCallbacks = 1..Len(oldCallbacks)
    BY DEF IInv, Types
  <1>3. ASSUME NEW r \in Owners(n) PROVE r \in Requests /\ window[n] = r /\ ~Free(n)
    <2>1. r \in Requests /\ phase[r] = "open" /\ name[r] = n
      BY DEF Owners, Open
    <2>2. Named(r)
      BY <1>1, <2>1 DEF IInv, Types, Lives, Named, Jsonp
    <2> QED
      BY <2>1, <2>2 DEF IInv, NamesRight, Standing
  <1>4. CASE Free(n)
    <2>1. PICK i \in 1..Len(oldCallbacks) : oldCallbacks[i] = n
      BY <1>4 DEF Free
    <2>2. places = {i}
      BY <1>2, <2>1 DEF IInv, NamesRight, OldOnes
    <2>3. window[n] = None
      BY <1>1, <1>4, FreeIsUnused
    <2>4. Owners(n) = {}
      BY <1>3, <1>4
    <2> QED
      BY <2>2, <2>3, <2>4, FS_Singleton
  <1>5. CASE ~Free(n)
    <2>1. places = {}
      BY <1>2, <1>5 DEF Free
    <2>2. window[n] \in Requests /\ window[n] \in Owners(n)
      BY <1>1, <1>5 DEF IInv, NamesRight, AllPlaced, Installed, Types, Nullable, Owners, Open
    <2>3. Owners(n) = {window[n]}
      BY <1>3, <2>2
    <2> QED
      BY <2>1, <2>2, <2>3
  <1> QED
    BY <1>4, <1>5

\* The prefilter never hands out a name that some open request still answers to, nor
\* loses one: for any number of requests, in any order of answers, aborts, cancelled
\* requests and functions that throw (ajaxPrefilter of jsonp, oldCallbacks).
THEOREM NamesAlwaysOwned == RequestsSpec => []NamesOwned
  BY NamesAreOwned, Inductive, PTL

\* Whatever is late, a request is given its own answer, or that of the aborted script
\* whose name it took over (done, the converter of jsonp).
THEOREM AnswersAreOwn == RequestsSpec => []OwnAnswer
  <1>1. ASSUME IInv PROVE OwnAnswer
    BY <1>1 DEF IInv, GotRight, Suits, OwnAnswer
  <1> QED
    BY <1>1, Inductive, PTL

\* The counter of jQuery is the number of requests it should count.
THEOREM ActiveIsRight == RequestsSpec => []ActiveCounts
  <1>1. ASSUME IInv PROVE ActiveCounts
    BY <1>1 DEF IInv
  <1> QED
    BY <1>1, Inductive, PTL
===============================================================================
