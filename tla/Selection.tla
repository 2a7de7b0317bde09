------------------------------ MODULE Selection -------------------------------
(***************************************************************************)
(* The selector engine of jQuery (Sizzle) where it does not leave the work   *)
(* to the browser: compiled matchers that walk from an element to the left   *)
(* of the selector, and what they leave on the elements to save walks: the   *)
(* outcome of a combinator per direction, the index of a child.  These stay  *)
(* when the document changes, and are told apart by a number of the run.     *)
(*                                                                          *)
(* A selector is compiled: a sequence of groups (the commas), each one a     *)
(* sequence of tokens.  A query runs to its end in one step.  Matching       *)
(* changes the memory m of the engine, so each operator gives the outcome    *)
(* and the memory after it.                                                  *)
(***************************************************************************)
EXTENDS Integers, Sequences, SequencesExt, FiniteSets

CONSTANTS
    Nodes,          \* elements and texts of the document
    Class,          \* the class of each element, "text" for a text node
    Trees,          \* the documents a behaviour starts with: children in order, of each node and Doc
    Selectors,      \* the compiled selectors the page uses
    Contexts,       \* bound: where it makes its queries, Doc or an element
    MaxQueries      \* bound: queries made

Doc  == 0           \* the document itself
None == -1
Directions == {"parentNode", "previousSibling"}

VARIABLES
    kids,           \* the document
    memory,         \* of the engine
    query,          \* the last query, while the document is as it was then
    queries         \* bound: queries so far

selectionVars == <<kids, memory, query, queries>>

IsElement(n) == n \in Nodes /\ Class[n] # "text"
Parent(n) ==
    LET parents == {p \in DOMAIN kids : \E i \in DOMAIN kids[p] : kids[p][i] = n}
    IN  IF parents = {} THEN None ELSE CHOOSE p \in parents : TRUE
Siblings(n) == kids[Parent(n)]
Place(n) == LET siblings == Siblings(n) IN CHOOSE i \in DOMAIN siblings : siblings[i] = n
Prev(n)  ==
    LET before == Place(n) - 1
    IN  IF n = Doc \/ Parent(n) = None \/ before = 0 THEN None ELSE Siblings(n)[before]
Step(n, dir) == IF dir = "parentNode" THEN Parent(n) ELSE Prev(n)

\* The elements below p, in document order (getElementsByTagName).
RECURSIVE Below(_)
Below(p) == FoldLeft(LAMBDA all, n : all \o (IF IsElement(n) THEN <<n>> \o Below(n) ELSE <<>>), <<>>, kids[p])

\* Tokens.
Cls(c) == [type |-> "CLASS", c |-> c]
Rel(r) == [type |-> "REL", rel |-> r]
Nth(cycle, offset) == [type |-> "NTH", first |-> cycle, last |-> offset]
NthLast(cycle, offset) == [type |-> "NTHLAST", first |-> cycle, last |-> offset]
Not(groups) == [type |-> "NOT", groups |-> groups]
Has(groups) == [type |-> "HAS", groups |-> groups]
Pos(pick, n) == [type |-> "POS", pick |-> pick, n |-> n]    \* :first is Pos("eq", 0), :last Pos("eq", -1)
Broken == [type |-> "BROKEN"]               \* a pseudo-class of the page that throws

\* Expr.relative.
Dir(r)   == IF r \in {">", " "} THEN "parentNode" ELSE "previousSibling"
Closest(r) == r \in {">", "+"}
Leading(tokens) == tokens # <<>> /\ tokens[1].type = "REL"
IsSet(tokens) == \E i \in DOMAIN tokens : tokens[i].type = "POS"

\* The memory: dirruns (a whole number and a random part), what is cached on elements,
\* cachedruns, the runs of each compiled matcher, outermostContext; threw, whether a
\* matcher threw in the last query.
NoCache == [key |-> <<>>, data |-> 0]
Matched == -1       \* true in a cache; a number there is cachedruns when it failed
Pending == -2       \* being found out
NoOuter == -2       \* no query runs
Whole   == -3       \* one of the whole document does
EmptyMemory ==
    [runs |-> <<0, 0>>, random |-> 0, outer |-> NoOuter, cached |-> 0, counts |-> [g \in {} |-> 0],
     dir |-> [n \in Nodes \cup {Doc} |-> [d \in Directions |-> NoCache]],
     nth |-> [n \in Nodes \cup {Doc} |-> [run |-> <<>>, index |-> 0, diff |-> 0]],
     nthLast |-> [n \in Nodes |-> [run |-> <<>>, diff |-> 0]],
     threw |-> FALSE]
Runs(m, groups) == IF groups \in DOMAIN m.counts THEN m.counts[groups] ELSE 0

Yes(m) == [ok |-> TRUE, m |-> m]
No(m)  == [ok |-> FALSE, m |-> m]

\* Elements found so far, one more tried, more found.
Finds(found, m) == [found |-> found, m |-> m]
Tried(acc, e, r) == Finds(IF r.ok THEN Append(acc.found, e) ELSE acc.found, r.m)
Joined(acc, r)   == Finds(acc.found \o r.found, r.m)

RECURSIVE Match(_, _, _, _, _), Visit(_, _, _, _, _, _), Walk(_, _, _, _, _), Super(_, _, _, _, _), Query(_, _, _), Sieve(_, _, _, _)

-------------------------------------------------------------------------------
(* Expr.filter *)

\* createPositionalPseudo: the places chosen among so many.
Picks(t, length) ==
    LET n == IF t.n < 0 THEN t.n + length ELSE t.n
    IN  {i \in 1..length : CASE t.pick = "eq"   -> i = n + 1
                             [] t.pick = "lt"   -> i < n + 1
                             [] t.pick = "gt"   -> i > n + 1
                             [] t.pick = "even" -> i % 2 = 1
                             [] OTHER           -> i % 2 = 0}

HasClass(e, t) == Class[e] = t.c

InCycle(diff, first, last) ==
    LET d == diff - last
    IN  IF first = 0 THEN d = 0 ELSE d % first = 0 /\ (IF first > 0 THEN d >= 0 ELSE d <= 0)

\* How many elements there are among these.
Elements(nodes) == Len(SelectSeq(nodes, IsElement))

\* :nth-child: counts on from the child last found in this run, if that comes before.
NthChild(e, t, m) ==
    LET p     == Parent(e)
        c     == m.nth[p]
        known == c.run = m.runs /\ c.index < Place(e)
        diff  == IF known THEN c.diff + Elements(SubSeq(kids[p], c.index + 1, Place(e)))
                 ELSE Elements(SubSeq(kids[p], 1, Place(e)))
    IN  IF p = None THEN No(m)
        ELSE IF t.first = 1 /\ t.last = 0 THEN Yes(m)
        ELSE [ok |-> InCycle(diff, t.first, t.last),
              m  |-> [m EXCEPT !.nth[p] = [run |-> m.runs, index |-> Place(e), diff |-> diff]]]

\* :nth-last-child: each element passed on the way from the end remembers its index.
NthLastChild(e, t, m) ==
    LET p      == Parent(e)
        after(n) == Elements(SubSeq(kids[p], Place(n), Len(kids[p])))
        passed == {n \in ToSet(kids[p]) : IsElement(n) /\ Place(n) >= Place(e)}
        diff   == IF m.nthLast[e].run = m.runs THEN m.nthLast[e].diff ELSE after(e)
        noted  == [n \in Nodes |-> IF n \in passed THEN [run |-> m.runs, diff |-> after(n)] ELSE m.nthLast[n]]
    IN  IF p = None THEN No(m)
        ELSE IF t.first = 1 /\ t.last = 0 THEN Yes(m)
        ELSE [ok |-> InCycle(diff, t.first, t.last),
              m  |-> IF m.nthLast[e].run = m.runs THEN m ELSE [m EXCEPT !.nthLast = noted]]

Some(r) == [ok |-> r.found # <<>> /\ ~r.m.threw, m |-> r.m]
Nil(r)  == [ok |-> r.found = <<>> /\ ~r.m.threw, m |-> r.m]

\* One filter.  :not runs its matcher on the element alone, without a context; :has
\* makes a query below it.
Filter(e, t, m) ==
    CASE t.type = "CLASS"   -> [ok |-> HasClass(e, t), m |-> m]
      [] t.type = "NTH"     -> NthChild(e, t, m)
      [] t.type = "NTHLAST" -> NthLastChild(e, t, m)
      [] t.type = "NOT"     -> Nil(Super(<<e>>, None, t.groups, FALSE, m))
      [] t.type = "HAS"     -> Some(Query(t.groups, e, m))
      [] OTHER              -> No([m EXCEPT !.threw = TRUE])

-------------------------------------------------------------------------------
(* matcherFromTokens: tokens, of which the first k are still to match, in ctx. *)

\* What must be true to the left of all tokens: nothing, or the context is reached.
Founded(e, tokens, ctx, m) ==
    IF ~Leading(tokens) /\ ctx # m.outer THEN Yes(m)
    ELSE Walk(e, tokens, 0, ctx, m)

Match(e, tokens, k, ctx, m) ==
    LET on(r) == IF r.ok THEN Match(e, tokens, k - 1, ctx, r.m) ELSE r
    IN  IF k = 0 \/ (k = 1 /\ Leading(tokens)) THEN Founded(e, tokens, ctx, m)
        ELSE IF tokens[k].type = "REL" THEN Walk(e, tokens, k, ctx, m)
        ELSE on(Filter(e, tokens[k], m))

\* addCombinator.  The combinator at k, or the one to the context (k = 0), is tried
\* on each node in its direction; only the latter accepts the document.
RelAt(tokens, k) == IF k > 0 THEN tokens[k].rel ELSE IF Leading(tokens) THEN tokens[1].rel ELSE " "
Left(e, tokens, k, ctx, m) == IF k = 0 THEN [ok |-> e = ctx, m |-> m] ELSE Match(e, tokens, k - 1, ctx, m)

\* Seeded fault: what one combinator found on an element stands for all.
DirKeyShared(tokens, k, m) == <<m.runs, <<>>, 0>>

\* dirruns + doneName: the run and the combinator of the matcher.
DirKey(tokens, k, m) == <<m.runs, tokens, k>>

\* The next node in the direction; what is found of it there is kept under the key the
\* walk began with, unless a run nested in this one wrote over it.
Visit(next, tokens, k, ctx, m, key) ==
    LET rel  == RelAt(tokens, k)
        dir  == Dir(rel)
        seen == m.dir[next][dir]
        mark == [key |-> key, data |-> Pending]
        further(n) == Visit(Step(next, dir), tokens, k, ctx, n, key)
        kept(r) == IF r.m.dir[next][dir] # mark THEN r.m
                   ELSE [r.m EXCEPT !.dir[next][dir].data = IF r.ok THEN Matched ELSE r.m.cached]
        on(r) == IF r.m.threw THEN r ELSE IF r.ok THEN Yes(kept(r)) ELSE further(kept(r))
    IN  IF next = None THEN No(m)
        ELSE IF ~IsElement(next) /\ ~(k = 0 /\ dir = "parentNode") THEN further(m)
        ELSE IF Closest(rel) THEN Left(next, tokens, k, ctx, m)
        ELSE IF seen.key # key THEN on(Left(next, tokens, k, ctx, [m EXCEPT !.dir[next][dir] = mark]))
        ELSE IF seen.data = Matched THEN Yes(m)
        ELSE IF seen.data = m.cached THEN No(m)
        ELSE further(m)

Walk(e, tokens, k, ctx, m) == Visit(Step(e, Dir(RelAt(tokens, k))), tokens, k, ctx, m, DirKey(tokens, k, m))

-------------------------------------------------------------------------------
(* setMatcher: a group with a position in it.  What comes before the position is a    *)
(* query of its own; those at the places chosen are filtered by what follows up to a  *)
(* combinator; from each of those left the rest is a query again.                     *)

FirstOf(tokens, type, from) ==
    LET at == {i \in from..Len(tokens) : tokens[i].type = type}
    IN  IF at = {} THEN Len(tokens) + 1 ELSE CHOOSE i \in at : \A j \in at : i <= j
AtPlaces(elems, t) ==
    LET places == Picks(t, Len(elems))
    IN  FoldLeft(LAMBDA all, i : IF i \in places THEN Append(all, elems[i]) ELSE all,
                 <<>>, [i \in DOMAIN elems |-> i])

\* condense: those that match, one after the other.
Condense(elems, tokens, ctx, m) ==
    FoldLeft(LAMBDA acc, e :
                 IF acc.m.threw THEN acc ELSE Tried(acc, e, Match(e, tokens, Len(tokens), ctx, acc.m)),
             Finds(<<>>, m), elems)

\* The same for tokens with positions, each of which counts those left before it.
Sieve(elems, tokens, ctx, m) ==
    LET i       == FirstOf(tokens, "POS", 1)
        on(pre) == IF i > Len(tokens) \/ pre.m.threw THEN pre
                   ELSE Sieve(AtPlaces(pre.found, tokens[i]), SubSeq(tokens, i + 1, Len(tokens)), ctx, pre.m)
    IN  IF tokens = <<>> THEN Finds(elems, m)
        ELSE on(IF i = 1 THEN Finds(elems, m) ELSE Condense(elems, SubSeq(tokens, 1, i - 1), ctx, m))

SetMatch(tokens, ctx, m) ==
    LET i    == FirstOf(tokens, "POS", 1)
        j    == FirstOf(tokens, "REL", i)
        rest == SubSeq(tokens, j, Len(tokens))
        further(acc, e) == IF acc.m.threw THEN acc ELSE Joined(acc, Query(<<rest>>, e, acc.m))
        go(chosen) == IF rest = <<>> \/ chosen.m.threw THEN chosen
                      ELSE FoldLeft(further, Finds(<<>>, chosen.m), chosen.found)
        on(before) == IF before.m.threw THEN before
                      ELSE go(Sieve(AtPlaces(before.found, tokens[i]), SubSeq(tokens, i + 1, j - 1), ctx, before.m))
    IN  on(IF i = 1 THEN Finds(Below(ctx), m) ELSE Query(<<SubSeq(tokens, 1, i - 1)>>, ctx, m))

-------------------------------------------------------------------------------
(* matcherFromGroupMatchers, select *)

\* Sizzle.uniqueSort
UniqueSort(elems) == SelectSeq(Below(Doc), LAMBDA e : e \in ToSet(elems))

\* Whether some group matches; the last one is tried first.
RECURSIVE MatchAny(_, _, _, _, _)
MatchAny(e, groups, j, ctx, m) ==
    LET on(r) == IF r.ok \/ r.m.threw THEN r ELSE MatchAny(e, groups, j - 1, ctx, r.m)
    IN  IF j = 0 THEN No(m) ELSE on(Match(e, groups[j], Len(groups[j]), ctx, m))

\* A run of its own: the next whole number, or a random part inside another run.
NextRun(m) ==
    IF m.outer = NoOuter THEN [m EXCEPT !.runs = <<@[1] + 1, 0>>, !.random = 0]
    ELSE [m EXCEPT !.runs = <<@[1], m.random + 1>>, !.random = @ + 1]

\* Globals are set back after each element.
Again(m, groups, unique) ==
    [m EXCEPT !.runs = unique, !.cached = Runs(m, groups) + 1,
              !.counts = [g \in DOMAIN @ \cup {groups} |-> IF g = groups THEN Runs(m, g) + 1 ELSE @[g]]]

\* Those of `elems' some group without positions matches, in a run that began.
OwnFound(elems, ctx, groups, outermost, each, m) ==
    LET again(r) == IF outermost /\ ~r.m.threw THEN [r EXCEPT !.m = Again(@, groups, m.runs)] ELSE r
        one(acc, e) == IF acc.m.threw THEN acc ELSE Tried(acc, e, again(MatchAny(e, each, Len(each), ctx, acc.m)))
    IN  IF each = <<>> THEN Finds(<<>>, m) ELSE FoldLeft(one, Finds(<<>>, m), elems)

\* ... those the other groups find besides, unless all were found; the outermost run
\* sorts them.
SetsFound(own, elems, ctx, sets, outermost) ==
    LET more(acc, g) == IF acc.m.threw THEN acc ELSE Joined(acc, SetMatch(g, ctx, acc.m))
        sorted(all)  == IF outermost /\ ~all.m.threw /\ Len(all.found) > Len(own.found) /\ Len(own.found) + Len(sets) > 1
                        THEN [all EXCEPT !.found = UniqueSort(@)] ELSE all
    IN  IF sets = <<>> \/ (elems # <<>> /\ Len(own.found) = Len(elems)) THEN own
        ELSE sorted(FoldLeft(more, own, Reverse(sets)))

\* The elements among `elems' that match a group without positions, those of the other
\* groups, and the memory: globals are set back at the end by the outermost run, unless
\* a matcher threw.
Super(elems, ctx, groups, outermost, m) ==
    LET begun  == NextRun(m)
        opened == IF outermost THEN [begun EXCEPT !.outer = IF ctx = Doc THEN Whole ELSE ctx, !.cached = Runs(m, groups)]
                  ELSE begun
        closed(all) == IF outermost /\ ~all.m.threw THEN [all EXCEPT !.m.runs = begun.runs, !.m.outer = m.outer] ELSE all
        own(n) == OwnFound(elems, ctx, groups, outermost, SelectSeq(groups, LAMBDA g : ~IsSet(g)), n)
    IN  closed(SetsFound(own(opened), elems, ctx, SelectSeq(groups, IsSet), outermost))

\* Whether a sibling combinator stands anywhere in the text (rsibling).
RECURSIVE Sibling(_)
Sibling(groups) ==
    \E g \in ToSet(groups) : \E t \in ToSet(g) :
        \/ t.type = "REL" /\ t.rel \in {"+", "~"}
        \/ t.type \in {"NOT", "HAS"} /\ Sibling(t.groups)

\* Whether a position does (needsContext).
RECURSIVE Positioned(_)
Positioned(groups) ==
    \E g \in ToSet(groups) : \E t \in ToSet(g) :
        t.type = "POS" \/ (t.type \in {"NOT", "HAS"} /\ Positioned(t.groups))

\* The rightmost class of a single group is left to the browser, up to a combinator:
\* its place, 0 if there is none.
SeedToken(groups) ==
    LET tokens == groups[1]
        after(i) == \A j \in i..Len(tokens) : tokens[j].type # "REL"
        good  == {i \in DOMAIN tokens : tokens[i].type = "CLASS" /\ after(i)}
    IN  IF Len(groups) # 1 \/ Leading(tokens) \/ Positioned(groups) \/ good = {} THEN 0
        ELSE CHOOSE i \in good : \A j \in good : j <= i

Query(groups, ctx, m) ==
    LET i     == SeedToken(groups)
        seed  == SelectSeq(Below(ctx), LAMBDA e : Class[e] = groups[1][i].c)
        rest  == RemoveAt(groups[1], i)
        from  == IF Sibling(groups) /\ ctx # Doc /\ Parent(ctx) # None THEN Parent(ctx) ELSE ctx
    IN  IF i = 0 THEN Super(Below(from), ctx, groups, TRUE, m)
        ELSE IF rest = <<>> \/ seed = <<>> THEN Finds(seed, m)
        ELSE Super(seed, ctx, <<rest>>, TRUE, m)

-------------------------------------------------------------------------------
NoQuery == [groups |-> <<>>, ctx |-> Doc, found |-> <<>>]

SelectionInit ==
    /\ kids \in Trees
    /\ memory = EmptyMemory
    /\ query = NoQuery
    /\ queries = 0

Select(groups, ctx) ==
    /\ queries' = queries + 1
    /\ \E r \in {Query(groups, ctx, [memory EXCEPT !.threw = FALSE])} :
          /\ memory' = r.m
          /\ query' = IF r.m.threw THEN NoQuery ELSE [groups |-> groups, ctx |-> ctx, found |-> r.found]
    /\ UNCHANGED kids

Shown == {Doc} \cup {n \in Nodes : Parent(n) # None}

\* The page moves a node it shows with all below it.
Move(n, p, i) ==
    LET without == [q \in DOMAIN kids |-> SelectSeq(kids[q], LAMBDA x : x # n)]
    IN  /\ p = Doc \/ IsElement(p)
        /\ p # n /\ (IsElement(n) => p \notin ToSet(Below(n)))
        /\ i \in 1..Len(without[p]) + 1
        /\ kids' = [without EXCEPT ![p] = InsertAt(@, i, n)]
        /\ kids' # kids
        /\ query' = NoQuery
        /\ memory' = [memory EXCEPT !.threw = FALSE]
        /\ UNCHANGED queries

\* Bounds: so many queries, a move after each but the last.
MayQuery == queries < MaxQueries
MayMove  == MayQuery /\ (query # NoQuery \/ memory.threw)

SelectionNext ==
    \/ MayQuery /\ \E groups \in Selectors, ctx \in Contexts : Select(groups, ctx)
    \/ MayMove /\ \E n \in Shown \ {Doc}, p \in Shown, i \in 1..Cardinality(Nodes) : Move(n, p, i)

SelectionSpec == SelectionInit /\ [][SelectionNext]_selectionVars

-------------------------------------------------------------------------------
(* What selectors mean. *)

RECURSIVE Above(_)
Above(n)  == LET p == Parent(n) IN IF p \in Nodes THEN {p} \cup Above(p) ELSE {}
Before(n) == {b \in Nodes : IsElement(b) /\ Parent(b) = Parent(n) /\ Place(b) < Place(n)}
Related(n, r) ==
    CASE r = " " -> Above(n)
      [] r = ">" -> Above(n) \cap {Parent(n)}
      [] r = "~" -> Before(n)
      [] OTHER   -> {b \in Before(n) : \A x \in Before(n) : Place(x) <= Place(b)}

RECURSIVE Means(_, _, _, _), Answer(_, _)
MeansFilter(e, t) ==
    LET family == {b \in ToSet(Siblings(e)) : IsElement(b)}
        place  == Place(e)
        at == Cardinality({b \in family : IF t.type = "NTH" THEN Place(b) <= place ELSE Place(b) >= place})
    IN  CASE t.type = "CLASS" -> Class[e] = t.c
          [] t.type \in {"NTH", "NTHLAST"} -> \E n \in 0..Cardinality(Nodes) : at = t.first * n + t.last
          [] t.type = "NOT" -> \A g \in ToSet(t.groups) : ~Means(e, g, Len(g), None)
          [] t.type = "HAS" -> Answer(t.groups, e) # {}
          [] OTHER -> FALSE

\* The first k tokens lead from the context to e.
Means(e, tokens, k, ctx) ==
    CASE k = 0 -> ctx \in {Doc, None} \/ ctx \in Above(e)
      [] k = 1 /\ Leading(tokens) -> ctx \in Related(e, tokens[1].rel) \/ (ctx = Doc /\ tokens[1].rel = " ")
                                     \/ (ctx = Doc /\ tokens[1].rel = ">" /\ Parent(e) = Doc)
      [] tokens[k].type = "REL" -> \E n \in Related(e, tokens[k].rel) : Means(n, tokens, k - 1, ctx)
      [] OTHER -> MeansFilter(e, tokens[k]) /\ Means(e, tokens, k - 1, ctx)

\* Those at some places among what comes before, that the filters leave; then what is
\* meant from each of them on.
RECURSIVE MeantLeft(_, _), MeantSet(_, _)
MeantLeft(elems, tokens) ==
    IF tokens = <<>> THEN elems
    ELSE MeantLeft(IF tokens[1].type = "POS" THEN AtPlaces(elems, tokens[1])
                   ELSE SelectSeq(elems, LAMBDA e : MeansFilter(e, tokens[1])), Tail(tokens))
MeantSet(tokens, ctx) ==
    LET i      == FirstOf(tokens, "POS", 1)
        j      == FirstOf(tokens, "REL", i)
        before == Answer(<<SubSeq(tokens, 1, i - 1)>>, ctx)
        left   == ToSet(MeantLeft(UniqueSort(SetToSeq(before)), SubSeq(tokens, i, j - 1)))
    IN  IF j > Len(tokens) THEN left
        ELSE UNION {Answer(<<SubSeq(tokens, j, Len(tokens))>>, e) : e \in left}

Answer(groups, ctx) ==
    UNION {IF IsSet(g) THEN MeantSet(g, ctx) ELSE {e \in ToSet(Below(Doc)) : Means(e, g, Len(g), ctx)} :
           g \in ToSet(groups)}

\* A combinator after a position: an element may be found from several of those chosen.
Doubled(groups) ==
    \E g \in ToSet(groups) : IsSet(g) /\ FirstOf(g, "REL", FirstOf(g, "POS", 1)) <= Len(g)

\* Whether a filter may make a query of its own.
RECURSIVE Asks(_), MayLose(_), MayInvent(_)
Asks(t) == t.type = "HAS" \/ (t.type = "NOT" /\ \E g \in ToSet(t.groups) : \E u \in ToSet(g) : Asks(u))

\* Left of a combinator that keeps what it found such a query leaves its own cachedruns
\* behind: the next candidate may take it for a failure of its own.
MayLose(groups) ==
    \E g \in ToSet(groups) : \E j \in DOMAIN g :
        \/ g[j].type \in {"NOT", "HAS"} /\ MayLose(g[j].groups)
        \/ g[j].type = "REL" /\ ~Closest(g[j].rel) /\ \E i \in 1..(j - 1) : Asks(g[i])

\* Under a :not, or among those a position counts, an element lost may be another found.
MayInvent(groups) ==
    \E g \in ToSet(groups) :
        \/ IsSet(g) /\ MayLose(<<g>>)
        \/ \E t \in ToSet(g) : \/ t.type = "NOT" /\ MayLose(t.groups)
                               \/ t.type = "HAS" /\ MayInvent(t.groups)

\* A query finds what its selector means of the document as it is, in document order
\* and once unless a combinator follows a position, whatever earlier queries and those
\* nested in it left on the elements, also when one of them threw half way.  Only where
\* a nested query writes over cachedruns may elements be missed, and never are others
\* found (addCombinator, filter.CHILD, setMatcher, superMatcher).
SelectsWhatIsMeant ==
    query.groups # <<>> =>
        /\ IF MayLose(query.groups)
           THEN MayInvent(query.groups) \/ ToSet(query.found) \subseteq Answer(query.groups, query.ctx)
           ELSE ToSet(query.found) = Answer(query.groups, query.ctx)
        /\ Doubled(query.groups) \/ query.found = UniqueSort(query.found)

\* Nothing meant is missed, whatever nested matchers did to the globals of the engine:
\* the comment of superMatcher says that it overrides that (jquery-1.9.1.js:5408).
NothingMeantIsMissed ==
    query.groups # <<>> => Answer(query.groups, query.ctx) \subseteq ToSet(query.found)
===============================================================================
