----------------------------- MODULE MCDocument ------------------------------
(***************************************************************************)
(* Instances for TLC of what jQuery does in a document: its data and events, *)
(* its selectors, its effects.  A behaviour is of one of the three.          *)
(***************************************************************************)
EXTENDS Dom, Selection, Effects

CONSTANTS e1, e2, Parts

VARIABLE part       \* which of Parts a behaviour is of

MCVars == <<part, dom, selectionVars, fx>>

-------------------------------------------------------------------------------
(* Dom: pages small enough for all that can be done in them, in any order. *)

On1(type, sel, fn)  == [type |-> type, sel |-> sel, fn |-> fn, once |-> FALSE]
One1(type, sel, fn) == [On1(type, sel, fn) EXCEPT !.once = TRUE]

\* A box in the page, another in the box.
OnePage(second, bindings, calls, handlers, spares) ==
    [kind |-> <<"plain", second>>, nesting |-> <<Page, 1>>, bindings |-> bindings, calls |-> calls,
     handlers |-> handlers, spares |-> spares]

Scripted == <<
    OnePage("script", {}, {"move"}, 0, {3, 4}),
    OnePage("script", {}, {"move", "spread"}, 0, {3}) >>
Bound == <<
    OnePage("plain", {On1("custom", NoSel, "count"), On1("focusin", NoSel, "count")}, {"data"}, 1, {3}),
    OnePage("check", {On1("click", NoSel, "count"), On1("focus", "plain", "count")}, {"off"}, 2, {3}) >>
Used == <<
    OnePage("check", {On1("click", NoSel, "count"), One1("click", NoSel, "remove"), On1("click", "plain", "count"),
                      On1("click", "plain", "false"), On1("click", NoSel, "again"), On1("custom", NoSel, "count")},
            {"events"}, 2, {3}),
    OnePage("check", {On1("focus", NoSel, "count"), One1("focus", NoSel, "remove"), On1("focus", "plain", "count"),
                      On1("focusin", NoSel, "remove"), On1("focusin", NoSel, "off")},
            {"events"}, 2, {3}) >>
MCPages == Scripted \o Bound \o Used

MCDoes == [count |-> "nothing", remove |-> "remove", again |-> "again", false |-> "false", off |-> "off"]

-------------------------------------------------------------------------------
(* Selection: small trees of elements of the classes a, b, c and a text. *)

MCClass == <<"a", "b", "a", "c", "text", "b", "c">>
Tree(f, most) == [n \in 0..most |-> IF n \in DOMAIN f THEN f[n] ELSE <<>>]
\* An a in an a, a b in each, two c in the inner one.
NestedTree == Tree((0 :> <<1>>) @@ (1 :> <<2, 3>>) @@ (3 :> <<4, 6, 7>>), 7)
NestedTrees == {NestedTree}
MCTrees == {
    Tree((0 :> <<1>>) @@ (1 :> <<2, 5>>) @@ (2 :> <<3>>) @@ (3 :> <<4>>), 5),
    Tree((0 :> <<1>>) @@ (1 :> <<5, 2, 3, 4>>), 5),
    Tree((0 :> <<1, 5, 2>>) @@ (1 :> <<3>>) @@ (2 :> <<4>>), 5),
    NestedTree}

\* .a, .b, .c and the combinators between them.
A == Cls("a")
B == Cls("b")
C == Cls("c")
In    == Rel(" ")
Child == Rel(">")
Next  == Rel("+")
Later == Rel("~")

\* A query nested in what a combinator remembers; others like it.
NestedHas == {<< <<A, Has(<< <<B, Nth(0, 1)>> >>), In, C>> >>}
Nested == NestedHas \cup {
    << <<A, Not(<< <<A, In, A>>, <<B>> >>), In, C>> >>,
    << <<A, Has(<< <<B, Nth(0, 1)>> >>), Child, C>> >> }
MCSelectors == {
    << <<A, In, B, In, C>> >>,
    << <<A, Child, C>>, <<B, In, A>> >>,
    << <<B, Later, A, Pos("gt", 0)>> >>,
    << <<A, In, B, Later, C>> >>,
    << <<A, In, B>>, <<Nth(2, 1), Pos("odd", 0), Not(<< <<C>> >>)>> >>,
    << <<A, Pos("even", 0), In, A, Pos("eq", -1)>> >>,
    << <<B, In, A, NthLast(2, 0)>> >>,
    << <<C, Not(<< <<A, In, B, In, C>> >>)>>, <<A, In, A>> >>,
    << <<A, Has(<< <<In, A, Pos("eq", 0)>> >>), In, C>> >>,
    << <<Has(<< <<Next, A>> >>), Not(<< <<A>>, <<Nth(2, 0)>> >>)>> >>,
    << <<Child, C>> >>,
    << <<Nth(2, 0), In, Nth(0, 1)>> >>,
    << <<A, Has(<< <<B, In, Broken>> >>)>> >>,
    << <<Has(<< <<In, A, Pos("eq", 0)>> >>)>> >> } \cup Nested

-------------------------------------------------------------------------------
\* The two elements are alike: what is made first is made for e1.  The last thing made
\* cannot make another: its complete function need not try.
Distinct ==
    /\ fx.items = <<>> => ~ \E i \in DOMAIN fx'.items : i = 1 /\ fx'.items[i].elem # e1
    /\ Len(fx'.items) = MaxItems => fx'.items[MaxItems].react # "animate"

MCInit ==
    /\ part \in Parts
    /\ DomInit /\ EffectsInit
    /\ part # "dom" => dom.page = 1
    /\ IF part = "select" THEN SelectionInit
       ELSE kids = <<>> /\ memory = <<>> /\ query = NoQuery /\ queries = 0

\* Bounds: the large tree is queried as a whole; those of Nested are for it.
InTheirTree == IF 7 \in DOMAIN kids THEN query'.ctx = Doc ELSE query'.groups \notin Nested

MCNext ==
    /\ UNCHANGED part
    /\ \/ part = "dom" /\ DomNext /\ dom' # dom /\ UNCHANGED <<selectionVars, fx>>
       \/ part = "select" /\ SelectionNext /\ InTheirTree /\ UNCHANGED <<dom, fx>>
       \/ part = "effects" /\ EffectsNext /\ fx' # fx /\ Distinct /\ UNCHANGED <<dom, selectionVars>>

MCSpec == MCInit /\ [][MCNext]_MCVars
==============================================================================
