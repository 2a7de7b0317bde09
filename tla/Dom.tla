--------------------------------- MODULE Dom ----------------------------------
(***************************************************************************)
(* The data and the handlers jQuery keeps for elements, while the page       *)
(* binds and unbinds, triggers and is used, moves, clones and removes        *)
(* (jQuery.data, jQuery.event, manipulation).                                *)
(*                                                                          *)
(* A call of the page and an event of the browser run to their end with all  *)
(* the handlers they call, so each is one step: an operator from one state   *)
(* to the next, recursive where handlers call back.  The browser is one      *)
(* that deletes expandos, clones neither them nor listeners, and whose       *)
(* focusin does not bubble (jQuery.support).                                 *)
(***************************************************************************)
EXTENDS Integers, Sequences, SequencesExt, FiniteSets, FiniteSetsExt, Functions, TLC

CONSTANTS
    Boxes,          \* the elements of the page, numbers
    Spares,         \* the elements clones can be
    Pages,          \* bound: pages, a sequence of what each has and does:
                    \*   kind, nesting   of each box; where it is: in Page, a box or Nobody
                    \*   bindings        what it binds: type, selector, function, once
                    \*   calls           the groups of operations it uses
                    \*   handlers        how many it binds
                    \*   spares          what its clones can be
    Does            \* what each function does to the element it runs on

Page   == 0         \* the document
Nobody == -1
Things == Boxes \cup Spares \cup {Page}
NoSel  == "none"
AnySel == "**"
InTurn == <<"click", "focus", "focusin", "custom">>
Types  == ToSet(InTurn)

VARIABLE dom

\* A bound function: its number, the type asked for, its selector.
NoHandlers == [list |-> <<>>, delegates |-> 0]
NoData     == [data |-> Nobody, handle |-> Nobody, eval |-> FALSE, events |-> [t \in Types |-> NoHandlers]]

\* page           which of Pages this is
\* parent, kind   the tree, and what each thing is; "unborn" spares are not there yet
\* id, cache      expandos (0: none) and jQuery.cache; data and handle name the element
\*                whose object they are
\* deleted, fresh core_deletedIds and the next new id
\* listen         the browser's listeners of each thing, and the document's for focus
\* attaches       how many want focusin
\* triggered      jQuery.event.triggered
\* bound, calls   handlers bound so far; those the current event called
\* deep           whether a handler triggered the current event
\* wrong          whether an event called a handler twice, or not those it should
\* evaluated      scripts that ran, again if one ran once more
DomInit ==
    \E page \in DOMAIN Pages :
        dom = [page      |-> page,
               parent    |-> [n \in Things |-> IF n \in Boxes THEN Pages[page].nesting[n] ELSE Nobody],
               kind      |-> [n \in Things |-> IF n \in Boxes THEN Pages[page].kind[n]
                                               ELSE IF n = Page THEN "page" ELSE "unborn"],
               id        |-> [n \in Things |-> 0],
               cache     |-> <<>>,
               deleted   |-> <<>>,
               fresh     |-> 1,
               listen    |-> [n \in Things |-> {}],
               capture   |-> FALSE,
               attaches  |-> 0,
               active    |-> Nobody,
               triggered |-> "",
               bound     |-> 0,
               calls     |-> {},
               deep      |-> FALSE,
               wrong     |-> FALSE,
               evaluated |-> {},
               again     |-> FALSE]

-------------------------------------------------------------------------------
(* The tree *)

Born(s) == {n \in Boxes \cup Spares : s.kind[n] # "unborn"}

\* n and those above it; whether x is n or in it.
RECURSIVE Up(_, _), Within(_, _, _)
Up(s, n) == IF n = Nobody THEN <<>> ELSE <<n>> \o Up(s, s.parent[n])
Within(s, x, n) == x # Nobody /\ (x = n \/ Within(s, s.parent[x], n))
InPage(s, n) == Within(s, n, Page)

\* getAll: n and those in it, in some fixed order.
InOrder == SetToSortSeq(Boxes \cup Spares, <)
AllIn(s, n) == <<n>> \o SelectSeq(InOrder, LAMBDA x : x # n /\ Within(s, x, n))
Indexes(list) == [i \in DOMAIN list |-> i]
At(list, x)   == CHOOSE i \in DOMAIN list : list[i] = x
Scripts(s, list) == SelectSeq(list, LAMBDA x : s.kind[x] = "script")

-------------------------------------------------------------------------------
(* jQuery.data *)

HasEntry(s, n) == s.id[n] # 0 /\ s.id[n] \in DOMAIN s.cache
Entry(s, n)    == IF HasEntry(s, n) THEN s.cache[s.id[n]] ELSE NoData
Handlers(s, n, type) == Entry(s, n).events[type]
HasEvents(e)   == \E t \in Types : e.events[t].list # <<>>

\* core_deletedIds.push; kept in order, as which id an element gets makes no difference.
GiveBack(deleted, id) == SortSeq(Append(deleted, id), >)

\* internalData: the element gets an id, one given back if there is one, and an entry.
Named(s, n) ==
    IF s.id[n] # 0 THEN s
    ELSE IF s.deleted # <<>> THEN [s EXCEPT !.id[n] = Last(s.deleted), !.deleted = Front(@)]
    ELSE [s EXCEPT !.id[n] = s.fresh, !.fresh = @ + 1]
Hold(s, n) ==
    LET entered(t) == IF t.id[n] \in DOMAIN t.cache THEN t ELSE [t EXCEPT !.cache = @ @@ (t.id[n] :> NoData)]
    IN  entered(Named(s, n))

Write(s, n, entry) == LET written(t) == [t EXCEPT !.cache[t.id[n]] = entry] IN written(Hold(s, n))

RECURSIVE Unbind(_, _, _, _, _, _), CleanData(_, _)

\* internalRemoveData, once the name is gone: an empty entry goes too.
Shrink(s, n) == IF HasEntry(s, n) /\ Entry(s, n) = NoData THEN CleanData(s, <<n>>) ELSE s

-------------------------------------------------------------------------------
(* jQuery.event.add and remove *)

\* The type listened to: focus is delegated as focusin.
Real(type, sel) == IF sel # NoSel /\ type = "focus" THEN "focusin" ELSE type

\* setup and teardown of focusin; a listener of the browser for the other types.
Listen(s, n, type) ==
    IF type = "focusin" THEN [s EXCEPT !.attaches = @ + 1, !.capture = @ \/ s.attaches = 0]
    ELSE [s EXCEPT !.listen[n] = @ \cup {<<type, Entry(s, n).handle>>}]
Unlisten(s, n, type) ==
    IF type = "focusin" THEN [s EXCEPT !.attaches = @ - 1, !.capture = @ /\ s.attaches # 1]
    ELSE [s EXCEPT !.listen[n] = @ \ {<<type, Entry(s, n).handle>>}]

\* jQuery.event.add: the element's one handle, a listener with the first handler of
\* the type, delegates in front.
With(old, h) ==
    IF h.sel = NoSel THEN [old EXCEPT !.list = Append(@, h)]
    ELSE [list |-> InsertAt(old.list, old.delegates + 1, h), delegates |-> old.delegates + 1]
Bind(s, n, type, h) ==
    LET owned(t) == IF Entry(t, n).handle = Nobody THEN Write(t, n, [Entry(t, n) EXCEPT !.handle = n]) ELSE t
        heard(t) == IF Handlers(t, n, type).list = <<>> THEN Listen(t, n, type) ELSE t
        added(t) == Write(t, n, [Entry(t, n) EXCEPT !.events[type] = With(@, h)])
    IN  added(heard(owned(Hold(s, n))))

Meant(h, type, fn, sel, mapped) ==
    /\ mapped \/ h.orig = type
    /\ fn \in {NoSel, h.fn}
    /\ sel \in {NoSel, h.sel} \/ (sel = AnySel /\ h.sel # NoSel)

\* jQuery.event.remove for one type; mapped = the type is the one listened to.
Unbind(s, n, type, fn, sel, mapped) ==
    LET real      == Real(type, sel)
        gone(h)   == Meant(h, type, fn, sel, mapped)
        kept(old) == [list      |-> SelectSeq(old.list, LAMBDA h : ~gone(h)),
                      delegates |-> old.delegates - Len(SelectSeq(old.list, LAMBDA h : gone(h) /\ h.sel # NoSel))]
        deaf(old) == IF old.list # <<>> /\ kept(old).list = <<>> THEN Unlisten(s, n, real) ELSE s
        bare(e)   == IF HasEvents(e) THEN e ELSE [e EXCEPT !.handle = Nobody]
        less(t)   == Write(t, n, bare([Entry(t, n) EXCEPT !.events[real] = kept(@)]))
    IN  IF ~HasEvents(Entry(s, n)) THEN s ELSE Shrink(less(deaf(Handlers(s, n, real))), n)

\* The same without a type: each type the element has.
UnbindAll(s, n, fn, sel) ==
    FoldLeft(LAMBDA t, type : IF Handlers(t, n, type).list = <<>> THEN t ELSE Unbind(t, n, type, fn, sel, TRUE),
             s, InTurn)

-------------------------------------------------------------------------------
(* jQuery.cleanData *)

\* jQuery.event.special: their handlers are removed one type after the other.
Special == {"click", "focus", "focusin"}

\* The events of the element: removed, or no longer listened to.
Quiet(s, n) ==
    LET calm(t, type) ==
            IF Entry(s, n).events[type].list = <<>> THEN t
            ELSE IF type \in Special THEN Unbind(t, n, type, NoSel, NoSel, FALSE) ELSE Unlisten(t, n, type)
    IN  FoldLeft(calm, s, InTurn)

\* The id is given back.
Cleared(s, n, id) == [s EXCEPT !.cache = Restrict(@, DOMAIN @ \ {id}), !.id[n] = 0, !.deleted = GiveBack(@, id)]

\* Seeded fault: also if unbinding did so already.
CleanOneTwice(s, n) == IF ~HasEntry(s, n) THEN s ELSE Cleared(Quiet(s, n), n, s.id[n])

CleanOne(s, n) ==
    LET cleared(t) == IF s.id[n] \in DOMAIN t.cache THEN Cleared(t, n, s.id[n]) ELSE t
    IN  IF ~HasEntry(s, n) THEN s ELSE cleared(Quiet(s, n))

CleanData(s, list) == FoldLeft(CleanOne, s, list)

-------------------------------------------------------------------------------
(* Manipulation *)

\* The focus is lost by what leaves its place.
PutIn(s, n, p) ==
    [s EXCEPT !.parent[n] = p, !.active = IF Within(s, @, n) THEN Nobody ELSE @]

Evaluated(s, n) == Entry(s, n).eval

\* setGlobalEval: the scripts are marked, like those of `refs' if given.
SetGlobalEval(s, scripts, refs) ==
    FoldLeft(LAMBDA t, i : IF refs = <<>> \/ Evaluated(s, refs[i])
                           THEN Write(t, scripts[i], [Entry(t, scripts[i]) EXCEPT !.eval = TRUE]) ELSE t,
             s, Indexes(scripts))

\* Forgotten on purpose: remove and empty.
Forget(s, list) == [CleanData(s, list) EXCEPT !.evaluated = @ \ ToSet(list)]

Take(s, n, keepData) ==
    LET all       == AllIn(s, n)
        marked(t) == IF keepData /\ InPage(s, n) THEN SetGlobalEval(t, Scripts(s, all), <<>>) ELSE t
        out(t)    == IF s.parent[n] = Nobody THEN t ELSE PutIn(marked(t), n, Nobody)
    IN  out(IF keepData THEN s ELSE Forget(s, all))

EmptyOut(s, n) ==
    FoldLeft(LAMBDA t, x : IF t.parent[x] = n THEN PutIn(t, x, Nobody) ELSE t,
             Forget(s, Tail(AllIn(s, n))), AllIn(s, n))

\* cloneCopyEvent: the entry is copied, its handlers bound anew, the page's data copied.
Copied(s, src, dest, entry) ==
    LET again(t, type) == FoldLeft(LAMBDA u, h : Bind(u, dest, type, h), t, Handlers(s, src, type).list)
        own(t) == Write(t, dest, [Entry(t, dest) EXCEPT !.data = IF @ = Nobody THEN Nobody ELSE dest])
    IN  IF Entry(s, src) = NoData THEN s ELSE own(FoldLeft(again, Write(s, dest, entry), InTurn))

\* Seeded fault: the copied handle stays.
CopyEventKept(s, src, dest) == Copied(s, src, dest, [Entry(s, src) EXCEPT !.events = NoData.events])

CopyEvent(s, src, dest) ==
    Copied(s, src, dest, IF HasEvents(Entry(s, src)) THEN [Entry(s, src) EXCEPT !.handle = Nobody, !.events = NoData.events]
                         ELSE Entry(s, src))

\* jQuery.clone: the first of the copies is that of n itself.
Unborn(s)      == Pages[s.page].spares \ Born(s)
CanClone(s, n) == Unborn(s) # {} /\ Cardinality(Unborn(s)) >= Len(AllIn(s, n))
Copies(s, n)   == SubSeq(SelectSeq(InOrder, LAMBDA x : x \in Unborn(s)), 1, Len(AllIn(s, n)))
CloneOf(s, n, withData) ==
    LET from  == AllIn(s, n)
        to    == Copies(s, n)
        src(x) == from[At(to, x)]
        copy  == [s EXCEPT !.kind   = [x \in Things |-> IF x \in ToSet(to) THEN @[src(x)] ELSE @[x]],
                           !.parent = [x \in Things |-> IF x \in ToSet(to) \ {to[1]} THEN to[At(from, @[src(x)])] ELSE @[x]],
                           !.evaluated = @ \cup {x \in ToSet(to) : src(x) \in @}]
        filled(t) == IF withData THEN FoldLeft(LAMBDA u, i : CopyEvent(u, from[i], to[i]), t, Indexes(to)) ELSE t
        marked(t) == SetGlobalEval(filled(t), Scripts(t, to), IF InPage(s, n) THEN <<>> ELSE Scripts(s, from))
    IN  marked(copy)

\* Seeded fault: its scripts are not marked.
FragmentUnmarked(s, n) == PutIn(s, n, Nobody)

\* buildFragment: n leaves its place, with its scripts marked if it was in the page.
Fragment(s, n) == PutIn(IF InPage(s, n) THEN SetGlobalEval(s, Scripts(s, AllIn(s, n)), <<>>) ELSE s, n, Nobody)

\* domManip, for append: clones for all targets but the last; then the scripts that
\* came with n run, if they are in the page for the first time.
Evaluate(s, n) ==
    IF Evaluated(s, n) \/ ~InPage(s, n) THEN s
    ELSE [s EXCEPT !.evaluated = @ \cup {n}, !.again = @ \/ n \in s.evaluated]
Insert(s, n, targets) ==
    LET loose  == Fragment(s, n)
        clone(t, p) == PutIn(CloneOf(t, n, TRUE), Copies(t, n)[1], p)
        spread == FoldLeft(clone, loose, Front(targets))
    IN  FoldLeft(Evaluate, PutIn(spread, n, Last(targets)), Scripts(s, AllIn(s, n)))

-------------------------------------------------------------------------------
(* Events.  r is the state with what became of the event: whether its propagation  *)
(* and its default action were stopped.                                            *)

RECURSIVE Dispatch(_, _, _, _), Trigger(_, _, _, _), NativeClick(_, _), NativeFocus(_, _), NativeFrom(_, _, _, _)

\* A function of the page; `at' is the element it runs on, `on' the one it was bound to.
Act(r, at, h) ==
    CASE Does[h.fn] = "false"  -> [r EXCEPT !.stop = TRUE, !.prevent = TRUE]
      [] Does[h.fn] = "remove" /\ at # Page -> [r EXCEPT !.s = Take(@, at, FALSE)]
      [] Does[h.fn] = "off"    -> [r EXCEPT !.s = Unbind(@, at, h.orig, NoSel, NoSel, FALSE)]
      [] Does[h.fn] = "again" /\ ~r.s.deep ->
             [r EXCEPT !.s = [Trigger([@ EXCEPT !.deep = TRUE, !.calls = {}], at, h.orig, FALSE)
                              EXCEPT !.deep = FALSE, !.calls = r.s.calls]]
      [] OTHER -> r

\* The wrapper of one() unbinds before it calls.
Call(r, at, on, h) ==
    LET key  == <<at, on, h.no>>
        told == [r.s EXCEPT !.wrong = @ \/ key \in r.s.calls, !.calls = @ \cup {key}]
    IN  Act([r EXCEPT !.s = IF h.once THEN Unbind(told, on, h.orig, h.fn, h.sel, FALSE) ELSE told], at, h)

\* jQuery.event.handlers: delegates of the elements from the target up, then its own.
HandlerQueue(s, on, type, target) ==
    LET own     == Handlers(s, on, type)
        path    == Up(s, target)
        below   == IF on \in ToSet(path) THEN SubSeq(path, 1, At(path, on) - 1) ELSE path
        matches(n) == SelectSeq(SubSeq(own.list, 1, own.delegates), LAMBDA h : h.sel = s.kind[n])
        groups  == [i \in DOMAIN below |-> [elem |-> below[i], handlers |-> matches(below[i])]]
        direct  == SubSeq(own.list, own.delegates + 1, Len(own.list))
    IN  (IF own.delegates = 0 THEN <<>> ELSE SelectSeq(groups, LAMBDA g : g.elem # Page /\ g.handlers # <<>>))
        \o (IF direct = <<>> THEN <<>> ELSE <<[elem |-> on, handlers |-> direct]>>)

\* jQuery.event.dispatch: those bound when it begins.
Dispatch(r, on, type, target) ==
    FoldLeft(LAMBDA q, g : IF q.stop THEN q ELSE FoldLeft(LAMBDA p, h : Call(p, g.elem, on, h), q, g.handlers),
             r, HandlerQueue(r.s, on, type, target))

\* Seeded fault: the second event of a trigger is not discarded.
HandleTwice(r, owner, type, target) == Dispatch(r, owner, type, target)

\* The handle of an element; it discards the second event of a trigger.
Handle(r, owner, type, target) == IF r.s.triggered = type THEN r ELSE Dispatch(r, owner, type, target)

Fresh(s) == [s |-> s, stop |-> FALSE, prevent |-> FALSE]

\* The browser calls the listeners of the things on a path that are there when it
\* comes to them.
NativeFrom(r, path, type, target) ==
    FoldLeft(LAMBDA q, n : IF q.stop THEN q
                           ELSE FoldLeft(LAMBDA p, l : IF l[1] = type THEN Handle(p, l[2], type, target) ELSE p,
                                         q, SetToSeq(q.s.listen[n])),
             r, path)

NativeClick(s, n) == NativeFrom(Fresh(s), Up(s, n), "click", n).s

\* An element of the page gets the focus: the document's capturing listener makes a
\* focusin of it (jQuery.event.simulate), then the element's own listeners are called.
NativeFocus(s, n) ==
    LET here == [s EXCEPT !.active = n]
        seen == IF here.capture THEN Trigger(here, n, "focusin", FALSE) ELSE here
    IN  IF ~InPage(s, n) \/ n \in {Page, s.active} THEN s
        ELSE NativeFrom(Fresh(seen), <<n>>, "focus", n).s

\* The methods of the browser, called as the default action.
Native(s, n, type) ==
    CASE type = "click" /\ n # Page -> NativeClick(s, n)
      [] type = "focus" -> NativeFocus(s, n)
      [] OTHER -> s

\* jQuery.event.trigger: the path is found in advance, the handles when it comes to them.
Trigger(s, n, type, onlyHandlers) ==
    LET bubbles == IF type = "focus" THEN "focusin" ELSE type
        above == IF type = "focus" THEN Up(s, n) ELSE Tail(Up(s, n))
        path  == IF onlyHandlers THEN <<n>> ELSE <<n>> \o above
        visit(r, i) ==
            LET t == IF i = 1 THEN type ELSE bubbles
                e == Entry(r.s, path[i])
            IN  IF r.stop \/ e.events[t].list = <<>> THEN r ELSE Handle(r, e.handle, t, n)
        own   == \/ type = "click" /\ s.kind[n] = "check"
                 \/ type = "focus" /\ n \notin {Page, s.active}
        acted(r) == IF onlyHandlers \/ r.prevent THEN r.s
                    ELSE [Native([r.s EXCEPT !.triggered = type], n, type) EXCEPT !.triggered = ""]
    IN  CASE type = "focusin" /\ s.triggered = "focus" -> s
          [] ~onlyHandlers /\ own -> Native(s, n, type)
          [] OTHER -> acted(FoldLeft(visit, Fresh(s), Indexes(path)))

-------------------------------------------------------------------------------
(* What an event should call: on the way from n up, the handlers of the type bound  *)
(* to each, and those delegated to it that select an element from n on.             *)
Expected(s, n, type, onlyHandlers) ==
    LET path == ToSet(Up(s, n))
        held(d, t, delegated) == {h \in ToSet(Handlers(s, d, t).list) : (h.sel # NoSel) = delegated}
        own(d, t)  == {<<d, d, h.no>> : h \in held(d, t, FALSE)}
        given(d, t) == UNION {{<<e, d, h.no>> : e \in {e \in path \ {Page, d} :
                                                         d \in ToSet(Up(s, e)) /\ s.kind[e] = h.sel}} :
                              h \in held(d, t, TRUE)}
        upward(t)  == UNION {own(d, t) \cup given(d, t) : d \in path}
    IN  CASE onlyHandlers -> own(n, type)
          [] type = "focus" /\ n # Page /\ ~InPage(s, n) -> {}
          [] type = "focus" -> own(n, "focus") \cup upward("focusin")
          [] OTHER -> upward(type)

\* No handler does anything that could change what the others see.
Calm(s) == \A id \in DOMAIN s.cache : \A t \in Types :
               \A h \in ToSet(s.cache[id].events[t].list) : Does[h.fn] = "nothing"

\* An event as one step, with what it called compared with what it should.
Event(after, s, expected) ==
    [after EXCEPT !.calls = {}, !.wrong = @ \/ (Calm(s) /\ after.calls # expected)]

-------------------------------------------------------------------------------
Uses(group) == group \in Pages[dom.page].calls

\* .on(), .one()
On(n, b) ==
    /\ dom.bound < Pages[dom.page].handlers
    /\ dom' = [Bind(dom, n, Real(b.type, b.sel),
                    [no |-> dom.bound + 1, fn |-> b.fn, orig |-> b.type, sel |-> b.sel, once |-> b.once])
               EXCEPT !.bound = @ + 1]

\* .off(), with or without a type, a function, a selector
Off(n, type, fn, sel) ==
    dom' = IF type = "" THEN UnbindAll(dom, n, fn, sel) ELSE Unbind(dom, n, type, fn, sel, FALSE)

\* .data(key, value), .removeData(): the page's own
SetData(n) ==
    /\ Uses("data")
    /\ dom' = Write(dom, n, [Entry(dom, n) EXCEPT !.data = IF @ = Nobody THEN n ELSE @])
RemoveData(n) ==
    /\ Uses("data")
    /\ dom' = IF HasEntry(dom, n) THEN Shrink(Write(dom, n, [Entry(dom, n) EXCEPT !.data = Nobody]), n) ELSE dom

\* .trigger(), .triggerHandler()
Triggered(n, type, onlyHandlers) ==
    dom' = Event(Trigger(dom, n, type, onlyHandlers), dom, Expected(dom, n, type, onlyHandlers))

\* The user clicks in the page, or moves the focus.
UserClicks(n) ==
    /\ Uses("events") /\ InPage(dom, n)
    /\ dom' = Event(NativeClick(dom, n), dom, Expected(dom, n, "click", FALSE))
UserFocuses(n) ==
    /\ Uses("events") /\ n # dom.active /\ InPage(dom, n)
    /\ dom' = Event(NativeFocus(dom, n), dom, Expected(dom, n, "focus", FALSE))
UserBlurs == dom.active # Nobody /\ dom' = [dom EXCEPT !.active = Nobody]

\* .append(n) to one or two elements, none of them in n (bound: nor clones)
AppendTo(n, targets) ==
    /\ \A i \in DOMAIN targets : ~Within(dom, targets[i], n)
    /\ Len(targets) > 1 => CanClone(dom, n)
    /\ dom' = Insert(dom, n, targets)

\* .remove(), .detach(), .empty(), .clone()
RemoveNode(n, keepData) == dom' = Take(dom, n, keepData)
Empty(n)                == Uses("move") /\ dom' = EmptyOut(dom, n)
Clone(n, withData)      == CanClone(dom, n) /\ dom' = CloneOf(dom, n, withData)

DomNext ==
    \/ \E n \in Born(dom) \cup {Page} :
        \/ \E b \in Pages[dom.page].bindings : On(n, b)
        \/ Uses("off") /\ \E type \in {b.type : b \in Pages[dom.page].bindings} \cup {""},
                             fn \in {b.fn : b \in Pages[dom.page].bindings} \cup {NoSel},
                             sel \in {NoSel, "plain", AnySel} : Off(n, type, fn, sel)
        \/ SetData(n)
        \/ RemoveData(n)
        \/ Uses("events") /\ \E type \in Types, onlyHandlers \in BOOLEAN : Triggered(n, type, onlyHandlers)
    \/ \E n \in Born(dom) :
        \/ UserClicks(n)
        \/ UserFocuses(n)
        \/ Uses("move") /\ \E p \in Boxes \cup {Page} : AppendTo(n, <<p>>)
        \/ Uses("spread") /\ \E p, q \in Boxes \cup {Page} : p # q /\ AppendTo(n, <<p, q>>)
        \/ \E keepData \in BOOLEAN : RemoveNode(n, keepData)
        \/ Empty(n)
        \/ \E withData \in BOOLEAN : Clone(n, withData)
    \/ UserBlurs

DomSpec == DomInit /\ [][DomNext]_dom

-------------------------------------------------------------------------------
\* Each id of jQuery.cache is the expando of one element, or given back once, and never
\* both; an entry holds something, and the objects in it are its element's own, also
\* those of a clone (internalData, cleanData, cloneCopyEvent).
CacheIsOwned ==
    LET owned == {dom.id[n] : n \in Things} \ {0}
    IN  /\ owned = DOMAIN dom.cache
        /\ Cardinality(owned) = Cardinality({n \in Things : dom.id[n] # 0})
        /\ Cardinality(ToSet(dom.deleted)) = Len(dom.deleted)
        /\ ToSet(dom.deleted) \cap owned = {}
        /\ \A n \in Things : HasEntry(dom, n) =>
               Entry(dom, n) # NoData /\ {Entry(dom, n).data, Entry(dom, n).handle} \subseteq {Nobody, n}

\* The browser calls jQuery for an element exactly for the types it has handlers of, and
\* for focus in the page while some element wants focusin; delegates come first, and
\* are as many as their count (event.add, event.remove, cleanData, cloneCopyEvent).
ListenersMatch ==
    /\ \A n \in Things :
           /\ dom.listen[n] = {<<t, n>> : t \in {t \in Types \ {"focusin"} : Handlers(dom, n, t).list # <<>>}}
           /\ \A t \in Types : \A i \in DOMAIN Handlers(dom, n, t).list :
                  (Handlers(dom, n, t).list[i].sel # NoSel) = (i <= Handlers(dom, n, t).delegates)
    /\ dom.capture = (dom.attaches > 0)
    /\ dom.attaches >= Cardinality({n \in Things : Handlers(dom, n, "focusin").list # <<>>})

\* One event calls a handler at most once on an element, and all those it should if none
\* of them interferes, whether it comes from the user, from trigger, or from the default
\* action trigger causes (event.trigger, handle, dispatch, handlers, simulate).
CalledOncePerEvent == ~dom.wrong

\* A script that ran does not run again when it is moved, detached and put back, or
\* cloned; only when its data were removed with it (domManip, setGlobalEval, clone).
ScriptsRunOnce == ~dom.again
===============================================================================
