----------------------------- MODULE EffectQueue -----------------------------
(***************************************************************************)
(* Visual effects of effects.js on one element of a page: the scoped queue *)
(* that times them, the interval that drives it, and what each combination *)
(* effect does to the element's style when it is created, set up, rendered *)
(* and finished.                                                           *)
(*                                                                         *)
(* Times are relative to now.  An effect lasts Duration units; the         *)
(* interval comes 1 to MaxLag units after the last one, later than the 15  *)
(* ms asked for whenever the page's script is busy.  Effects wait, are     *)
(* reordered and overlap as the options of their queue say.                *)
(***************************************************************************)
EXTENDS Integers, Sequences, FiniteSets, SequencesExt

CONSTANTS
    Duration,       \* how long an effect lasts
    MaxLag,         \* bound: the longest pause between two interval events
    Pages           \* what scripts do: [kinds, positions, limits, most], the
                    \* last the bound on the effects a page view creates

VARIABLES
    effects,        \* ScopedQueue.effects
    style,          \* the element's style
    made,           \* the effects created so far
    apart,          \* history: no two unrelated effects were pending at once
    page            \* the page: one of Pages

vars == <<effects, style, made, apart, page>>

\* Opacity 2 is full, which is also what no inline value means; 1 stands for
\* every value in between.
Bare(shown) == [shown |-> shown, opacity |-> 2, clipped |-> FALSE, position |-> "own",
                madePositioned |-> FALSE, inner |-> "own", size |-> "own",
                place |-> "own", color |-> "own"]

----------------------------------------------------------------------------
(* The calls effects make on the element, by name; old is its style when   *)
(* the effect was created.                                                 *)

MakePositioned(s) ==
    IF s.position # "own" THEN s
    ELSE [s EXCEPT !.position = "relative", !.madePositioned = TRUE]

UndoPositioned(s) ==
    IF ~s.madePositioned THEN s
    ELSE [s EXCEPT !.position = "own", !.madePositioned = FALSE, !.place = "own"]

Call(s, name, old) ==
    CASE name = "show" -> [s EXCEPT !.shown = TRUE]
      [] name = "hide" -> [s EXCEPT !.shown = FALSE]
      [] name = "makeClipping" -> [s EXCEPT !.clipped = TRUE]
      [] name = "undoClipping" -> [s EXCEPT !.clipped = FALSE]
      [] name = "makePositioned" -> MakePositioned(s)
      [] name = "undoPositioned" -> UndoPositioned(s)
      [] name = "absolutize" -> [s EXCEPT !.position = "absolute", !.place = "other", !.size = "other"]
      [] name = "height 0px" -> [s EXCEPT !.size = "other"]
      [] name = "inner.makePositioned" -> [s EXCEPT !.inner = "positioned"]
      [] name = "inner.undoPositioned" -> [s EXCEPT !.inner = "own"]
      [] name = "old opacity" -> [s EXCEPT !.opacity = old.opacity]
      [] name = "old position" -> [s EXCEPT !.position = old.position]
      [] name = "old place" -> [s EXCEPT !.place = old.place]
      [] name = "old size" -> [s EXCEPT !.size = old.size]

\* The calls of a list, one after another.
Calls(s, names, old) ==
    LET after[n \in 0..Len(names)] == IF n = 0 THEN s ELSE Call(after[n - 1], names[n], old)
    IN  after[Len(names)]

----------------------------------------------------------------------------
(* The effects: what is drawn (core), the opacities it goes between, and   *)
(* the calls made when it is created, before and after the set-up of the   *)
(* core effects, and once it has finished; then is the effect that follows.*)

Plain == [core |-> {}, from |-> 0, to |-> 2, restore |-> FALSE, create |-> <<>>,
          before |-> <<>>, after |-> <<>>, finish |-> <<>>, then |-> "none"]

\* An effect that starts at the opacity the element then has.
Current == -1

Fade == [Plain EXCEPT !.core = {"opacity"}, !.from = Current, !.to = 0,
            !.finish = <<"hide", "old opacity">>]
Appear == [Plain EXCEPT !.core = {"opacity"}, !.from = Current, !.before = <<"show">>]
Puff == [Plain EXCEPT !.core = {"scale", "center", "opacity"}, !.from = Current, !.to = 0,
            !.restore = TRUE, !.before = <<"absolutize">>,
            !.finish = <<"hide", "old opacity", "old position", "old place", "old size">>]
BlindUp == [Plain EXCEPT !.core = {"scale"}, !.restore = TRUE, !.create = <<"makeClipping">>,
            !.finish = <<"hide", "undoClipping">>]
BlindDown == [Plain EXCEPT !.core = {"scale"}, !.restore = TRUE,
            !.after = <<"makeClipping", "height 0px", "show">>, !.finish = <<"undoClipping">>]
SwitchOff == [Appear EXCEPT !.from = 0, !.then = "SwitchOff2"]
SwitchOff2 == [Plain EXCEPT !.core = {"scale", "center"}, !.restore = TRUE,
            !.before = <<"makePositioned", "makeClipping">>,
            !.finish = <<"hide", "undoClipping", "undoPositioned", "old opacity">>]
DropOut == [Plain EXCEPT !.core = {"move", "opacity"}, !.from = Current, !.to = 0,
            !.before = <<"makePositioned">>,
            !.finish = <<"hide", "undoPositioned", "old place", "old opacity">>]
\* Six moves, the first and the last alike; two stand for the rest.
Shake == [Plain EXCEPT !.core = {"move"}, !.then = "Shake2"]
Shake2 == [Plain EXCEPT !.core = {"move"}, !.then = "Shake3"]
Shake3 == [Plain EXCEPT !.core = {"move"}, !.finish = <<"undoPositioned", "old place">>]
SlideDown == [Plain EXCEPT !.core = {"scale"}, !.restore = TRUE,
            !.after = <<"makePositioned", "inner.makePositioned", "makeClipping", "height 0px", "show">>,
            !.finish = <<"undoClipping", "undoPositioned", "inner.undoPositioned">>]
SlideUp == [Plain EXCEPT !.core = {"scale"}, !.restore = TRUE,
            !.after = <<"makePositioned", "inner.makePositioned", "makeClipping", "show">>,
            !.finish = <<"hide", "undoClipping", "undoPositioned", "inner.undoPositioned">>]
Squish == [Plain EXCEPT !.core = {"scale"}, !.restore = TRUE, !.before = <<"makeClipping">>,
            !.finish = <<"hide", "undoClipping">>]
Grow == [Plain EXCEPT !.core = {"move"}, !.before = <<"hide", "makeClipping", "makePositioned">>,
            !.then = "Grow2"]
Grow2 == [Plain EXCEPT !.core = {"opacity", "move", "scale"}, !.restore = TRUE,
            !.before = <<"height 0px", "show">>,
            !.finish = <<"undoClipping", "undoPositioned", "old place", "old size", "old opacity">>]
Shrink == [Plain EXCEPT !.core = {"opacity", "scale", "move"}, !.from = 2, !.to = 0, !.restore = TRUE,
            !.create = <<"makePositioned", "makeClipping">>,
            !.finish = <<"hide", "undoClipping", "undoPositioned", "old place", "old size", "old opacity">>]
Pulsate == [Plain EXCEPT !.core = {"opacity"}, !.finish = <<"old opacity">>]
Fold == [Plain EXCEPT !.core = {"scale"}, !.create = <<"makeClipping">>, !.then = "Fold2"]
Fold2 == [Plain EXCEPT !.core = {"scale"}, !.finish = <<"hide", "undoClipping", "old place", "old size">>]
Highlight == [Plain EXCEPT !.core = {"color"}]

FirstStages == {"Fade", "Appear", "Puff", "BlindUp", "BlindDown", "SwitchOff", "DropOut", "Shake",
                "SlideDown", "SlideUp", "Squish", "Grow", "Shrink", "Pulsate", "Fold", "Highlight"}
LaterStages == {"SwitchOff2", "Shake2", "Shake3", "Grow2", "Fold2"}
Kinds == FirstStages \cup LaterStages

Effect(kind) ==
    CASE kind = "Fade" -> Fade [] kind = "Appear" -> Appear [] kind = "Puff" -> Puff
      [] kind = "BlindUp" -> BlindUp [] kind = "BlindDown" -> BlindDown
      [] kind = "SwitchOff" -> SwitchOff [] kind = "SwitchOff2" -> SwitchOff2
      [] kind = "DropOut" -> DropOut [] kind = "Shake" -> Shake [] kind = "Shake2" -> Shake2
      [] kind = "Shake3" -> Shake3 [] kind = "SlideDown" -> SlideDown
      [] kind = "SlideUp" -> SlideUp [] kind = "Squish" -> Squish [] kind = "Grow" -> Grow
      [] kind = "Grow2" -> Grow2 [] kind = "Shrink" -> Shrink [] kind = "Pulsate" -> Pulsate
      [] kind = "Fold" -> Fold [] kind = "Fold2" -> Fold2 [] kind = "Highlight" -> Highlight

\* Effect.PAIRS: the effects toggle() chooses from by what is visible.
Pairs == { <<"SlideDown", "SlideUp">>, <<"BlindDown", "BlindUp">>, <<"Appear", "Fade">> }

Related(k1, k2) == \E pair \in Pairs : {k1, k2} \subseteq {pair[1], pair[2]}

\* What the core effects draw at a position of the way, or at its end.
Drawn(s, fx, from, atEnd) ==
    [s EXCEPT
      !.opacity = IF "opacity" \notin fx.core THEN @
                  ELSE IF atEnd \/ from = fx.to THEN fx.to ELSE 1,
      !.place = IF fx.core \cap {"move", "center"} # {} THEN "other" ELSE @,
      !.size = IF "scale" \in fx.core THEN "other" ELSE @,
      !.color = IF "color" \in fx.core THEN "other" ELSE @]

EffectAssumption ==
    /\ Duration \in Nat \ {0} /\ MaxLag \in Nat \ {0}
    /\ \A p \in Pages :
        /\ p.kinds \subseteq FirstStages
        /\ p.positions \subseteq {"parallel", "front", "with-last", "end"}
        /\ p.limits \subseteq Nat /\ p.most \in Nat

TypeOK ==
    /\ style \in [shown : BOOLEAN, opacity : 0..2, clipped : BOOLEAN,
                  position : {"own", "relative", "absolute"}, madePositioned : BOOLEAN,
                  inner : {"own", "positioned"}, size : {"own", "other"},
                  place : {"own", "other"}, color : {"own", "other"}]
    /\ \A i \in DOMAIN effects :
        /\ effects[i].kind \in Kinds
        /\ effects[i].state \in {"idle", "running"}
        /\ effects[i].finishOn = effects[i].startOn + Duration
    /\ made \in 0..page.most
    /\ apart \in BOOLEAN
    /\ page \in Pages

Init ==
    /\ effects = <<>>
    /\ \E shown \in BOOLEAN : style = Bare(shown)
    /\ made = 0
    /\ apart = TRUE
    /\ page \in Pages

----------------------------------------------------------------------------
(* Queueing. *)

MaxOf(es, field) == CHOOSE t \in {es[i][field] : i \in DOMAIN es} :
                        \A i \in DOMAIN es : es[i][field] <= t

\* When an effect added at a position of the queue starts, in units from now.
StartOn(es, position) ==
    CASE es = <<>> \/ position \in {"parallel", "front"} -> 0
      [] es # <<>> /\ position = "with-last" -> MaxOf(es, "startOn")
      [] es # <<>> /\ position = "end" -> MaxOf(es, "finishOn")

\* Those that have not started make way for one added at the front.
Postponed(es) ==
    [i \in DOMAIN es |->
        IF es[i].state = "idle"
        THEN [es[i] EXCEPT !.startOn = @ + Duration, !.finishOn = @ + Duration]
        ELSE es[i]]

\* add(): an effect beyond the limit is dropped, after all of the rest.
Added(es, e, position, limit) ==
    LET moved == IF position = "front" THEN Postponed(es) ELSE es
        timed == [e EXCEPT !.startOn = StartOn(es, position),
                           !.finishOn = StartOn(es, position) + Duration,
                           !.behind = IF position = "end" THEN {es[i].id : i \in DOMAIN es} ELSE {}]
    IN  IF limit = 0 \/ Len(es) < limit THEN Append(moved, timed) ELSE moved

Fresh(id, kind, s, old) ==
    [id |-> id, kind |-> kind, state |-> "idle", startOn |-> 0, finishOn |-> Duration,
     from |-> IF Effect(kind).from # Current THEN Effect(kind).from
              ELSE IF kind = "Appear" /\ ~s.shown THEN 0
              ELSE IF kind = "Fade" /\ s.opacity = 0 THEN 2 ELSE s.opacity,
     old |-> old, orig |-> old, behind |-> {}]

\* A script creates an effect, by name or through toggle(), which shows what
\* is hidden and hides what is visible.
Create(kind, position, limit) ==
    /\ made < page.most
    /\ style' = Calls(style, Effect(kind).create, style)
    /\ effects' = Added(effects, Fresh(made + 1, kind, style, style), position, limit)
    /\ made' = made + 1
    /\ apart' = (apart /\ (effects = <<>>
                    \/ (limit = 1 /\ \A i \in DOMAIN effects : Related(kind, effects[i].kind))))
    /\ UNCHANGED page

NewEffect ==
    \E kind \in page.kinds, position \in page.positions, limit \in page.limits :
        Create(kind, position, limit)

Toggle ==
    \E pair \in Pairs :
        /\ {pair[1], pair[2]} \subseteq page.kinds
        /\ Create(IF style.shown THEN pair[2] ELSE pair[1], "end", 1)

----------------------------------------------------------------------------
(* The interval. *)

\* render(pos): an effect that has not run yet is set up; then it is drawn.
\* (The opacity Appear sets before it shows the element is drawn over.)
Rendered(e, s, atEnd) ==
    LET fx == Effect(e.kind)
        before == IF e.state = "idle" THEN Calls(s, fx.before, e.old) ELSE s
        setup == IF e.state = "idle" /\ "move" \in fx.core THEN MakePositioned(before) ELSE before
        after == IF e.state = "idle" THEN Calls(setup, fx.after, e.old) ELSE setup
    IN  [effect |-> [e EXCEPT !.state = "running", !.orig = IF e.state = "idle" THEN setup ELSE @],
         style |-> Drawn(after, fx, e.from, atEnd)]

\* Mutant: what was drawn stays.
FinishedAsDrawn(e, s) == Calls(s, Effect(e.kind).finish, e.old)

\* finish(), then afterFinish: Scale puts its measures back, Highlight its
\* colour.
Finished(e, s) ==
    LET fx == Effect(e.kind)
        put == [s EXCEPT !.color = IF "color" \in fx.core THEN "own" ELSE @,
                         !.size = IF fx.restore THEN e.orig.size ELSE @,
                         !.place = IF fx.restore THEN e.orig.place ELSE @]
    IN  Calls(put, fx.finish, e.old)

\* What is added to an effect's id for the one that follows it.
NextStage == 100

\* Effect.Base.loop, of effect i of the queue; a is what the pass of the
\* interval has come to.  Highlight cancels itself when it is set up on a
\* hidden element; if it is due to finish at once, finish() then raises, and
\* the pass ends.
Looped(a, i) ==
    LET e == a.effects[i]
        fx == Effect(e.kind)
        hidden == e.kind = "Highlight" /\ e.state = "idle" /\ ~a.style.shown
        drawn == Rendered(e, a.style, e.finishOn <= 0)
        rest == RemoveAt(a.effects, i)
        next == Fresh(e.id + NextStage, fx.then, a.style, e.old)
    IN  IF a.raised \/ i > Len(a.effects) THEN a ELSE
        CASE hidden /\ e.startOn < 0 -> [a EXCEPT !.effects = rest, !.raised = e.finishOn <= 0]
          [] e.finishOn <= 0 /\ ~hidden ->
                [a EXCEPT !.style = Finished(drawn.effect, drawn.style),
                          !.effects = IF fx.then = "none" THEN rest ELSE Append(rest, next)]
          [] e.startOn < 0 /\ e.finishOn > 0 /\ ~hidden ->
                [a EXCEPT !.style = drawn.style,
                          !.effects = [@ EXCEPT ![i] = drawn.effect]]
          [] OTHER -> a

\* ScopedQueue.loop: as many indexes as there were effects when the pass
\* began, although an effect that finishes moves the others up by one.
Loop(lag) ==
    /\ effects # <<>>
    /\ LET due == [i \in DOMAIN effects |->
                    [effects[i] EXCEPT !.startOn = @ - lag, !.finishOn = @ - lag]]
           pass[i \in 0..Len(effects)] ==
                IF i = 0 THEN [effects |-> due, style |-> style, raised |-> FALSE]
                ELSE Looped(pass[i - 1], i)
       IN  effects' = pass[Len(effects)].effects /\ style' = pass[Len(effects)].style
    /\ UNCHANGED <<made, apart, page>>

\* The page is left, and viewed again.
Reload ==
    /\ effects = <<>>
    /\ made > 0
    /\ \E shown \in BOOLEAN : style' = Bare(shown)
    /\ made' = 0
    /\ apart' = TRUE
    /\ UNCHANGED <<effects, page>>

Next == NewEffect \/ Toggle \/ Reload \/ \E lag \in 1..MaxLag : Loop(lag)

Spec == Init /\ [][Next]_vars

----------------------------------------------------------------------------
(* Properties. *)

\* L527-913: as long as no two unrelated effects were pending at once, when
\* the queue is empty the element looks as it did, but for being visible or
\* not: clipping and positioning are undone, opacity, size, place and colour
\* are its own again, however late the interval came and whatever frames it
\* skipped, also under repeated toggling (L150-157).
NoTrace == apart /\ effects = <<>> => style = Bare(style.shown)

\* L189-192, "start effect after last queued effect has finished": an effect
\* queued at the end runs only when those that were ahead of it have gone.
EndWaits ==
    \A i \in DOMAIN effects : effects[i].state = "running" =>
        \A j \in DOMAIN effects : effects[j].id \notin effects[i].behind

\* The same, on pages whose scripts queue effects of one stage at the end only
\* (as the spinner of application.js does), if the interval is late by no more
\* than the time an effect lasts.  Otherwise two effects finish in one pass of
\* the interval, which then skips the effect after the first; and a second
\* stage is queued to start at once.
EndWaitsInLine ==
    /\ page.positions \subseteq {"end"}
    /\ \A kind \in page.kinds : Effect(kind).then = "none"
    /\ MaxLag <= Duration
    => EndWaits
=============================================================================
