--------------------------- MODULE MCRegistration ---------------------------
(***************************************************************************)
(* Registration for TLC: the constants that a configuration cannot write,  *)
(* and the bounds.                                                         *)
(***************************************************************************)
EXTENDS Registration, FiniteSets, TLC

CONSTANTS inner, outer, mouseover, mouseenter, l2

MCParent == (inner :> outer) @@ (outer :> None)
MCAbove == (inner :> {inner, outer}) @@ (outer :> {outer})
MCDomName == (mouseover :> mouseover) @@ (mouseenter :> mouseover)

\* Pages with one kind of effect each, with any positions in the queue, and
\* that toggle.
AnyKind == {"Fade", "Appear", "Puff", "BlindUp", "BlindDown", "SwitchOff", "DropOut", "Shake",
            "SlideDown", "SlideUp", "Squish", "Grow", "Shrink", "Pulsate", "Fold", "Highlight"}
MCPages ==
    {[kinds |-> {k}, positions |-> {"parallel", "end"}, limits |-> {0}, most |-> 2] : k \in AnyKind}
    \cup {[kinds |-> {"Fade", "Appear", "Highlight"}, positions |-> {"front", "with-last", "end"},
           limits |-> {0}, most |-> 3]}
    \cup {[kinds |-> {"Fade", "Appear", "Highlight"}, positions |-> {"end"}, limits |-> {0}, most |-> 3]}
    \cup {[kinds |-> {"Fade", "Appear"}, positions |-> {"end"}, limits |-> {0}, most |-> 4]}
    \cup {[kinds |-> k, positions |-> {}, limits |-> {0}, most |-> 3] :
            k \in {{"SlideDown", "SlideUp"}, {"BlindDown", "BlindUp"}, {"Appear", "Fade"}}}

\* Each with a ghost: with a delay, or scrolling; quiet, or not.
MCDragOptions == {[ghosting |-> TRUE, delay |-> on, scroll |-> ~on, quiet |-> on] : on \in BOOLEAN}

MCEntries == {<<"a">>}

\* Bounds on the forms: a timed observer is of a text field or of the form, and
\* one element is disabled at a time.
FewObservers == scene = "form" => (observer.kind = "timed" => observer.of \in TextFields \cup {Form})
FewDisabled == scene = "form" => \A f, g \in disabled : f = g

\* Bound on the grid: once rows may be mixed up, what is under way is answered
\* and nothing more is asked for until the grid is reset.
AnswersOnly == scene = "grid" => (mixed /\ mixed' => flights' \subseteq flights)

\* Bounds on the selection: of two zones the second accepts it, or both do.
\* Where both do they stay registered, and the mouse is used after a drag has
\* ended only.
SecondAccepts == scene = "selection" => l2 \in accepting
Simply ==
    scene = "selection" => Cardinality(accepting) = 1 \/ (dropZones' = dropZones /\ ~hurried')
=============================================================================
