------------------------------ MODULE Accordion ------------------------------
(***************************************************************************)
(* Rico.Accordion of rico.js: tabs of which one is open, and the animation *)
(* that closes the one and opens the other.  Tabs are clicked, and shown   *)
(* by the page, while animations of earlier clicks are still under way.    *)
(* All animations take their steps at the same pace, so the timers that    *)
(* drive them are due in the order in which they were set.                 *)
(* The constructor needs an extend method of every object (L167), which    *)
(* rico.js tests for (L24) and the prototype.js beside it no longer        *)
(* defines; the page is taken to supply it.                                *)
(***************************************************************************)
EXTENDS Naturals, Sequences

CONSTANTS
    Tabs, FirstTab,
    Nothing,        \* what the mouse is over when it is over no title
    Steps,          \* how many steps an animation takes
    MaxAnimations   \* bound: animations under way at once

AccordionAssumption ==
    /\ FirstTab \in Tabs /\ Nothing \notin Tabs
    /\ Steps \in Nat \ {0} /\ MaxAnimations \in Nat

VARIABLES
    lastExpandedTab,
    expanded,       \* the tabs with expanded set
    bold,           \* the tabs whose titles are bold
    title,          \* the colours of each title: "expanded", "collapsed", "hover"
    displayed,      \* the tabs whose content is displayed
    height,         \* of each content: "closed", "full", or "between"
    animations,     \* those under way, in the order of their timers
    mouse,          \* the title the mouse is over
    reopened        \* history: the open tab was being closed when it was opened

look == <<expanded, bold, title, displayed, height>>
vars == <<lastExpandedTab, look, animations, mouse, reopened>>

TypeOK ==
    /\ lastExpandedTab \in Tabs
    /\ {expanded, bold, displayed} \subseteq SUBSET Tabs
    /\ title \in [Tabs -> {"expanded", "collapsed", "hover"}]
    /\ height \in [Tabs -> {"closed", "full", "between"}]
    /\ animations \in Seq([from : Tabs, to : Tabs, steps : 0..Steps])
    /\ Len(animations) <= MaxAnimations
    /\ mouse \in Tabs \cup {Nothing}
    /\ reopened \in BOOLEAN

\* The first tab is open, the others are collapsed.
Init ==
    /\ lastExpandedTab = FirstTab
    /\ expanded = {FirstTab} /\ bold = {FirstTab} /\ displayed = {FirstTab}
    /\ title = [t \in Tabs |-> IF t = FirstTab THEN "expanded" ELSE "collapsed"]
    /\ height = [t \in Tabs |-> IF t = FirstTab THEN "full" ELSE "closed"]
    /\ animations = <<>>
    /\ mouse = Nothing
    /\ reopened = FALSE

----------------------------------------------------------------------------
\* Mutant: only the last of the animations hides the tab it has closed.
ShowTabDoneLast(from, open, d, e, c) ==
    /\ displayed' = IF animations' = <<>> THEN d \ {from} ELSE d
    /\ expanded' = e \cup {open}
    /\ title' = [c EXCEPT ![open] = "expanded"]

\* showTabDone(): the tab that was closed is hidden, and the one that is open
\* by now is shown as expanded; d, e and c are what is displayed, expanded and
\* coloured so far.
ShowTabDone(from, open, d, e, c) ==
    /\ displayed' = d \ {from}
    /\ expanded' = e \cup {open}
    /\ title' = [c EXCEPT ![open] = "expanded"]

\* showCollapsed() of the tab that is open.
Collapsed == expanded \ {lastExpandedTab}
CollapsedTitle == [title EXCEPT ![lastExpandedTab] = "collapsed"]

\* showTab() without animation: closed and open at once.
ShowTabAtOnce(t) ==
    /\ UNCHANGED animations
    /\ height' = [height EXCEPT ![lastExpandedTab] = "closed", ![t] = "full"]
    /\ ShowTabDone(lastExpandedTab, t, displayed \cup {t}, Collapsed, CollapsedTitle)

\* AccordionSize: a step takes from the one content what it gives the other.
Resized(from, to) == [height EXCEPT ![from] = "between", ![to] = "between"]

\* showTab() with animation, which takes its first step at once.
ShowTabAnimated(t) ==
    /\ Len(animations) < MaxAnimations
    /\ animations' = Append(animations, [from |-> lastExpandedTab, to |-> t, steps |-> Steps - 1])
    /\ height' = Resized(lastExpandedTab, t)
    /\ expanded' = Collapsed /\ title' = CollapsedTitle
    /\ displayed' = displayed \cup {t}

ShowTab(t, animate) ==
    /\ bold' = (bold \ {lastExpandedTab}) \cup {t}
    /\ lastExpandedTab' = t
    /\ reopened' = (t = lastExpandedTab \/ \E i \in DOMAIN animations : animations[i].from = t)
    /\ IF animate THEN ShowTabAnimated(t) ELSE ShowTabAtOnce(t)
    /\ UNCHANGED mouse

\* titleBarClicked().
Click == mouse # Nothing /\ mouse # lastExpandedTab /\ ShowTab(mouse, TRUE)

\* showTabByIndex(), which the page may also call for the tab that is open.
ShowTabByIndex == \E t \in Tabs, animate \in BOOLEAN : ShowTab(t, animate)

\* hover() and unhover().
MouseOver ==
    /\ mouse = Nothing
    /\ mouse' \in Tabs
    /\ title' = [title EXCEPT ![mouse'] = "hover"]
    /\ UNCHANGED <<lastExpandedTab, expanded, bold, displayed, height, animations, reopened>>

MouseOut ==
    /\ mouse # Nothing
    /\ mouse' = Nothing
    /\ title' = [title EXCEPT ![mouse] = IF mouse \in expanded THEN "expanded" ELSE "collapsed"]
    /\ UNCHANGED <<lastExpandedTab, expanded, bold, displayed, height, animations, reopened>>

\* accordionSize() of the animation whose timer is due.
AccordionSize ==
    /\ animations # <<>>
    /\ LET a == Head(animations)
       IN  IF a.steps = 0
           THEN /\ animations' = Tail(animations)
                /\ height' = [height EXCEPT ![a.from] = "closed", ![a.to] = "full"]
                /\ ShowTabDone(a.from, lastExpandedTab, displayed, expanded, title)
           ELSE /\ animations' = Append(Tail(animations), [a EXCEPT !.steps = @ - 1])
                /\ height' = Resized(a.from, a.to)
                /\ UNCHANGED <<expanded, title, displayed>>
    /\ UNCHANGED <<lastExpandedTab, bold, mouse, reopened>>

Next == Click \/ ShowTabByIndex \/ MouseOver \/ MouseOut \/ AccordionSize

Spec == Init /\ [][Next]_vars

----------------------------------------------------------------------------
(* Properties. *)

\* L175-213, L271-291: however clicks, calls of the page and animations
\* overlap, the accordion comes to rest with one tab expanded, the one asked
\* for last: no other content is displayed, every title the mouse has left has
\* the colours of its tab, and the content of the open tab is displayed in
\* full, unless the tab was still being closed, or open, when it was asked for
\* (the end of the older animation then hides it).
OneTabOpen ==
    animations = <<>> =>
        /\ expanded = {lastExpandedTab} /\ bold = {lastExpandedTab}
        /\ displayed \subseteq {lastExpandedTab}
        /\ ~reopened => lastExpandedTab \in displayed /\ height[lastExpandedTab] = "full"
        /\ \A t \in Tabs \ {mouse} :
               title[t] = IF t \in expanded THEN "expanded" ELSE "collapsed"
=============================================================================
