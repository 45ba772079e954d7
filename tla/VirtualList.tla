---------------------------- MODULE VirtualList -----------------------------
(***************************************************************************)
(* The list that renders only the rows in view, and some before and after  *)
(* them.  What it renders follows from the position of the last scroll     *)
(* event it has handled; the position of the container itself may have     *)
(* moved on.  The browser (external) keeps that position within the        *)
(* content and raises an event when it moves.  The rows change when the    *)
(* filter of the war room does.  Every row is itemHeight high; positions   *)
(* are whole units.                                                        *)
(*                                                                         *)
(* A definition introduced as a slip is used by no specification: it is    *)
(* a mistake this code could well contain, kept here to show that a        *)
(* property would notice it.                                               *)
(***************************************************************************)
EXTENDS Integers

CONSTANTS
    ItemHeight,
    ContainerHeight,
    MaxItems            \* bound: rows

ASSUME HeightsAssumption ==
    ItemHeight \in Nat \ {0} /\ ContainerHeight \in Nat /\ MaxItems \in Nat

VARIABLES
    itemCount,      \* items.length
    scrollTop,      \* the state of the component
    position,       \* scrollTop of the container
    scrolled        \* an event waits for handleScroll

listVars == <<itemCount, scrollTop, position, scrolled>>

Larger(a, b) == IF a > b THEN a ELSE b
Smaller(a, b) == IF a < b THEN a ELSE b

\* How far n rows can be scrolled.
Reach(n) == Larger(0, n * ItemHeight - ContainerHeight)

ListTypeOK ==
    /\ itemCount \in 0..MaxItems
    /\ scrollTop \in Nat
    /\ position \in Nat
    /\ scrolled \in BOOLEAN

ListInit ==
    /\ itemCount \in 0..MaxItems
    /\ scrollTop = 0
    /\ position = 0
    /\ scrolled = FALSE

StartIndex == Larger(0, (scrollTop \div ItemHeight) - 5)

\* Slip: the height of the container is left out.
EndIndexOfTop == Smaller(itemCount - 1, (scrollTop \div ItemHeight) + 5)

EndIndex == Smaller(itemCount - 1, ((scrollTop + ContainerHeight) \div ItemHeight) + 5)

VisibleItems == StartIndex..EndIndex

Scroll ==
    /\ \E y \in 0..Reach(itemCount) : y # position /\ position' = y
    /\ scrolled' = TRUE
    /\ UNCHANGED <<itemCount, scrollTop>>

HandleScroll ==
    /\ scrolled
    /\ scrollTop' = position
    /\ scrolled' = FALSE
    /\ UNCHANGED <<itemCount, position>>

\* Fewer rows than were scrolled past pull the container back; scrollTop
\* learns of it with the event.
ChangeItems ==
    \E n \in 0..MaxItems :
        /\ itemCount' = n
        /\ position' = Smaller(position, Reach(n))
        /\ scrolled' = (scrolled \/ position' # position)
        /\ UNCHANGED scrollTop

ListNext == Scroll \/ HandleScroll \/ ChangeItems

ListSpec == ListInit /\ [][ListNext]_listVars

-----------------------------------------------------------------------------
(* Properties.                                                             *)

\* Once every scroll event is handled, each row of which a part is in view is
\* rendered, at either edge and whatever the filter has removed meanwhile.
RowsInViewAreRendered ==
    ~scrolled =>
        \A i \in 0..itemCount - 1 :
            (i + 1) * ItemHeight > position /\ i * ItemHeight < position + ContainerHeight
                => i \in VisibleItems

=============================================================================
