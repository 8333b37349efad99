------------------------------ MODULE PagedFeed ------------------------------
(***************************************************************************)
(* What the main page's data promises a user: a feed of pages.  A          *)
(* selection (category and search text) starts an empty feed; the feed     *)
(* grows by the next page of that selection and by nothing else.           *)
(***************************************************************************)
EXTENDS Naturals, Sequences

CONSTANTS
  Selections,   \* what the user may select
  First,        \* what is selected when the app starts
  PageOf(_, _)  \* PageOf(s, n): page n of selection s

VARIABLES
  selection,  \* the current selection
  pages       \* the pages the feed holds, in order

vars == <<selection, pages>>

Init ==
  /\ selection = First
  /\ pages = <<>>

\* The user selects again, possibly the same.
Select ==
  /\ selection' \in Selections
  /\ pages' = <<>>

\* The next page arrives.
Grow ==
  /\ pages' = Append(pages, PageOf(selection, Len(pages) + 1))
  /\ UNCHANGED selection

Next == Select \/ Grow

Spec == Init /\ [][Next]_vars

=============================================================================
