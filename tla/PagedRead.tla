----------------------------- MODULE PagedRead -----------------------------
(***************************************************************************)
(* arr/client.go, readArrPages: the queue and the history of a download    *)
(* are read page by page, one request each, while Arr goes on inserting,   *)
(* removing and sorting rows.  Arr answers each request from the list as   *)
(* it is at that moment and never gives an ID twice.                       *)
(***************************************************************************)
EXTENDS Naturals, Sequences, FiniteSets, Functions

CONSTANTS
    Rows,        \* IDs that Arr may give to a row
    PageSize,
    MaxPages,    \* the safety limit
    MaxRows,     \* bound on the length of the list
    MaxChanges   \* bound on what Arr does while it is read

ASSUME PagedAssumption ==
    PageSize \in Nat \ {0} /\ MaxPages \in Nat /\ MaxRows \in Nat /\ MaxChanges \in Nat

VARIABLES
    list,     \* Arr: the rows in the order asked for
    removed,  \* rows that Arr removed while the list was read
    changes,
    reading,  \* "pages", "returned", "failed"
    number,   \* the page asked for next
    all       \* the rows read so far

listVars == <<list, removed, changes>>
pagedVars == <<listVars, reading, number, all>>

\* Lists without a repeated ID.
Listings ==
    UNION {{rows \in [1..n -> Rows] : IsInjective(rows)} : n \in 0..MaxRows}

Page ==
    LET last == number * PageSize
    IN  SubSeq(list, (number - 1) * PageSize + 1, IF last < Len(list) THEN last ELSE Len(list))

Asks == reading = "pages" /\ number <= MaxPages

Finish(how) == reading' = how /\ UNCHANGED <<listVars, number>>

RepeatedID ==
    /\ Asks
    /\ Range(Page) \cap Range(all) # {}
    /\ Finish("failed")
    /\ UNCHANGED all

\* Mutant: an ID that was read before is appended again.
AppendAnyPage ==
    /\ Asks
    /\ all' = all \o Page

AppendPage ==
    /\ Asks
    /\ Range(Page) \cap Range(all) = {}
    /\ all' = all \o Page

LastPage ==
    /\ AppendPage
    /\ Len(all') >= Len(list)
    /\ Finish("returned")

\* The page is empty although rows are missing.
EndsEarly ==
    /\ AppendPage
    /\ Len(all') < Len(list) /\ Page = << >>
    /\ Finish("failed")

NextPage ==
    /\ AppendPage
    /\ Len(all') < Len(list) /\ Page # << >>
    /\ number' = number + 1
    /\ UNCHANGED <<listVars, reading>>

TooManyPages ==
    /\ reading = "pages" /\ number > MaxPages
    /\ Finish("failed")
    /\ UNCHANGED all

RequestFails ==
    /\ Asks
    /\ Finish("failed")
    /\ UNCHANGED all

\* Arr inserts, removes and sorts rows between two requests.
Changes ==
    /\ reading = "pages" /\ changes < MaxChanges
    /\ \E next \in Listings :
          /\ (Range(next) \ Range(list)) \cap removed = {}
          /\ list' = next
          /\ removed' = removed \cup (Range(list) \ Range(next))
    /\ changes' = changes + 1
    /\ UNCHANGED <<reading, number, all>>

PagedInit ==
    /\ list \in Listings
    /\ removed = {} /\ changes = 0
    /\ reading = "pages" /\ number = 1 /\ all = << >>

PagedNext ==
    \/ RepeatedID \/ LastPage \/ EndsEarly \/ NextPage
    \/ TooManyPages \/ RequestFails
    \/ Changes

PagedSpec == PagedInit /\ [][PagedNext]_pagedVars

-----------------------------------------------------------------------------
(* Correctness. *)

\* When the read returns, it has missed at most as many of the rows that are
\* listed now as Arr removed while it ran.  So a list from which nothing was
\* removed is complete, however Arr inserted rows and sorted them.  (A row
\* removed from a page that was read moves its successors one page forward,
\* where nobody looks: that is the one way to miss a row.)
MissesOnlyRemoved ==
    reading = "returned" => Cardinality(Range(list) \ Range(all)) <= Cardinality(removed)
=============================================================================
