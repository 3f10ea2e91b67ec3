----------------------------- MODULE PageHandler -----------------------------
(***************************************************************************)
(* PageHandler of www/code.js: the list of torrents or files is shown a    *)
(* page at a time.  The handler's fields are the variables `items' and     *)
(* `currentPage' of the page that uses it; here are the questions it       *)
(* answers about them.                                                     *)
(***************************************************************************)
EXTENDS Integers, Sequences

CONSTANTS
    ItemsPerPage,   \* this.itemsPerPage (20 in the code)
    Null            \* the value of `items' before the first answer

ASSUME ItemsPerPageAssumption == ItemsPerPage \in Nat \ {0}

PageStart(page) == (page - 1) * ItemsPerPage
PageEnd(items, page) ==
    IF PageStart(page) + ItemsPerPage < Len(items)
      THEN PageStart(page) + ItemsPerPage
      ELSE Len(items)

GetNumPages(items) ==
    IF items = Null THEN 1 ELSE (Len(items) + ItemsPerPage - 1) \div ItemsPerPage

\* Defined of a list only: there is nothing to slice while items is null.
GetItemsVisible(items, page) == SubSeq(items, PageStart(page) + 1, PageEnd(items, page))

HasNextPage(items, page) == page < GetNumPages(items)
HasPrevPage(page) == page > 1

\* setPage refuses a page that does not exist; in an empty list not even the first does.
SetPage(items, page, num) == IF num \in 1..GetNumPages(items) THEN num ELSE page

UpdatePagesUi(items, page) == [page |-> page, pages |-> GetNumPages(items)]
=============================================================================
