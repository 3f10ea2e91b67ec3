------------------------ MODULE TorrentsPage_proofs ------------------------
(***************************************************************************)
(* Proofs about the torrents page, for every finite set of torrents with   *)
(* any names, any number of requests and any number of items on a page.    *)
(***************************************************************************)
EXTENDS TorrentsPage, TLAPS, FiniteSetTheorems, SequenceTheorems, WellFoundedInduction

-----------------------------------------------------------------------------
(* Lists *)

\* A nonempty set of natural numbers below a bound has a last element.
LEMMA LastExists ==
    ASSUME NEW n \in Nat, NEW S \in SUBSET (1..n), S # {}
    PROVE  \E i \in S : \A j \in S : j <= i
<1> DEFINE T == {n - i : i \in S}
<1>0. \A i \in S : n - i \in Nat
  OBVIOUS
<1>1. T \subseteq Nat /\ T # {}
  BY <1>0
<1>2. IsWellFoundedOn(OpToRel(<, Nat), Nat)
  BY NatLessThanWellFounded
<1>3. PICK x \in T : \A y \in T : ~ (<<y, x>> \in OpToRel(<, Nat))
  BY <1>1, <1>2, WFMin
<1>4. \A y \in T : ~ (y < x)
  BY <1>1, <1>3 DEF OpToRel
<1>5. PICK i \in S : x = n - i
  BY <1>3
<1>6. \A j \in S : n - j \in T /\ n - j \in Int
  OBVIOUS
<1>7. \A j \in S : j <= i
  BY <1>4, <1>5, <1>6
<1> QED
  BY <1>7

\* The items of a page are items of the list.
LEMMA VisibleTypes ==
    ASSUME NEW list \in Seq(Items), NEW page \in Nat \ {0}
    PROVE  GetItemsVisible(list, page) \in Seq(Items)
<1> DEFINE m == PageStart(page) + 1
           n == PageEnd(list, page)
<1>1. m \in Int /\ n \in Int /\ n <= Len(list) /\ m > 0
  BY ItemsPerPageAssumption DEF PageStart, PageEnd
<1> HIDE DEF m, n
<1>2. \A i \in m..n : list[i] \in Items
  BY <1>1
<1>3. SubSeq(list, m, n) \in Seq(Items)
  BY <1>1, <1>2, SubSeqProperties
<1> QED
  BY <1>3 DEF GetItemsVisible, m, n

LEMMA LastNamedTypes ==
    ASSUME NEW infos \in Seq(Items), NEW n \in NamesIn(infos)
    PROVE  \E i \in DOMAIN infos : infos[i].name = n /\ LastNamed(infos, n) = infos[i]
<1> DEFINE S == {i \in DOMAIN infos : infos[i].name = n}
<1>1. S \in SUBSET (1..Len(infos)) /\ S # {} /\ Len(infos) \in Nat
  BY DEF NamesIn
<1>2. PICK i \in S : \A j \in S : j <= i
  BY <1>1, LastExists
<1>3. \E k \in DOMAIN infos : /\ infos[k].name = n
                              /\ \A j \in DOMAIN infos : infos[j].name = n => j <= k
  BY <1>2
<1> QED
  BY <1>3 DEF LastNamed

LEMMA StatusTypes ==
    ASSUME NEW list \in Seq(Items)
    PROVE  StatusLine(list) \in [active : Nat, complete : Nat]
<1>1. ASSUME NEW S PROVE CountIn(list, S) \in Nat
  <2>1. IsFiniteSet(1..Len(list))
    BY FS_Interval
  <2>2. IsFiniteSet({i \in DOMAIN list : list[i].state \in S})
    BY <2>1, FS_Subset
  <2> QED
    BY <2>2, FS_CardinalityType DEF CountIn
<1> QED
  BY <1>1 DEF StatusLine

LEMMA LabelTypes ==
    ASSUME NEW list \in Seq(Items), NEW page \in Nat \ {0}
    PROVE  UpdatePagesUi(list, page) \in [page : Nat, pages : Nat]
<1>1. Len(list) + ItemsPerPage - 1 \in Nat /\ ItemsPerPage \in Nat \ {0}
  BY ItemsPerPageAssumption
<1>2. (Len(list) + ItemsPerPage - 1) \div ItemsPerPage \in Nat
  BY <1>1
<1>3. list # Null
  BY TorrentsPageAssumption
<1> QED
  BY <1>2, <1>3 DEF UpdatePagesUi, GetNumPages

\* The lists an answer is sorted to are lists of items.
LEMMA SortedTypes ==
    ASSUME NEW snapshot \in Snapshots, NEW list \in Sorted[snapshot]
    PROVE  list \in Seq(Items)
<1> DEFINE n == Cardinality(Present(snapshot))
<1>1. Present(snapshot) \in SUBSET Torrents /\ \A t \in Present(snapshot) : snapshot[t] \in States
  BY DEF Present, Snapshots
<1>2. n \in Nat
  BY <1>1, FS_Subset, FS_CardinalityType, TorrentsPageAssumption
<1> HIDE DEF n
<1>3. PICK q \in [1..n -> Present(snapshot)] : list = [i \in 1..n |-> Item(snapshot, q[i])]
  BY DEF Sorted, n
<1>4. \A t \in Present(snapshot) : Item(snapshot, t) \in Items
  BY <1>1, TorrentsPageAssumption DEF Item, Items, Names
<1>5. list \in [1..n -> Items]
  BY <1>3, <1>4
<1> QED
  BY <1>2, <1>5

-----------------------------------------------------------------------------
(* The table *)

\* Each row is named by its code, and no two rows have the same one.
Table(R) ==
    /\ R \in SUBSET Rows
    /\ \A r \in R : r.value = r.code
    /\ \A r, q \in R : r.code = q.code => r = q

Checked(R) == {r.code : r \in {q \in R : q.checked}}

\* updateTable makes a table of the list it is given, and keeps the checks.
LEMMA UpdateTableShows ==
    ASSUME NEW R, Table(R), NEW infos \in Seq(Items)
    PROVE  /\ Table(UpdateTable(R, infos))
           /\ Codes(UpdateTable(R, infos)) = NamesIn(infos)
           /\ \A r \in UpdateTable(R, infos) :
                 \E i \in DOMAIN infos : infos[i].name = r.code /\ infos[i].state = r.state
           /\ Checked(UpdateTable(R, infos)) = Checked(R) \cap NamesIn(infos)
<1> DEFINE kept == {r \in R : r.code \in NamesIn(infos)}
           new  == NamesIn(infos) \ Codes(R)
           old  == {SetRowValues(r, infos) : r \in kept}
           added == {SetRowValues(NewRow(n), infos) : n \in new}
           state(n) == LastNamed(infos, n).state
<1>1. \A n \in NamesIn(infos) : n \in Names /\ state(n) \in States
  <2>1. \A i \in DOMAIN infos : infos[i] \in Items
    OBVIOUS
  <2> QED
    BY <2>1, LastNamedTypes DEF NamesIn, Items
<1>2. \A n \in NamesIn(infos) : \E i \in DOMAIN infos : infos[i].name = n /\ infos[i].state = state(n)
  BY LastNamedTypes
<1> HIDE DEF state
<1>3. UpdateTable(R, infos) = old \cup added
  BY DEF UpdateTable
<1>4. ASSUME NEW r \in R
      PROVE  SetRowValues(r, infos) = [code |-> r.code, value |-> r.code,
                                       state |-> state(r.code), checked |-> r.checked]
  BY DEF SetRowValues, state
<1>5. ASSUME NEW n
      PROVE  SetRowValues(NewRow(n), infos) = [code |-> n, value |-> n,
                                               state |-> state(n), checked |-> FALSE]
  BY DEF SetRowValues, NewRow, state
<1>6. old = {[code |-> r.code, value |-> r.code, state |-> state(r.code), checked |-> r.checked]
               : r \in kept}
  BY <1>4
<1>7. added = {[code |-> n, value |-> n, state |-> state(n), checked |-> FALSE] : n \in new}
  BY <1>5
<1> HIDE DEF old, added
<1>8. ASSUME NEW r \in old
      PROVE  \E q \in R : /\ q.code \in NamesIn(infos) /\ r.code = q.code /\ r.value = q.code
                          /\ r.state = state(q.code) /\ r.checked = q.checked /\ r \in Rows
  <2>1. PICK q \in kept : r = [code |-> q.code, value |-> q.code, state |-> state(q.code),
                               checked |-> q.checked]
    BY <1>6
  <2> QED
    BY <1>1, <2>1 DEF Table, Rows
<1>9. ASSUME NEW r \in added
      PROVE  /\ r.code \in NamesIn(infos) /\ r.code \notin Codes(R) /\ r.value = r.code
             /\ r.state = state(r.code) /\ r.checked = FALSE /\ r \in Rows
  <2>1. PICK n \in new : r = [code |-> n, value |-> n, state |-> state(n), checked |-> FALSE]
    BY <1>7
  <2> QED
    BY <1>1, <2>1 DEF Rows
<1>10. ASSUME NEW q \in kept
       PROVE  \E r \in old : r.code = q.code /\ r.checked = q.checked
  <2> DEFINE r == [code |-> q.code, value |-> q.code, state |-> state(q.code),
                   checked |-> q.checked]
  <2>1. r \in old /\ r.code = q.code /\ r.checked = q.checked
    BY <1>6
  <2> QED
    BY <2>1
<1>11. ASSUME NEW n \in new PROVE \E r \in added : r.code = n
  <2> DEFINE r == [code |-> n, value |-> n, state |-> state(n), checked |-> FALSE]
  <2>1. r \in added /\ r.code = n
    BY <1>7
  <2> QED
    BY <2>1
<1>12. \A r \in old : r.code \in Codes(R)
  BY <1>8 DEF Codes
<1>13. ASSUME NEW r \in old, NEW q \in old, r.code = q.code PROVE r = q
  <2>1. PICK a \in kept : r = [code |-> a.code, value |-> a.code, state |-> state(a.code),
                               checked |-> a.checked]
    BY <1>6
  <2>2. PICK b \in kept : q = [code |-> b.code, value |-> b.code, state |-> state(b.code),
                               checked |-> b.checked]
    BY <1>6
  <2>3. a = b
    BY <1>13, <2>1, <2>2 DEF Table
  <2> QED
    BY <2>1, <2>2, <2>3
<1>14. ASSUME NEW r \in added, NEW q \in added, r.code = q.code PROVE r = q
  <2>1. PICK m \in new : r = [code |-> m, value |-> m, state |-> state(m), checked |-> FALSE]
    BY <1>7
  <2>2. PICK n \in new : q = [code |-> n, value |-> n, state |-> state(n), checked |-> FALSE]
    BY <1>7
  <2> QED
    BY <1>14, <2>1, <2>2
<1>15. Table(UpdateTable(R, infos))
  BY <1>3, <1>8, <1>9, <1>12, <1>13, <1>14 DEF Table
<1>16. Codes(UpdateTable(R, infos)) = NamesIn(infos)
  <2>1. \A r \in old \cup added : r.code \in NamesIn(infos)
    BY <1>8, <1>9
  <2>2. \A n \in NamesIn(infos) : \E r \in old \cup added : r.code = n
    BY <1>10, <1>11 DEF Codes
  <2> QED
    BY <1>3, <2>1, <2>2 DEF Codes
<1>17. \A r \in UpdateTable(R, infos) :
          \E i \in DOMAIN infos : infos[i].name = r.code /\ infos[i].state = r.state
  <2>1. \A r \in old \cup added : r.code \in NamesIn(infos) /\ r.state = state(r.code)
    BY <1>8, <1>9
  <2> QED
    BY <1>2, <1>3, <2>1
<1>18. Checked(UpdateTable(R, infos)) = Checked(R) \cap NamesIn(infos)
  <2>1. \A r \in UpdateTable(R, infos) : r.checked =>
            \E q \in R : q.checked /\ q.code = r.code /\ r.code \in NamesIn(infos)
    BY <1>3, <1>8, <1>9
  <2>2. ASSUME NEW q \in R, q.checked, q.code \in NamesIn(infos)
        PROVE  \E r \in UpdateTable(R, infos) : r.checked /\ r.code = q.code
    BY <1>3, <1>10, <2>2
  <2> QED
    BY <2>1, <2>2 DEF Checked
<1> QED
  BY <1>15, <1>16, <1>17, <1>18

-----------------------------------------------------------------------------
(* Type correctness *)

LEMMA InitTypes == Init => TypeOK
<1> SUFFICES ASSUME Init PROVE TypeOK
  OBVIOUS
<1>1. requests \in [Slots -> Requests] /\ \A s \in Slots : requests[s].phase = "idle"
  BY DEF Init, Idle, Requests
<1>2. label \in [page : Nat, pages : Nat] /\ status \in [active : Nat, complete : Nat]
  BY DEF Init
<1>3. daemon \in Snapshots /\ events \in 0..MaxEvents
  BY TorrentsPageAssumption DEF Init
<1>4. currentPage \in Nat \ {0} /\ rows \in SUBSET Rows /\ marked \in SUBSET Names
  BY DEF Init
<1> QED
  BY <1>1, <1>2, <1>3, <1>4 DEF TypeOK, Init

\* The variables that updateTorrents sets.
ScreenTypes ==
    /\ items = torrents
    /\ rows \in SUBSET Rows
    /\ label \in [page : Nat, pages : Nat]
    /\ status \in [active : Nat, complete : Nat]
    /\ marked \in SUBSET Names

\* What the table and the marks have in common, and ScreenShowsOneList.
ScreenInv ==
    /\ Table(rows) /\ marked = Checked(rows)
    /\ torrents = Null => rows = {}
    /\ ScreenShowsOneList

LEMMA UpdateTypes ==
    ASSUME TypeOK, ScreenInv, torrents' \in Seq(Items) \cup {Null}, currentPage' \in Nat \ {0},
           torrents' = Null => torrents = Null, UpdateTorrents
    PROVE  ScreenTypes' /\ ScreenInv'
<1>1. CASE torrents' = Null
  BY <1>1 DEF UpdateTorrents, TypeOK, ScreenTypes, ScreenInv, ScreenShowsOneList, Table, Checked
<1>2. CASE torrents' # Null
  <2> DEFINE infos == GetItemsVisible(torrents', currentPage')
  <2>1. torrents' \in Seq(Items) /\ infos \in Seq(Items)
    BY <1>2, VisibleTypes
  <2>2. /\ items' = torrents'
        /\ label' = UpdatePagesUi(torrents', currentPage')
        /\ rows' = UpdateTable(rows, infos)
        /\ status' = StatusLine(torrents')
        /\ marked' = marked \cap NamesIn(infos)
    BY <1>2 DEF UpdateTorrents
  <2>3. /\ Table(rows') /\ Codes(rows') = NamesIn(infos)
        /\ \A r \in rows' :
              \E i \in DOMAIN infos : infos[i].name = r.code /\ infos[i].state = r.state
        /\ Checked(rows') = marked'
    BY <2>1, <2>2, UpdateTableShows DEF ScreenInv
  <2>4. ScreenTypes'
    BY <2>1, <2>2, <2>3, LabelTypes, StatusTypes DEF ScreenTypes, Table, TypeOK
  <2>5. ScreenShowsOneList'
    BY <2>2, <2>3 DEF ScreenShowsOneList, Table
  <2> QED
    BY <1>2, <2>3, <2>4, <2>5 DEF ScreenInv
<1> QED
  BY <1>1, <1>2

\* The parts of TypeOK that are not of the screen.
DaemonTypes == daemon \in Snapshots /\ events \in 0..MaxEvents
RequestTypes ==
    /\ requests \in [Slots -> Requests]
    /\ \A s \in Slots : requests[s].phase = "answered" => requests[s].answer \in Snapshots
ModifyTypes == modify \in [names : SUBSET Names, op : Operations, phase : Phases] \cup {NoModify}
PageTypes ==
    torrents \in Seq(Items) \cup {Null} /\ currentPage \in Nat \ {0} /\ note \in BOOLEAN

LEMMA TypeParts ==
    TypeOK <=> DaemonTypes /\ RequestTypes /\ ModifyTypes /\ PageTypes /\ ScreenTypes
  BY DEF TypeOK, DaemonTypes, RequestTypes, ModifyTypes, PageTypes, ScreenTypes

\* A request goes on to a phase in which it has no answer that matters, or with an answer.
LEMMA RequestGoesOn ==
    ASSUME RequestTypes, NEW s \in Slots, NEW q \in Requests,
           q.phase = "answered" => q.answer \in Snapshots,
           requests' = [requests EXCEPT ![s] = q]
    PROVE  RequestTypes'
  BY DEF RequestTypes

LEMMA RequestPhase ==
    ASSUME RequestTypes, NEW s \in Slots, NEW phase \in {"asked", "failed", "lost"},
           requests' = [requests EXCEPT ![s].phase = phase]
    PROVE  RequestTypes'
<1> DEFINE q == [requests[s] EXCEPT !.phase = phase]
<1>1. q \in Requests /\ q.phase = phase
  BY DEF RequestTypes, Requests
<1>2. requests' = [requests EXCEPT ![s] = q]
  OBVIOUS
<1> HIDE DEF q
<1> QED
  BY <1>1, <1>2, RequestGoesOn

LEMMA RequestEnds ==
    ASSUME RequestTypes, NEW s \in Slots, requests' = [requests EXCEPT ![s] = Idle]
    PROVE  RequestTypes'
<1>1. Idle \in Requests /\ Idle.phase = "idle"
  BY DEF Idle, Requests
<1> QED
  BY <1>1, RequestGoesOn

\* Torrents that are removed, all at once, by an operation.
LEMMA DaemonRemoves ==
    ASSUME daemon \in Snapshots, NEW victims \in SUBSET Torrents
    PROVE  Removed(victims) \in Snapshots
  BY DEF Removed, Snapshots

LEMMA UpdateAll ==
    ASSUME TypeOK, ScreenInv, DaemonTypes', RequestTypes', ModifyTypes', PageTypes',
           torrents' = Null => torrents = Null, UpdateTorrents
    PROVE  TypeOK' /\ ScreenInv'
<1>1. ScreenTypes' /\ ScreenInv'
  BY UpdateTypes DEF PageTypes
<1> QED
  BY <1>1, TypeParts DEF DaemonTypes, RequestTypes, ModifyTypes, PageTypes, ScreenTypes, TypeOK

LEMMA SameScreen ==
    ASSUME TypeOK, ScreenInv, DaemonTypes', RequestTypes', ModifyTypes', note' \in BOOLEAN,
           UNCHANGED <<torrents, currentPage, shown>>
    PROVE  TypeOK' /\ ScreenInv'
<1>1. TypeOK'
  BY DEF DaemonTypes, RequestTypes, ModifyTypes, TypeOK, shown
<1>2. ScreenInv'
  BY DEF ScreenInv, ScreenShowsOneList, Table, Checked, Codes, shown
<1> QED
  BY <1>1, <1>2

\* A table in which the box of one row has been toggled has the same rows otherwise.
ToggledTable(row) ==
    /\ Table(rows') /\ marked' = Checked(rows')
    /\ Codes(rows') = Codes(rows)
    /\ \A r \in rows' : \E q \in rows : q.code = r.code /\ q.state = r.state

LEMMA ToggleKeeps ==
    ASSUME Table(rows), marked = Checked(rows), NEW row \in rows, Toggle(row)
    PROVE  ToggledTable(row)
<1> DEFINE new == [row EXCEPT !.checked = ~ @]
<1>1. /\ rows' = (rows \ {row}) \cup {new}
      /\ marked' = IF row.checked THEN marked \ {row.code} ELSE marked \cup {row.code}
  BY DEF Toggle
<1>2. /\ new \in Rows /\ new.code = row.code /\ new.value = row.value /\ new.state = row.state
      /\ new.checked <=> ~ row.checked
  BY DEF Table, Rows
<1> HIDE DEF new
<1>3. Table(rows')
  BY <1>1, <1>2 DEF Table
<1>4. Codes(rows') = Codes(rows)
  BY <1>1, <1>2 DEF Codes
<1>5. \A r \in rows' : \E q \in rows : q.code = r.code /\ q.state = r.state
  BY <1>1, <1>2
<1>6. \A r \in rows \ {row} : r.code # row.code
  BY DEF Table
<1>7. Checked(rows') = {r.code : r \in {q \in rows \ {row} : q.checked}}
                         \cup (IF row.checked THEN {} ELSE {row.code})
  BY <1>1, <1>2 DEF Checked
<1>8. Checked(rows) = {r.code : r \in {q \in rows \ {row} : q.checked}}
                        \cup (IF row.checked THEN {row.code} ELSE {})
  BY DEF Checked
<1>9. row.code \notin {r.code : r \in {q \in rows \ {row} : q.checked}}
  BY <1>6
<1>10. marked' = Checked(rows')
  BY <1>1, <1>7, <1>8, <1>9
<1> QED
  BY <1>3, <1>4, <1>5, <1>10 DEF ToggledTable

LEMMA NextKeeps == TypeOK /\ ScreenInv /\ [Next]_vars => TypeOK' /\ ScreenInv'
<1> SUFFICES ASSUME TypeOK, ScreenInv, [Next]_vars PROVE TypeOK' /\ ScreenInv'
  OBVIOUS
<1>0. DaemonTypes /\ RequestTypes /\ ModifyTypes /\ PageTypes /\ ScreenTypes
  BY TypeParts
<1>a. UNCHANGED <<daemon, events>> => DaemonTypes'
  BY <1>0 DEF DaemonTypes
<1>b. UNCHANGED requests => RequestTypes'
  BY <1>0 DEF RequestTypes
<1>c. UNCHANGED modify => ModifyTypes'
  BY <1>0 DEF ModifyTypes
<1>d. UNCHANGED note => note' \in BOOLEAN
  BY <1>0 DEF PageTypes
<1>e. events < MaxEvents /\ events' = events + 1 /\ daemon' \in Snapshots => DaemonTypes'
  BY <1>0, TorrentsPageAssumption DEF DaemonTypes
<1>1. ASSUME NEW t \in Torrents, Change(t) PROVE TypeOK' /\ ScreenInv'
  <2>1. daemon' \in Snapshots
    BY <1>0, <1>1 DEF Change, DaemonTypes, Snapshots
  <2> QED
    BY <1>1, <1>b, <1>c, <1>d, <1>e, <2>1, SameScreen DEF Change
<1>2. ASSUME NEW s \in Slots, Poll(s) PROVE TypeOK' /\ ScreenInv'
  <2>1. RequestTypes'
    BY <1>0, <1>2, RequestPhase DEF Poll, Send
  <2> QED
    BY <1>2, <1>a, <1>c, <1>d, <2>1, SameScreen DEF Poll
<1>3. ASSUME NEW s \in Slots, Answer(s) PROVE TypeOK' /\ ScreenInv'
  <2> DEFINE q == [phase |-> "answered", answer |-> daemon]
  <2>1. q \in Requests /\ q.answer \in Snapshots
    BY <1>0 DEF Requests, DaemonTypes
  <2>2. RequestTypes'
    BY <1>0, <1>3, <2>1, RequestGoesOn DEF Answer
  <2> QED
    BY <1>3, <1>a, <1>c, <1>d, <2>2, SameScreen DEF Answer
<1>4. ASSUME NEW s \in Slots, AnswerFails(s) PROVE TypeOK' /\ ScreenInv'
  <2>1. PICK phase \in {"failed", "lost"} : requests' = [requests EXCEPT ![s].phase = phase]
    BY <1>4 DEF AnswerFails
  <2>2. RequestTypes'
    BY <1>0, <2>1, RequestPhase
  <2>3. daemon' \in Snapshots
    BY <1>0, <1>4 DEF AnswerFails, DaemonTypes
  <2> QED
    BY <1>4, <1>c, <1>d, <1>e, <2>2, <2>3, SameScreen DEF AnswerFails
<1>5. ASSUME NEW s \in Slots, ReceiveList(s) PROVE TypeOK' /\ ScreenInv'
  <2>1. requests[s].answer \in Snapshots
    BY <1>0, <1>5 DEF ReceiveList, RequestTypes
  <2>2. torrents' \in Seq(Items) /\ torrents' # Null
    BY <1>5, <2>1, SortedTypes, TorrentsPageAssumption DEF ReceiveList
  <2>3. RequestTypes'
    BY <1>0, <1>5, RequestEnds DEF ReceiveList
  <2>4. PageTypes'
    BY <1>0, <1>5, <2>2 DEF ReceiveList, PageTypes
  <2> QED
    BY <1>5, <1>a, <1>c, <2>2, <2>3, <2>4, UpdateAll DEF ReceiveList
<1>6. ASSUME NEW s \in Slots, ReceiveFailure(s) PROVE TypeOK' /\ ScreenInv'
  <2>1. torrents' = <<>> /\ <<>> \in Seq(Items) /\ torrents' # Null
    <3>1. torrents' = <<>> /\ <<>> \in Seq(Items)
      BY <1>6 DEF ReceiveFailure
    <3> QED
      BY <3>1, TorrentsPageAssumption
  <2>2. RequestTypes'
    BY <1>0, <1>6, RequestEnds DEF ReceiveFailure
  <2>3. PageTypes'
    BY <1>0, <1>6, <2>1 DEF ReceiveFailure, PageTypes
  <2> QED
    BY <1>6, <1>a, <1>c, <2>1, <2>2, <2>3, UpdateAll DEF ReceiveFailure
<1>7. ASSUME NEW s \in Slots, ReceiveNothing(s) PROVE TypeOK' /\ ScreenInv'
  <2>1. RequestTypes'
    BY <1>0, <1>7, RequestEnds DEF ReceiveNothing
  <2> QED
    BY <1>7, <1>a, <1>c, <1>d, <2>1, SameScreen DEF ReceiveNothing
<1>8. ASSUME NEW page \in Nat \ {0}, TurnTo(page) PROVE TypeOK' /\ ScreenInv'
  <2>1. PageTypes'
    BY <1>0, <1>8 DEF TurnTo, PageTypes
  <2> QED
    BY <1>8, <1>a, <1>b, <1>c, <2>1, UpdateAll DEF TurnTo
<1>9. CASE NextPage \/ PrevPage
  <2>1. currentPage \in Nat \ {0}
    BY <1>0 DEF PageTypes
  <2>2. CASE NextPage
    <3>1. currentPage + 1 \in Nat \ {0} /\ TurnTo(currentPage + 1)
      BY <2>1, <2>2 DEF NextPage
    <3> QED
      BY <1>8, <3>1
  <2>3. CASE PrevPage
    <3>1. currentPage - 1 \in Nat \ {0} /\ TurnTo(currentPage - 1)
      BY <2>1, <2>3 DEF PrevPage, HasPrevPage
    <3> QED
      BY <1>8, <3>1
  <2> QED
    BY <1>9, <2>2, <2>3
<1>10. ASSUME NEW row \in rows, Toggle(row) PROVE TypeOK' /\ ScreenInv'
  <2>1. ToggledTable(row)
    BY <1>0, <1>10, ToggleKeeps DEF Toggle, ScreenInv
  <2>2. /\ UNCHANGED <<daemon, events, requests, modify, torrents, items, currentPage, label,
                       status, note>>
        /\ rows # {}
    BY <1>10 DEF Toggle
  <2>3. ScreenTypes'
    BY <1>0, <2>1, <2>2 DEF ScreenTypes, ToggledTable, Table, Checked, Rows
  <2>4. TypeOK'
    BY <1>0, <1>a, <1>b, <1>c, <2>2, <2>3, TypeParts
    DEF DaemonTypes, RequestTypes, ModifyTypes, PageTypes, ScreenTypes, TypeOK
  <2>5. ScreenShowsOneList'
    BY <2>1, <2>2 DEF ScreenInv, ScreenShowsOneList, ToggledTable, Table
  <2> QED
    BY <2>1, <2>2, <2>4, <2>5 DEF ScreenInv, ToggledTable
<1>11. ASSUME NEW op \in Operations, Modify(op) PROVE TypeOK' /\ ScreenInv'
  <2>1. GetSelectedNames \in SUBSET Names
    BY <1>0 DEF GetSelectedNames, ScreenTypes, Rows
  <2>2. ModifyTypes'
    BY <1>11, <2>1 DEF Modify, ModifyTypes, Phases
  <2>3. daemon' \in Snapshots
    BY <1>0, <1>11 DEF Modify, DaemonTypes
  <2> QED
    BY <1>11, <1>b, <1>d, <1>e, <2>2, <2>3, SameScreen DEF Modify
<1>12. ASSUME ModifyDone PROVE TypeOK' /\ ScreenInv'
  <2>1. ModifyTypes'
    BY <1>0, <1>12 DEF ModifyDone, ModifyTypes, Phases
  <2>2. daemon' \in Snapshots
    BY <1>0, <1>12, DaemonRemoves DEF ModifyDone, DaemonTypes
  <2>3. DaemonTypes'
    BY <1>0, <1>12, <2>2 DEF ModifyDone, DaemonTypes
  <2> QED
    BY <1>12, <1>b, <1>d, <2>1, <2>3, SameScreen DEF ModifyDone
<1>13. ASSUME ModifyFails PROVE TypeOK' /\ ScreenInv'
  <2>1. ModifyTypes'
    BY <1>0, <1>13 DEF ModifyFails, ModifyTypes, Phases
  <2>2. daemon' \in Snapshots
    BY <1>0, <1>13, DaemonRemoves DEF ModifyFails, DaemonTypes
  <2> QED
    BY <1>13, <1>b, <1>d, <1>e, <2>1, <2>2, SameScreen DEF ModifyFails
<1>14. ASSUME NEW s \in Slots, ReceiveModified(s) PROVE TypeOK' /\ ScreenInv'
  <2>1. RequestTypes'
    BY <1>0, <1>14, RequestPhase DEF ReceiveModified, Send
  <2>2. ModifyTypes' /\ PageTypes'
    BY <1>0, <1>14 DEF ReceiveModified, ModifyTypes, PageTypes
  <2> QED
    BY <1>14, <1>a, <2>1, <2>2, UpdateAll DEF ReceiveModified
<1>15. ASSUME ReceiveNotModified PROVE TypeOK' /\ ScreenInv'
  <2>1. ModifyTypes'
    BY <1>15 DEF ReceiveNotModified, ModifyTypes
  <2> QED
    BY <1>15, <1>a, <1>b, <1>d, <2>1, SameScreen DEF ReceiveNotModified
<1>16. CASE UNCHANGED vars
  BY <1>16, <1>a, <1>b, <1>c, <1>d, SameScreen DEF vars, shown
<1> QED
  BY <1>1, <1>2, <1>3, <1>4, <1>5, <1>6, <1>7, <1>9, <1>10, <1>11, <1>12, <1>13, <1>14,
     <1>15, <1>16 DEF Next, Proceed

LEMMA InitScreen == Init => ScreenInv
  BY DEF Init, ScreenInv, ScreenShowsOneList, Table, Checked

\* The variables have their types.
THEOREM TypeCorrect == Spec => []TypeOK
<1>1. TypeOK /\ ScreenInv /\ [Next]_vars => (TypeOK /\ ScreenInv)'
  BY NextKeeps
<1> QED
  BY <1>1, InitTypes, InitScreen, PTL DEF Spec

\* Whatever order answers, page turns and operations come in, all that is on the screen is
\* of one list, the last one received, and of the current page.
THEOREM OneListShown == Spec => []ScreenShowsOneList
<1>1. TypeOK /\ ScreenInv /\ [Next]_vars => (TypeOK /\ ScreenInv)'
  BY NextKeeps
<1>2. ScreenInv => ScreenShowsOneList
  BY DEF ScreenInv
<1> QED
  BY <1>1, <1>2, InitTypes, InitScreen, PTL DEF Spec

\* The names an operation is asked for are those the user checked and that have been on the
\* screen ever since.
THEOREM SelectionKept == Spec => []SelectedIsMarked
<1>1. TypeOK /\ ScreenInv /\ [Next]_vars => (TypeOK /\ ScreenInv)'
  BY NextKeeps
<1>2. ScreenInv => SelectedIsMarked
  BY DEF ScreenInv, SelectedIsMarked, GetSelectedNames, Table, Checked
<1> QED
  BY <1>1, <1>2, InitTypes, InitScreen, PTL DEF Spec
=============================================================================
