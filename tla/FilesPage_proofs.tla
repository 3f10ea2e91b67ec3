-------------------------- MODULE FilesPage_proofs --------------------------
(***************************************************************************)
(* Proofs about the files page, for all sets of directories and files, any *)
(* number of requests, clicks and pages, whatever the daemon's files are.  *)
(***************************************************************************)
EXTENDS FilesPage, WellFoundedInduction, TLAPS

-----------------------------------------------------------------------------
(* Numbers *)

\* A set of numbers that is not empty has a least one.
LEMMA LeastNumber ==
    ASSUME NEW T \in SUBSET Nat, T # {}
    PROVE  \E x \in T : \A y \in T : x <= y
<1> DEFINE R == OpToRel(<, Nat)
<1>1. IsWellFoundedOn(R, Nat)
  BY NatLessThanWellFounded
<1>2. \A x, y \in Nat : <<y, x>> \in R <=> y < x
  BY DEF OpToRel
<1> HIDE DEF R
<1>3. PICK x \in T : \A y \in T : ~ (<<y, x>> \in R)
  BY <1>1, WFMin
<1>4. \A y \in T : ~ (y < x)
  BY <1>2, <1>3
<1> QED
  BY <1>3, <1>4

\* A set of numbers up to n that has 0, and with each number the next one, has them all.
LEMMA Reached ==
    ASSUME NEW n \in Nat, NEW P \in SUBSET (0..n), 0 \in P,
           \A i \in 1..n : i - 1 \in P => i \in P
    PROVE  P = 0..n
<1> DEFINE T == (0..n) \ P
<1>1. SUFFICES ASSUME T # {} PROVE FALSE
  OBVIOUS
<1>2. T \in SUBSET Nat
  OBVIOUS
<1>3. PICK x \in T : \A y \in T : x <= y
  BY <1>1, <1>2, LeastNumber
<1>4. x \in 1..n /\ x - 1 \in 0..n
  BY <1>3
<1>5. x - 1 \in P
  BY <1>3, <1>4
<1> QED
  BY <1>3, <1>4, <1>5

\* Functions on S can be applied one after the other.
Chains(k, n, S, base, f) ==
    {g \in [0..n -> S] : g[0] = base /\ \A i \in 1..k : g[i] = f[i][g[i - 1]]}

\* However many of them there are.
LEMMA Iterated ==
    ASSUME NEW n \in Nat, NEW S, NEW base \in S, NEW f \in [1..n -> [S -> S]]
    PROVE  Chains(n, n, S, base, f) # {}
<1> DEFINE P == {k \in 0..n : Chains(k, n, S, base, f) # {}}
<1>1. 0 \in P
  <2> DEFINE g == [i \in 0..n |-> base]
  <2>1. g \in Chains(0, n, S, base, f)
    BY DEF Chains
  <2> QED BY <2>1
<1>2. ASSUME NEW k \in 1..n, k - 1 \in P PROVE k \in P
  <2>1. PICK g : g \in Chains(k - 1, n, S, base, f)
    BY <1>2
  <2>2. g \in [0..n -> S] /\ g[0] = base /\ \A i \in 1..(k - 1) : g[i] = f[i][g[i - 1]]
    BY <2>1 DEF Chains
  <2> DEFINE h == [g EXCEPT ![k] = f[k][g[k - 1]]]
  <2>3. k \in 0..n /\ k - 1 \in 0..n /\ f[k][g[k - 1]] \in S
    BY <2>2
  <2>4. h \in [0..n -> S]
    BY <2>2, <2>3
  <2>5. \A i \in 0..n : h[i] = IF i = k THEN f[k][g[k - 1]] ELSE g[i]
    BY <2>2
  <2>6. h[0] = base
    BY <2>2, <2>5
  <2> HIDE DEF h
  <2>7. ASSUME NEW i \in 1..k PROVE h[i] = f[i][h[i - 1]]
    <3>1. i \in 0..n /\ i - 1 \in 0..n /\ i - 1 # k /\ (i # k => i \in 1..(k - 1))
      OBVIOUS
    <3>2. h[i - 1] = g[i - 1]
      BY <2>5, <3>1
    <3> QED BY <2>2, <2>5, <3>1, <3>2
  <2>8. h \in Chains(k, n, S, base, f)
    BY <2>4, <2>6, <2>7 DEF Chains
  <2> QED BY <2>3, <2>8
<1>3. P = 0..n
  <2> HIDE DEF P
  <2>1. P \in SUBSET (0..n)
    BY DEF P
  <2> QED BY <1>1, <1>2, <2>1, Reached
<1> QED
  BY <1>3

-----------------------------------------------------------------------------
(* Paths *)

IsPath(p) == p \in Seq(ToSet(p))

\* A sequence of names is a path.
LEMMA AnyPath ==
    ASSUME NEW S, NEW p \in Seq(S)
    PROVE  IsPath(p)
  BY DEF IsPath, ToSet

\* A path with one more name, and its directory.
LEMMA Extended ==
    ASSUME NEW p, IsPath(p), NEW x
    PROVE  /\ IsPath(Append(p, x))
           /\ Front(Append(p, x)) = p
           /\ Append(p, x) # <<>>
<1> DEFINE S == ToSet(p) \cup {x}
           q == Append(p, x)
<1>1. p \in Seq(S) /\ x \in S
  BY DEF IsPath
<1>2. q \in Seq(S) /\ Len(q) = Len(p) + 1 /\ \A i \in 1..Len(p) : q[i] = p[i]
  BY <1>1
<1>3. IsPath(q) /\ q # <<>>
  <2> HIDE DEF S, q
  <2>1. IsPath(q)
    BY <1>2, AnyPath
  <2> QED BY <1>1, <1>2, <2>1
<1>4. Front(q) = p
  BY <1>1, <1>2 DEF Front
<1> QED BY <1>3, <1>4

\* The top directory has a path.
LEMMA EmptyPath == IsPath(<<>>)
<1>1. <<>> \in Seq({})
  OBVIOUS
<1> QED
  BY <1>1, AnyPath

\* A name below a path below another.
LEMMA ExtendedBelow ==
    ASSUME NEW p, NEW q, IsPath(p), IsPath(q), NEW x
    PROVE  Append(p \o q, x) = p \o Append(q, x)
<1> DEFINE S == ToSet(p) \cup ToSet(q) \cup {x}
<1>1. p \in Seq(S) /\ q \in Seq(S) /\ x \in S
  BY DEF IsPath
<1> HIDE DEF S
<1> QED BY <1>1

\* The directories that a path can lead to.
Known == Dirs \cup {Outside, Null}

\* A name leads from a directory to one of the files there are, or to none.
LEMMA StepKnown ==
    ASSUME NEW T, NEW dir \in Known, NEW name
    PROVE  Step(T, dir, name) \in Known
<1>1. \A p \in Dirs \ {<<>>} : Front(p) \in Dirs
  BY FilesPageAssumption DEF Paths
<1> QED BY <1>1 DEF Step, Known

\* A path leads to one of the files there are, or to none.
LEMMA ResolveKnown ==
    ASSUME NEW T, NEW path, IsPath(path)
    PROVE  Resolve(T, path) \in Known
<1> DEFINE n == Len(path)
           f == [i \in 1..n |-> [dir \in Known |-> Step(T, dir, path[i])]]
           Body(r) == [i \in 0..n |-> IF i = 0 THEN <<>> ELSE Step(T, r[i - 1], path[i])]
           reached == CHOOSE r : r = Body(r)
<1>1. n \in Nat /\ <<>> \in Known
  BY FilesPageAssumption DEF IsPath, Known
<1>2. f \in [1..n -> [Known -> Known]]
  BY StepKnown
<1>3. PICK g : g \in [0..n -> Known] /\ g[0] = <<>> /\ \A i \in 1..n : g[i] = f[i][g[i - 1]]
  <2> HIDE DEF f, n
  <2>1. PICK g : g \in Chains(n, n, Known, <<>>, f)
    BY <1>1, <1>2, Iterated
  <2> QED BY <2>1 DEF Chains
<1>4. \A i \in 1..n : g[i] = Step(T, g[i - 1], path[i])
  <2> SUFFICES ASSUME NEW i \in 1..n PROVE g[i] = Step(T, g[i - 1], path[i])
    OBVIOUS
  <2>1. i - 1 \in 0..n
    BY <1>1
  <2>2. f[i] = [dir \in Known |-> Step(T, dir, path[i])]
    OBVIOUS
  <2>3. g[i - 1] \in Known
    BY <1>3, <2>1
  <2> HIDE DEF f
  <2>4. g[i] = f[i][g[i - 1]]
    BY <1>3
  <2> QED BY <2>2, <2>3, <2>4
<1>5. g = Body(g)
  BY <1>1, <1>3, <1>4
<1>6. reached = Body(reached)
  BY <1>5
<1>7. Resolve(T, path) = reached[n]
  BY DEF Resolve
<1> HIDE DEF reached, n
<1> DEFINE P == {i \in 0..n : reached[i] \in Known}
<1>8. 0 \in P
  BY <1>1, <1>6
<1>9. ASSUME NEW i \in 1..n, i - 1 \in P PROVE i \in P
  <2>1. \A r : r = Body(r) => r[i] = Step(T, r[i - 1], path[i])
    BY <1>1
  <2>2. reached[i] = Step(T, reached[i - 1], path[i])
    BY <1>6, <2>1
  <2> QED BY <1>9, <2>2, StepKnown
<1>10. P = 0..n
  BY <1>1, <1>8, <1>9, Reached
<1> QED BY <1>1, <1>7, <1>10

-----------------------------------------------------------------------------
(* Rows *)

\* What PageActsOnDirShown says of a row of directory dir.
Leads(r, dir) ==
    r.link # Null => IF ToSet(Append(dir, r.name)) \intersect WithPlus = {}
                       THEN r.link = Append(dir, r.name)
                       ELSE r.link \notin Paths

\* A link leads to its file, or, spoilt by the encoding, to no path at all.
LEMMA RowLeads ==
    ASSUME NEW dir, IsPath(dir), NEW name, NEW isDir
    PROVE  Leads(Row(dir, name, isDir), dir)
<1> DEFINE p == Append(dir, name)
           S == ToSet(p)
           at == {i \in DOMAIN p : p[i] \in WithPlus}
<1>1. IsPath(p)
  BY Extended
<1>2. CASE ToSet(p) \intersect WithPlus = {}
  <2>1. at = {}
    BY <1>2 DEF ToSet
  <2>2. LocalEncodeURI(p) = p
    BY <2>1 DEF LocalEncodeURI
  <2> QED BY <1>2, <2>2 DEF Leads, Row
<1>3. CASE ToSet(p) \intersect WithPlus # {}
  <2>1. at # {}
    BY <1>3 DEF ToSet
  <2>2. at \in SUBSET Nat
    BY <1>1 DEF IsPath
  <2>3. \E x \in at : \A y \in at : x <= y
    <3> HIDE DEF at
    <3> QED BY <2>1, <2>2, LeastNumber
  <2>4. Min(at) \in at
    <3> HIDE DEF at
    <3> QED BY <2>3 DEF Min
  <2> DEFINE q == [p EXCEPT ![Min(at)] = Mangled]
  <2>5. Min(at) \in DOMAIN q /\ q[Min(at)] = Mangled
    <3>1. Min(at) \in DOMAIN p
      BY <2>4
    <3>2. p = [i \in 1..Len(p) |-> p[i]]
      <4> HIDE DEF p
      <4> QED BY <1>1 DEF IsPath
    <3> HIDE DEF p, at
    <3> QED BY <3>1, <3>2
  <2>6. LocalEncodeURI(p) = q
    BY <2>1 DEF LocalEncodeURI
  <2>7. q \notin Paths
    <3> HIDE DEF q
    <3> QED BY <2>5, FilesPageAssumption
  <2> HIDE DEF q, p
  <2> QED BY <1>3, <2>6, <2>7 DEF Leads, Row, p
<1> QED BY <1>2, <1>3

\* The rows of a table are filled from the directory in cd, all of them.
LEMMA TableLeads ==
    ASSUME NEW shown, NEW dir, IsPath(dir), NEW infos
    PROVE  \A r \in RefillTable(shown, dir, infos) : Leads(r, dir)
  BY RowLeads DEF RefillTable

-----------------------------------------------------------------------------
(* The invariant. *)

\* Where the page is: in the directory of the last list, and below it what was clicked since.
Shown ==
    /\ IsPath(clicked)
    /\ IF title = Null
         THEN cd = Null /\ files = Null /\ rows = {} /\ clicked = <<>> /\ currentPage = 1
         ELSE title \in Dirs /\ cd = title \o clicked

RowsLead == clicked = <<>> => \A r \in rows : Leads(r, title)

\* Only directories are answered with.
AnswersKnown ==
    /\ DOMAIN requests = Slots
    /\ \A s \in Slots :
          /\ DOMAIN requests[s] = {"phase", "dir", "answer"}
          /\ requests[s].phase = "asked" => requests[s].dir = Null \/ IsPath(requests[s].dir)
          /\ requests[s].phase = "answered" => requests[s].answer.dir \in Dirs

Deletes ==
    modify # NoModify =>
        /\ DOMAIN modify = {"phase", "paths", "seen", "moved"}
        /\ ~ modify.moved => \A path \in modify.paths : Front(path) = modify.seen

IInv == Shown /\ RowsLead /\ AnswersKnown /\ Deletes

\* The directory of the next request.
LEMMA CdIsPath ==
    ASSUME Shown
    PROVE  /\ cd = Null \/ IsPath(cd)
           /\ title # Null => IsPath(cd) /\ IsPath(title)
           /\ clicked = <<>> => cd = title
<1>1. CASE title = Null
  BY <1>1 DEF Shown
<1>2. CASE title # Null
  <2> DEFINE S == DOMAIN RankOf \cup ToSet(clicked)
  <2>1. title \in Seq(DOMAIN RankOf)
    BY <1>2, FilesPageAssumption DEF Shown, Paths
  <2>2. IsPath(title)
    BY <2>1, AnyPath
  <2>3. title \in Seq(S) /\ clicked \in Seq(S)
    BY <2>1 DEF Shown, IsPath
  <2> HIDE DEF S
  <2>4. cd = title \o clicked
    BY <1>2 DEF Shown
  <2>5. cd \in Seq(S) /\ (clicked = <<>> => cd = title)
    BY <2>3, <2>4
  <2>6. IsPath(cd)
    BY <2>5, AnyPath
  <2> QED BY <1>2, <2>2, <2>5, <2>6
<1> QED BY <1>1, <1>2

\* The invariant holds when the page was loaded.
LEMMA InitIInv == Init => IInv
  BY EmptyPath DEF Init, IInv, Shown, RowsLead, AnswersKnown, Deletes, Idle

\* Sending a request for the directory the page is in.
LEMMA SendKnown ==
    ASSUME AnswersKnown, NEW s \in Slots, NEW dir, Send(s, dir), dir = Null \/ IsPath(dir)
    PROVE  AnswersKnown'
  BY DEF AnswersKnown, Send

\* Every step keeps the invariant.
LEMMA NextIInv == IInv /\ [Next]_vars => IInv'
<1> SUFFICES ASSUME IInv, [Next]_vars PROVE IInv'
  OBVIOUS
<1>0. Shown /\ RowsLead /\ AnswersKnown /\ Deletes
  BY DEF IInv
<1>1. ASSUME UNCHANGED screen PROVE Shown' /\ RowsLead'
  BY <1>0, <1>1 DEF Shown, RowsLead, screen
<1>2. ASSUME UNCHANGED requests PROVE AnswersKnown'
  BY <1>0, <1>2 DEF AnswersKnown
<1>3. ASSUME UNCHANGED modify PROVE Deletes'
  BY <1>0, <1>3 DEF Deletes
<1>4. ASSUME NEW p \in Paths, Change(p) PROVE IInv'
  BY <1>1, <1>2, <1>3, <1>4 DEF Change, IInv
<1>5. ASSUME NEW s \in Slots, Poll(s) PROVE IInv'
  <2>1. AnswersKnown'
    BY <1>0, <1>5, CdIsPath, SendKnown DEF Poll
  <2> QED BY <1>1, <1>3, <1>5, <2>1 DEF Poll, IInv
<1>6. ASSUME NEW s \in Slots, NEW row \in rows, Click(s, row) PROVE IInv'
  <2>1. title \in Dirs /\ title # Null
    BY <1>0 DEF Shown
  <2>2. IsPath(cd) /\ IsPath(title) /\ IsPath(clicked)
    BY <1>0, <2>1, CdIsPath DEF Shown
  <2>3. /\ IsPath(Append(cd, row.name))
        /\ IsPath(Append(clicked, row.name)) /\ Append(clicked, row.name) # <<>>
    BY <2>2, Extended
  <2>4. Append(title \o clicked, row.name) = title \o Append(clicked, row.name)
    BY <2>2, ExtendedBelow
  <2>5. AnswersKnown'
    BY <1>0, <1>6, <2>3, SendKnown DEF Click
  <2>6. Shown'
    BY <1>0, <1>6, <2>1, <2>3, <2>4 DEF Click, Shown
  <2>7. RowsLead'
    BY <1>6, <2>3 DEF Click, RowsLead
  <2> QED BY <1>3, <1>6, <2>5, <2>6, <2>7 DEF Click, IInv
<1>7. ASSUME NEW s \in Slots, Answer(s) PROVE IInv'
  <2> DEFINE found == Requested(tree, requests[s].dir)
  <2>1. <<>> \in Dirs
    BY FilesPageAssumption
  <2>2. found \in Known
    BY <1>0, <1>7, <2>1, ResolveKnown DEF AnswersKnown, Answer, Requested, Known
  <2>3. found # Null => Canonical(found) \in Dirs
    BY <2>1, <2>2 DEF Known, Canonical
  <2> HIDE DEF found
  <2>4. AnswersKnown'
    BY <1>0, <1>7, <2>3 DEF AnswersKnown, Answer, found
  <2> QED BY <1>1, <1>3, <1>7, <2>4 DEF Answer, IInv
<1>8. ASSUME NEW s \in Slots, AnswerFails(s) PROVE IInv'
  <2>1. AnswersKnown'
    BY <1>0, <1>8 DEF AnswersKnown, AnswerFails
  <2> QED BY <1>1, <1>3, <1>8, <2>1 DEF AnswerFails, IInv
<1>9. ASSUME NEW s \in Slots, ReceiveList(s) PROVE IInv'
  <2> DEFINE dir == requests[s].answer.dir
  <2>1. dir \in Dirs
    BY <1>0, <1>9 DEF AnswersKnown, ReceiveList
  <2>2. dir # Null /\ dir \in Seq(DOMAIN RankOf)
    BY <2>1, FilesPageAssumption DEF Paths
  <2>3. IsPath(dir) /\ IsPath(<<>>)
    BY <2>2, AnyPath, EmptyPath
  <2>4. cd' = dir /\ title' = dir /\ clicked' = <<>>
    BY <1>9 DEF ReceiveList
  <2>5. rows' = RefillTable(dir, dir, GetItemsVisible(files', currentPage'))
    BY <1>9, <2>4 DEF ReceiveList, UpdateFiles
  <2>6. RowsLead'
    BY <2>3, <2>4, <2>5, TableLeads DEF RowsLead
  <2> HIDE DEF dir
  <2>7. Shown'
    BY <2>1, <2>2, <2>3, <2>4 DEF Shown
  <2>8. AnswersKnown'
    BY <1>0, <1>9 DEF AnswersKnown, ReceiveList, Idle
  <2> QED BY <1>3, <1>9, <2>6, <2>7, <2>8 DEF ReceiveList, IInv
<1>10. ASSUME NEW s \in Slots, ReceiveError(s) \/ ReceiveNothing(s) PROVE IInv'
  <2>1. AnswersKnown'
    BY <1>0, <1>10 DEF AnswersKnown, ReceiveError, ReceiveNothing, Idle
  <2> QED BY <1>1, <1>3, <1>10, <2>1 DEF ReceiveError, ReceiveNothing, IInv
<1>11. ASSUME NextPage \/ PrevPage PROVE IInv'
  <2>1. PICK page : TurnTo(page)
    BY <1>11 DEF NextPage, PrevPage
  <2>2. title # Null
    BY <1>0, <1>11 DEF Shown, NextPage, PrevPage, HasNextPage, HasPrevPage, GetNumPages
  <2>3. rows' = RefillTable(title', cd', GetItemsVisible(files', currentPage'))
        /\ UNCHANGED <<cd, title, files, clicked>>
    BY <2>1 DEF TurnTo, UpdateFiles
  <2>4. IsPath(cd)
    BY <1>0, <2>2, CdIsPath
  <2>5. RowsLead'
    BY <1>0, <2>3, <2>4, CdIsPath, TableLeads DEF RowsLead
  <2>6. Shown'
    BY <1>0, <2>2, <2>3 DEF Shown
  <2> QED BY <1>2, <1>3, <2>1, <2>5, <2>6 DEF TurnTo, IInv
<1>12. CASE RemoveSelected
  <2>1. ASSUME clicked = <<>>, NEW r \in rows PROVE Front(Append(cd, r.name)) = title
    <3>1. title # Null
      BY <1>0, <2>1 DEF Shown
    <3> QED BY <1>0, <2>1, <3>1, CdIsPath, Extended
  <2>2. PICK selected \in SUBSET rows :
          modify' = [phase |-> "asked", paths |-> {Append(cd, r.name) : r \in selected},
                     seen |-> title, moved |-> clicked # <<>>]
    BY <1>12 DEF RemoveSelected
  <2>3. ASSUME ~ modify'.moved, NEW path \in modify'.paths PROVE Front(path) = modify'.seen
    <3>1. clicked = <<>>
      BY <2>2, <2>3
    <3>2. PICK r \in selected : path = Append(cd, r.name)
      BY <2>2, <2>3
    <3> QED BY <2>1, <2>2, <3>1, <3>2
  <2>4. Deletes'
    BY <2>2, <2>3 DEF Deletes
  <2> QED BY <1>1, <1>2, <1>12, <2>4 DEF RemoveSelected, IInv
<1>13. CASE ModifyDone \/ ModifyFails
  <2>1. Deletes'
    BY <1>0, <1>13 DEF ModifyDone, ModifyFails, Deletes
  <2> QED BY <1>1, <1>2, <1>13, <2>1 DEF ModifyDone, ModifyFails, IInv
<1>14. ASSUME NEW s \in Slots, ReceiveModified(s) PROVE IInv'
  <2>1. AnswersKnown'
    BY <1>0, <1>14, CdIsPath, SendKnown DEF ReceiveModified
  <2>2. Deletes'
    BY <1>14 DEF ReceiveModified, Deletes
  <2> QED BY <1>1, <1>14, <2>1, <2>2 DEF ReceiveModified, IInv
<1>15. CASE UNCHANGED vars
  BY <1>1, <1>2, <1>3, <1>15 DEF vars, IInv
<1> QED
  BY <1>4, <1>5, <1>6, <1>7, <1>8, <1>9, <1>10, <1>11, <1>12, <1>13, <1>14, <1>15
     DEF Next, Proceed

-----------------------------------------------------------------------------

\* The invariant is one of the page.
LEMMA InductiveInvariant == Spec => []IInv
  BY InitIInv, NextIInv, PTL DEF Spec

\* Whatever answers arrive late, the rows lead to the files of the directory that the title
\* shows, or because of a plus sign to none, and what is deleted is of that directory, unless
\* a directory was clicked since (handleRetrievedFiles, refillTable, localEncodeURI,
\* removeSelectedDatadirFiles).
THEOREM ActsOnDirShown == Spec => []PageActsOnDirShown
<1>1. IInv => PageActsOnDirShown
  BY DEF IInv, Shown, RowsLead, Leads, Deletes, PageActsOnDirShown
<1> QED
  BY <1>1, InductiveInvariant, PTL
=============================================================================
