------------------------- MODULE TrafficGraph_proofs -------------------------
(***************************************************************************)
(* Proofs about the traffic graph, where it is drawn and where its samples *)
(* are kept.                                                               *)
(*                                                                         *)
(* The overlay of the web pages, for every set of torrents and tabs and    *)
(* any number of requests, timers and drawings under way: what is visible, *)
(* which graph it shows, and that no step reaches code that its state is   *)
(* not ready for.                                                          *)
(*                                                                         *)
(* The holder of the daemon's samples, for every limit and any number of   *)
(* measurements.  Its inductive invariant says that all samples are in the *)
(* youngest and the oldest generation, in order, one after the other; the  *)
(* compaction in between moves them down generation by generation, which   *)
(* is an argument about the least generation that it could not reach.      *)
(***************************************************************************)
EXTENDS TorrentOverlay, TimeSampleHolder, TLAPS, WellFoundedInduction

-----------------------------------------------------------------------------
(* DoubleBuffer *)

\* setVisible changes the element that is shown, and only it.
LEMMA SetVisibleShows ==
    ASSUME NEW b \in Buffers, NEW v \in BOOLEAN
    PROVE  /\ SetVisible(b, v) \in Buffers
           /\ SetVisible(b, v).visibleElement = b.visibleElement
           /\ SetVisible(b, v).visible = v
           /\ \A e \in Elements : SetVisible(b, v).shown[e] =
                IF e = b.visibleElement THEN v ELSE b.shown[e]
  BY DEF SetVisible, Buffers, Elements

\* swap hides the one element, and shows the other if the buffer is visible.
LEMMA SwapShows ==
    ASSUME NEW b \in Buffers
    PROVE  /\ Swap(b) \in Buffers
           /\ Swap(b).visibleElement = GetHidden(b)
           /\ Swap(b).visible = b.visible
           /\ \A x \in Elements : Swap(b).shown[x] <=>
                x # b.visibleElement /\ (b.visible \/ b.shown[x])
<1> DEFINE e == GetHidden(b)
           s == [x \in Elements |-> x = e /\ (b.visible \/ b.shown[e])]
<1>1. /\ e \in Elements
      /\ \A x \in Elements : x = e <=> x # b.visibleElement
  BY DEF GetHidden, Buffers, Elements
<1>2. Swap(b) = [b EXCEPT !.visibleElement = e, !.shown = s]
  BY DEF Swap, GetHidden
<1>3. s \in [Elements -> BOOLEAN]
  BY DEF Buffers
<1>4. \A x \in Elements : s[x] <=> x # b.visibleElement /\ (b.visible \/ b.shown[x])
  BY <1>1
<1> HIDE DEF e, s
<1>5. Swap(b) \in Buffers /\ Swap(b).visibleElement = e /\ Swap(b).visible = b.visible
      /\ Swap(b).shown = s
  BY <1>1, <1>2, <1>3 DEF Buffers
<1> QED
  BY <1>4, <1>5 DEF e

\* At most the element to be shown is visible, and it is if the buffer is.
BufferShows(b, v) ==
    /\ b \in Buffers /\ (b.visible <=> v)
    /\ \A e \in Elements : b.shown[e] <=> v /\ e = b.visibleElement

LEMMA SameVisibility ==
    ASSUME NEW b, NEW u \in BOOLEAN, NEW v \in BOOLEAN, u <=> v, BufferShows(b, u)
    PROVE  BufferShows(b, v)
  BY DEF BufferShows

LEMMA SetVisibleKeeps ==
    ASSUME NEW b \in Buffers, NEW u \in BOOLEAN, NEW v \in BOOLEAN, BufferShows(b, u)
    PROVE  BufferShows(SetVisible(b, v), v)
  BY SetVisibleShows DEF BufferShows

LEMMA SwapKeeps ==
    ASSUME NEW b \in Buffers, NEW v \in BOOLEAN, BufferShows(b, v)
    PROVE  BufferShows(Swap(b), v)
<1>1. /\ b.visibleElement \in Elements /\ GetHidden(b) # b.visibleElement
      /\ \A e \in Elements : e = b.visibleElement \/ e = GetHidden(b)
      /\ b.visible \in BOOLEAN
  BY DEF GetHidden, Buffers, Elements
<1> QED
  BY <1>1, SwapShows DEF BufferShows

\* The constructor and showOverlay leave a buffer that shows nothing.
LEMMA NewBufferShows == BufferShows(SetVisible(NewBuffer, FALSE), FALSE)
<1> DEFINE b == [visibleElement |-> 1, visible |-> FALSE, shown |-> [e \in Elements |-> FALSE]]
           c == [Swap(b) EXCEPT !.visible = TRUE]
<1>1. b \in Buffers /\ BufferShows(b, FALSE)
  BY DEF BufferShows, Buffers, Elements
<1>2. BufferShows(Swap(b), FALSE)
  BY <1>1, SwapKeeps
<1> HIDE DEF b
<1>3. c \in Buffers /\ \A e \in Elements : ~ c.shown[e]
  BY <1>2 DEF BufferShows, Buffers
<1>4. c = NewBuffer
  BY DEF NewBuffer, b
<1> HIDE DEF c
<1>5. BufferShows(SetVisible(c, FALSE), FALSE)
  BY <1>3, SetVisibleShows DEF BufferShows
<1> QED
  BY <1>4, <1>5

-----------------------------------------------------------------------------
(* What is visible *)

\* Before the first click nothing has been asked for, drawn or shown.
NotCreated ==
    /\ current = Null /\ drawings = {} /\ ~ overlayVisible /\ currentTab = FirstTab
    /\ \A t \in Torrents : requests["details"][t] = 0
    /\ graph = [e \in Elements |-> Nothing] /\ lastDrawn = Nothing

\* The widget is visible with the overlay, and the buffer with its tab.
VisibleInv ==
    /\ overlayVisible \in BOOLEAN /\ widgetVisible = overlayVisible
    /\ currentTab \in Tabs
    /\ contentShown = [u \in Tabs |-> overlayVisible /\ u = currentTab]
    /\ requests \in [Kinds -> [Torrents -> Int]]
    /\ buffer = Null => NotCreated
    /\ buffer # Null => /\ current \in Torrents
                        /\ BufferShows(buffer, overlayVisible /\ currentTab = GraphTab)

LEMMA InitVisible == Init => VisibleInv
<1> SUFFICES ASSUME Init PROVE VisibleInv
  OBVIOUS
<1>1. contentShown = [u \in Tabs |-> overlayVisible /\ u = currentTab]
  BY DEF Init
<1>2. requests \in [Kinds -> [Torrents -> Int]]
  BY DEF Init
<1>3. NotCreated
  BY DEF Init, NotCreated, Kinds
<1> QED
  BY <1>1, <1>2, <1>3, OverlayAssumption DEF Init, VisibleInv

LEMMA UpdateTypes ==
    ASSUME VisibleInv, NEW t \in Torrents, UpdateOverlay(t)
    PROVE  requests' \in [Kinds -> [Torrents -> Int]]
  BY DEF VisibleInv, UpdateOverlay, Kinds

LEMMA EndedTypes ==
    ASSUME VisibleInv, NEW kind \in Kinds, NEW t \in Torrents, Ended(kind, t)
    PROVE  requests' \in [Kinds -> [Torrents -> Int]]
  BY DEF VisibleInv, Ended, Kinds

LEMMA NextVisible == VisibleInv /\ [Next]_vars => VisibleInv'
<1> SUFFICES ASSUME VisibleInv, [Next]_vars PROVE VisibleInv'
  OBVIOUS
<1> USE DEF widget, texts, drawn
<1>0. /\ overlayVisible \in BOOLEAN
      /\ buffer # Null => buffer \in Buffers
      /\ Null \notin Buffers
      /\ buffer # Null => BufferShows(buffer, overlayVisible /\ currentTab = GraphTab)
  BY OverlayAssumption DEF VisibleInv, BufferShows
<1>1. ASSUME NEW t \in Torrents, TorrentDetailsClicked(t) PROVE VisibleInv'
  <2>1. requests' \in [Kinds -> [Torrents -> Int]]
    BY <1>1, UpdateTypes DEF TorrentDetailsClicked
  <2>2. /\ overlayVisible' = TRUE /\ widgetVisible' = TRUE /\ currentTab' = currentTab
        /\ contentShown' = [u \in Tabs |-> u = currentTab]
        /\ buffer' = IF buffer = Null THEN SetVisible(NewBuffer, FALSE)
                                       ELSE OnTab(buffer, currentTab)
    BY <1>1 DEF TorrentDetailsClicked, ShowOverlay
  <2>3. BufferShows(buffer', currentTab = GraphTab)
    <3>1. CASE buffer = Null
      <4>1. currentTab # GraphTab
        BY <3>1, OverlayAssumption DEF VisibleInv, NotCreated
      <4>2. BufferShows(buffer', FALSE)
        BY <2>2, <3>1, NewBufferShows
      <4> QED
        BY <4>1, <4>2 DEF BufferShows
    <3>2. CASE buffer # Null
      <4>1. buffer' = SetVisible(buffer, currentTab = GraphTab)
        BY <2>2, <3>2 DEF OnTab
      <4> QED
        BY <1>0, <3>2, <4>1, SetVisibleKeeps
    <3> QED
      BY <3>1, <3>2
  <2>4. buffer' # Null
    BY <1>0, <2>3 DEF BufferShows
  <2> QED
    BY <1>1, <2>1, <2>2, <2>3, <2>4 DEF VisibleInv, TorrentDetailsClicked
<1>2. ASSUME NEW t \in Torrents, LoadOverlayContents(t) PROVE VisibleInv'
  <2>1. buffer # Null
    BY <1>2 DEF LoadOverlayContents, Ended, VisibleInv, NotCreated
  <2>2. requests' \in [Kinds -> [Torrents -> Int]]
    BY <1>2, EndedTypes DEF LoadOverlayContents, Kinds
  <2> QED
    BY <1>2, <2>1, <2>2 DEF LoadOverlayContents, VisibleInv
<1>3. ASSUME NEW t \in Torrents, AddAlertsToOverlay(t) PROVE VisibleInv'
  <2>1. requests' \in [Kinds -> [Torrents -> Int]] /\ requests'["details"] = requests["details"]
    BY <1>3, EndedTypes DEF AddAlertsToOverlay, Ended, Kinds, VisibleInv
  <2> QED
    BY <1>3, <2>1 DEF AddAlertsToOverlay, VisibleInv, NotCreated
<1>4. ASSUME NEW t \in Torrents, RequestFails(t) PROVE VisibleInv'
  <2>1. PICK kind \in Kinds : Ended(kind, t)
    BY <1>4 DEF RequestFails
  <2>2. requests' \in [Kinds -> [Torrents -> Int]]
    BY <2>1, EndedTypes
  <2>3. buffer = Null => requests'["details"] = requests["details"]
    BY <2>1 DEF Ended, Kinds, VisibleInv, NotCreated
  <2> QED
    BY <1>4, <2>2, <2>3 DEF RequestFails, VisibleInv, NotCreated
<1>5. ASSUME NEW tab \in Tabs, TabClicked(tab) PROVE VisibleInv'
  <2>1. buffer # Null /\ overlayVisible /\ widgetVisible
    BY <1>5 DEF TabClicked, VisibleInv, NotCreated
  <2>2. BufferShows(buffer', tab = GraphTab)
    BY <1>0, <1>5, <2>1, SetVisibleKeeps DEF TabClicked, ShowTab, OnTab
  <2>3. buffer' # Null
    BY <1>0, <2>2 DEF BufferShows
  <2> QED
    BY <1>5, <2>1, <2>2, <2>3 DEF TabClicked, ShowTab, VisibleInv
<1>6. ASSUME HideOverlay PROVE VisibleInv'
  <2>1. buffer # Null
    BY <1>6 DEF HideOverlay, VisibleInv, NotCreated
  <2>2. BufferShows(buffer', FALSE)
    BY <1>0, <1>6, <2>1, SetVisibleKeeps DEF HideOverlay
  <2>3. buffer' # Null
    BY <1>0, <2>2 DEF BufferShows
  <2> QED
    BY <1>6, <2>1, <2>2, <2>3 DEF HideOverlay, HideTabs, VisibleInv
<1>7. ASSUME TimerUpdates PROVE VisibleInv'
  <2>1. buffer # Null /\ current \in Torrents
    BY <1>7 DEF TimerUpdates, VisibleInv, NotCreated
  <2>2. requests' \in [Kinds -> [Torrents -> Int]]
    BY <1>7, <2>1, UpdateTypes DEF TimerUpdates
  <2> QED
    BY <1>7, <2>1, <2>2 DEF TimerUpdates, VisibleInv
<1>8. ASSUME TimerEnds PROVE VisibleInv'
  BY <1>8 DEF TimerEnds, VisibleInv, NotCreated
<1>9. ASSUME NEW d \in drawings, GraphDrawn(d) PROVE VisibleInv'
  <2>1. buffer # Null
    BY DEF VisibleInv, NotCreated
  <2>2. BufferShows(buffer', overlayVisible /\ currentTab = GraphTab)
    <3> DEFINE v == overlayVisible /\ currentTab = GraphTab
    <3>0. v \in BOOLEAN
      OBVIOUS
    <3>1. BufferShows(buffer, v) /\ buffer \in Buffers
      BY <1>0, <2>1
    <3>2. buffer' = Swap(buffer)
      BY <1>9 DEF GraphDrawn
    <3> HIDE DEF v
    <3>3. BufferShows(Swap(buffer), v)
      BY <3>0, <3>1, SwapKeeps
    <3> QED
      BY <3>2, <3>3 DEF v
  <2>3. buffer' # Null
    BY <1>0, <2>2 DEF BufferShows
  <2> QED
    BY <1>9, <2>1, <2>2, <2>3 DEF GraphDrawn, VisibleInv
<1>10. ASSUME NEW d \in drawings, GraphLost(d) PROVE VisibleInv'
  <2>1. buffer # Null
    BY DEF VisibleInv, NotCreated
  <2> QED
    BY <1>10, <2>1 DEF GraphLost, VisibleInv
<1>11. CASE UNCHANGED vars
  BY <1>11 DEF vars, VisibleInv, NotCreated
<1> QED
  BY <1>1, <1>2, <1>3, <1>4, <1>5, <1>6, <1>7, <1>8, <1>9, <1>10, <1>11 DEF Next, DrawingEnds

\* What is visible is the content of the current tab, and of the graph's elements the one
\* that was drawn last, on the graph's tab only; nothing while the overlay is hidden.
THEOREM OpenTabShows == Spec => []OnlyOpenTabShows
<1>1. VisibleInv => OnlyOpenTabShows
  BY DEF VisibleInv, OnlyOpenTabShows, BufferShows
<1> QED
  BY <1>1, InitVisible, NextVisible, PTL DEF Spec

-----------------------------------------------------------------------------
(* What is drawn *)

\* As long as no two drawings have overlapped, there is at most one, it draws to the hidden
\* element and has its place there; the visible element holds the graph finished last.
DrawnInv ==
    buffer # Null /\ lastDrawn # Overlapped =>
      /\ DOMAIN graph = Elements
      /\ \A d \in drawings : d.element = GetHidden(buffer) /\ d.placed
      /\ \A c, d \in drawings : c = d
      /\ graph[buffer.visibleElement] = lastDrawn

LEMMA InitDrawn == Init => DrawnInv
  BY DEF Init, DrawnInv

\* Where the buffer is not swapped, DrawnInv depends on its visible element only.
LEMMA NotSwapped ==
    ASSUME DrawnInv, buffer # Null, buffer'.visibleElement = buffer.visibleElement,
           UNCHANGED <<graph, lastDrawn>>, drawings' \subseteq drawings
    PROVE  DrawnInv'
  BY DEF DrawnInv, GetHidden

LEMMA NextDrawn == VisibleInv /\ DrawnInv /\ [Next]_vars => DrawnInv'
<1> SUFFICES ASSUME VisibleInv, DrawnInv, [Next]_vars PROVE DrawnInv'
  OBVIOUS
<1> USE DEF widget, texts, drawn
<1>0. buffer # Null => buffer \in Buffers
  BY DEF VisibleInv, BufferShows
<1>a. ASSUME UNCHANGED <<buffer, graph, lastDrawn>>, drawings' \subseteq drawings
      PROVE  DrawnInv'
  BY <1>a DEF DrawnInv, GetHidden
<1>1. ASSUME NEW t \in Torrents, TorrentDetailsClicked(t) PROVE DrawnInv'
  <2>1. UNCHANGED drawn
    BY <1>1 DEF TorrentDetailsClicked
  <2>2. CASE buffer = Null
    <3>1. SetVisible(NewBuffer, FALSE) \in Buffers
      BY NewBufferShows DEF BufferShows
    <3>2. buffer' \in Buffers
      BY <1>1, <2>2, <3>1 DEF TorrentDetailsClicked, ShowOverlay
    <3>3. buffer'.visibleElement \in Elements
      BY <3>2 DEF Buffers
    <3>4. graph = [e \in Elements |-> Nothing] /\ lastDrawn = Nothing /\ drawings = {}
      BY <2>2 DEF VisibleInv, NotCreated
    <3> QED
      BY <2>1, <3>3, <3>4 DEF DrawnInv
  <2>3. CASE buffer # Null
    <3>1. buffer' = SetVisible(buffer, currentTab = GraphTab)
      BY <1>1, <2>3 DEF TorrentDetailsClicked, ShowOverlay, OnTab
    <3>2. buffer'.visibleElement = buffer.visibleElement
      BY <1>0, <2>3, <3>1, SetVisibleShows
    <3> QED
      BY <2>1, <2>3, <3>2, NotSwapped
  <2> QED
    BY <2>2, <2>3
<1>2. ASSUME NEW t \in Torrents, LoadOverlayContents(t) PROVE DrawnInv'
  <2> DEFINE e == GetHidden(buffer)
  <2>1. /\ buffer' = buffer
        /\ graph' = [graph EXCEPT ![e] = Blank]
        /\ drawings' = {Displaced(d, e) : d \in drawings} \cup {Drawing(e, current)}
        /\ lastDrawn' = IF drawings # {} THEN Overlapped ELSE lastDrawn
    BY <1>2 DEF LoadOverlayContents
  <2>2. CASE drawings # {}
    BY <2>1, <2>2 DEF DrawnInv
  <2>3. CASE drawings = {}
    <3>1. drawings' = {Drawing(e, current)} /\ lastDrawn' = lastDrawn
      BY <2>1, <2>3
    <3>2. Drawing(e, current).element = e /\ Drawing(e, current).placed
      BY DEF Drawing
    <3>3. buffer # Null => buffer.visibleElement # e
      BY <1>0 DEF GetHidden, Buffers, Elements
    <3>4. buffer # Null /\ lastDrawn # Overlapped =>
            /\ DOMAIN graph' = Elements
            /\ graph'[buffer.visibleElement] = lastDrawn
      BY <1>0, <2>1, <3>3 DEF DrawnInv, Buffers
    <3> QED
      BY <2>1, <3>1, <3>2, <3>4 DEF DrawnInv
  <2> QED
    BY <2>2, <2>3
<1>3. ASSUME NEW t \in Torrents, AddAlertsToOverlay(t) \/ RequestFails(t) PROVE DrawnInv'
  BY <1>3, <1>a DEF AddAlertsToOverlay, RequestFails
<1>4. ASSUME NEW tab \in Tabs, TabClicked(tab) PROVE DrawnInv'
  <2>1. buffer # Null /\ buffer' = SetVisible(buffer, tab = GraphTab)
    BY <1>4 DEF TabClicked, ShowTab, OnTab, VisibleInv, NotCreated
  <2>2. buffer'.visibleElement = buffer.visibleElement
    BY <1>0, <2>1, SetVisibleShows
  <2> QED
    BY <1>4, <2>1, <2>2, NotSwapped DEF TabClicked
<1>5. ASSUME HideOverlay PROVE DrawnInv'
  <2>1. buffer # Null /\ buffer' = SetVisible(buffer, FALSE)
    BY <1>5 DEF HideOverlay, VisibleInv, NotCreated
  <2>2. buffer'.visibleElement = buffer.visibleElement
    BY <1>0, <2>1, SetVisibleShows
  <2> QED
    BY <1>5, <2>1, <2>2, NotSwapped DEF HideOverlay
<1>6. CASE TimerUpdates \/ TimerEnds
  BY <1>6, <1>a DEF TimerUpdates, TimerEnds
<1>7. ASSUME NEW d \in drawings, GraphDrawn(d) PROVE DrawnInv'
  <2>1. buffer # Null /\ buffer \in Buffers
    BY <1>0 DEF VisibleInv, NotCreated
  <2> SUFFICES ASSUME lastDrawn' # Overlapped PROVE DrawnInv'
    BY DEF DrawnInv
  <2>2. lastDrawn # Overlapped /\ lastDrawn' = d.torrent
    BY <1>7 DEF GraphDrawn
  <2>3. d.element = GetHidden(buffer) /\ d.placed /\ drawings = {d} /\ DOMAIN graph = Elements
    BY <2>1, <2>2 DEF DrawnInv
  <2>4. buffer' = Swap(buffer) /\ drawings' = {} /\ graph' = [graph EXCEPT ![d.element] = d.torrent]
    BY <1>7, <2>3 DEF GraphDrawn
  <2>5. buffer'.visibleElement = d.element /\ d.element \in Elements
    BY <2>1, <2>3, <2>4, SwapShows DEF GetHidden, Buffers, Elements
  <2>6. DOMAIN graph' = Elements /\ graph'[d.element] = d.torrent
    BY <2>3, <2>4, <2>5
  <2> QED
    BY <2>2, <2>4, <2>5, <2>6 DEF DrawnInv
<1>8. ASSUME NEW d \in drawings, GraphLost(d) PROVE DrawnInv'
  BY <1>8, <1>a DEF GraphLost
<1>9. CASE UNCHANGED vars
  BY <1>9, <1>a DEF vars
<1> QED
  BY <1>1, <1>2, <1>3, <1>4, <1>5, <1>6, <1>7, <1>8, <1>9 DEF Next, DrawingEnds

\* The graph that is visible is the one finished last, never one that is being drawn, as
\* long as each drawing ends before the next one begins.
THEOREM LastGraphShows == Spec => []ShowsLastFinishedGraph
<1>1. DrawnInv => ShowsLastFinishedGraph
  BY DEF DrawnInv, ShowsLastFinishedGraph
<1>2. VisibleInv /\ DrawnInv /\ [Next]_vars => (VisibleInv /\ DrawnInv)'
  BY NextVisible, NextDrawn
<1> QED
  BY <1>1, <1>2, InitVisible, InitDrawn, PTL DEF Spec
-----------------------------------------------------------------------------
(* Types *)

LEMMA InitTyped == Init => TypeOK
<1> SUFFICES ASSUME Init PROVE TypeOK
  OBVIOUS
<1>1. /\ MaxEvents \in Nat /\ MaxTimers \in Nat /\ MaxRequests \in Nat
      /\ FirstTab \in Tabs
  BY OverlayAssumption
<1>2. requests \in [Kinds -> [Torrents -> 0..MaxRequests]]
  BY <1>1 DEF Init
<1>3. \A kind \in Kinds, t \in Torrents : requests[kind][t] = 0
  BY DEF Init
<1>4. graph \in [Elements -> Torrents \cup {Blank, Nothing}] /\ contentShown \in [Tabs -> BOOLEAN]
  BY DEF Init
<1>5. events \in 0..MaxEvents /\ timers \in 0..MaxTimers
  BY <1>1 DEF Init
<1> QED
  BY <1>1, <1>2, <1>3, <1>4, <1>5 DEF Init, TypeOK

\* A request that is made, or that ends, is counted within its bound.
LEMMA UpdateCounts ==
    ASSUME TypeOK, NEW t \in Torrents, UpdateOverlay(t)
    PROVE  requests' \in [Kinds -> [Torrents -> 0..MaxRequests]]
<1>1. MaxRequests \in Nat
  BY OverlayAssumption
<1>2. ASSUME NEW kind \in Kinds
      PROVE  [requests[kind] EXCEPT ![t] = @ + 1] \in [Torrents -> 0..MaxRequests]
  <2>1. requests[kind] \in [Torrents -> 0..MaxRequests] /\ requests[kind][t] < MaxRequests
    BY <1>2 DEF TypeOK, UpdateOverlay
  <2>2. requests[kind][t] + 1 \in 0..MaxRequests
    BY <1>1, <2>1
  <2> QED
    BY <2>1, <2>2
<1> QED
  BY <1>2 DEF UpdateOverlay

LEMMA EndedCounts ==
    ASSUME TypeOK, NEW kind \in Kinds, NEW t \in Torrents, Ended(kind, t)
    PROVE  /\ requests' \in [Kinds -> [Torrents -> 0..MaxRequests]]
           /\ buffer # Null /\ current \in Torrents
<1>1. MaxRequests \in Nat
  BY OverlayAssumption
<1>2. /\ requests[kind][t] > 0 /\ requests[kind] \in [Torrents -> 0..MaxRequests]
      /\ requests' = [requests EXCEPT ![kind][t] = requests[kind][t] - 1]
  BY DEF TypeOK, Ended
<1>3. requests[kind][t] - 1 \in 0..MaxRequests
  BY <1>1, <1>2
<1>4. requests' \in [Kinds -> [Torrents -> 0..MaxRequests]]
  BY <1>2, <1>3 DEF TypeOK
<1>5. buffer # Null
  BY <1>2 DEF TypeOK
<1> QED
  BY <1>4, <1>5 DEF TypeOK

LEMMA NextTyped == TypeOK /\ [Next]_vars => TypeOK'
<1> SUFFICES ASSUME TypeOK, [Next]_vars PROVE TypeOK'
  OBVIOUS
<1> USE DEF widget, texts, drawn
<1>0. /\ MaxEvents \in Nat /\ MaxTimers \in Nat /\ Null \notin Torrents /\ Null \notin Buffers
      /\ events \in 0..MaxEvents /\ timers \in 0..MaxTimers
      /\ overlayVisible \in BOOLEAN
  BY OverlayAssumption DEF TypeOK
<1>a. \A b \in Buffers, v \in BOOLEAN : SetVisible(b, v) \in Buffers /\ Swap(b) \in Buffers
  BY SetVisibleShows, SwapShows
<1>1. ASSUME NEW t \in Torrents, TorrentDetailsClicked(t) PROVE TypeOK'
  <2>1. requests' \in [Kinds -> [Torrents -> 0..MaxRequests]]
    BY <1>1, UpdateCounts DEF TorrentDetailsClicked
  <2>2. timers' \in 0..MaxTimers
    BY <1>0, <1>1 DEF TorrentDetailsClicked
  <2>3. buffer' \in Buffers
    <3>1. CASE buffer = Null
      BY <1>1, <3>1, NewBufferShows DEF TorrentDetailsClicked, ShowOverlay, BufferShows
    <3>2. CASE buffer # Null
      BY <1>1, <1>a, <3>2 DEF TorrentDetailsClicked, ShowOverlay, OnTab, TypeOK
    <3> QED
      BY <3>1, <3>2
  <2>4. buffer' # Null
    BY <1>0, <2>3
  <2>5. contentShown' \in [Tabs -> BOOLEAN]
    BY <1>1 DEF TorrentDetailsClicked, ShowOverlay
  <2>6. /\ current' = t /\ overlayVisible' = TRUE /\ widgetVisible' = TRUE
        /\ currentTab' = currentTab /\ UNCHANGED <<events, graph, drawings, lastDrawn, title, alertsOf>>
    BY <1>1 DEF TorrentDetailsClicked, ShowOverlay
  <2> QED
    BY <1>0, <2>1, <2>2, <2>3, <2>4, <2>5, <2>6 DEF TypeOK
<1>2. ASSUME NEW t \in Torrents, LoadOverlayContents(t) PROVE TypeOK'
  <2> DEFINE e == GetHidden(buffer)
             D == [element : Elements, torrent : Torrents, placed : BOOLEAN]
  <2>1. /\ requests' \in [Kinds -> [Torrents -> 0..MaxRequests]]
        /\ buffer \in Buffers /\ buffer # Null /\ current \in Torrents
    BY <1>2, EndedCounts DEF LoadOverlayContents, Kinds, TypeOK
  <2>2. e \in Elements
    BY <2>1 DEF GetHidden, Buffers, Elements
  <2>3. drawings' \in SUBSET D
    <3>1. \A d \in D : Displaced(d, e) \in D
      BY DEF Displaced
    <3>2. Drawing(e, current) \in D
      BY <2>1, <2>2 DEF Drawing
    <3>3. drawings' = {Displaced(d, e) : d \in drawings} \cup {Drawing(e, current)}
      BY <1>2 DEF LoadOverlayContents
    <3> HIDE DEF e, D
    <3>4. drawings \in SUBSET D
      BY DEF TypeOK, D
    <3> QED
      BY <3>1, <3>2, <3>3, <3>4
  <2>4. graph' \in [Elements -> Torrents \cup {Blank, Nothing}]
    BY <1>2, <2>2 DEF LoadOverlayContents, TypeOK
  <2>5. lastDrawn' \in Torrents \cup {Nothing, Overlapped}
    BY <1>2 DEF LoadOverlayContents, TypeOK
  <2> QED
    BY <1>2, <2>1, <2>3, <2>4, <2>5 DEF TypeOK, LoadOverlayContents
<1>3. ASSUME NEW t \in Torrents, AddAlertsToOverlay(t) PROVE TypeOK'
  <2>1. /\ requests' \in [Kinds -> [Torrents -> 0..MaxRequests]]
        /\ buffer # Null /\ current \in Torrents
    BY <1>3, EndedCounts DEF AddAlertsToOverlay, Kinds
  <2> QED
    BY <1>3, <2>1 DEF TypeOK, AddAlertsToOverlay
<1>4. ASSUME NEW t \in Torrents, RequestFails(t) PROVE TypeOK'
  <2>1. /\ requests' \in [Kinds -> [Torrents -> 0..MaxRequests]]
        /\ buffer # Null /\ current \in Torrents
    BY <1>4, EndedCounts DEF RequestFails
  <2>2. events' \in 0..MaxEvents
    BY <1>0, <1>4 DEF RequestFails
  <2> QED
    BY <1>4, <2>1, <2>2 DEF TypeOK, RequestFails
<1>5. ASSUME NEW tab \in Tabs, TabClicked(tab) PROVE TypeOK'
  <2>1. buffer \in Buffers /\ buffer # Null
    BY <1>5 DEF TabClicked, TypeOK
  <2>2. buffer' \in Buffers
    BY <1>5, <1>a, <2>1 DEF TabClicked, ShowTab, OnTab
  <2>3. contentShown' \in [Tabs -> BOOLEAN] /\ currentTab' \in Tabs
    BY <1>5 DEF TabClicked, ShowTab
  <2> QED
    BY <1>0, <1>5, <2>1, <2>2, <2>3 DEF TypeOK, TabClicked
<1>6. ASSUME HideOverlay PROVE TypeOK'
  <2>1. buffer \in Buffers /\ buffer # Null
    BY <1>6 DEF HideOverlay, TypeOK
  <2>2. buffer' \in Buffers
    BY <1>6, <1>a, <2>1 DEF HideOverlay
  <2>3. contentShown' \in [Tabs -> BOOLEAN]
    BY <1>6 DEF HideOverlay, HideTabs
  <2> QED
    BY <1>0, <1>6, <2>1, <2>2, <2>3 DEF TypeOK, HideOverlay, HideTabs
<1>7. ASSUME TimerUpdates PROVE TypeOK'
  <2>1. buffer # Null /\ current \in Torrents
    BY <1>7 DEF TimerUpdates, TypeOK
  <2>2. requests' \in [Kinds -> [Torrents -> 0..MaxRequests]]
    BY <1>7, <2>1, UpdateCounts DEF TimerUpdates
  <2> QED
    BY <1>7, <2>1, <2>2 DEF TypeOK, TimerUpdates
<1>8. ASSUME TimerEnds PROVE TypeOK'
  <2>1. timers' \in 0..MaxTimers
    BY <1>0, <1>8 DEF TimerEnds
  <2> QED
    BY <1>8, <2>1 DEF TypeOK, TimerEnds
<1>9. ASSUME NEW d \in drawings, GraphDrawn(d) \/ GraphLost(d) PROVE TypeOK'
  <2>1. /\ d \in [element : Elements, torrent : Torrents, placed : BOOLEAN]
        /\ buffer \in Buffers /\ buffer # Null
    BY DEF TypeOK
  <2>2. drawings' = drawings \ {d} /\ buffer' \in Buffers
    BY <1>9, <1>a, <2>1 DEF GraphDrawn, GraphLost
  <2>3. graph' \in [Elements -> Torrents \cup {Blank, Nothing}]
    BY <1>9, <2>1 DEF GraphDrawn, GraphLost, TypeOK
  <2>4. lastDrawn' \in Torrents \cup {Nothing, Overlapped}
    BY <1>9, <2>1 DEF GraphDrawn, GraphLost, TypeOK
  <2>5. events' \in 0..MaxEvents
    BY <1>0, <1>9 DEF GraphDrawn, GraphLost
  <2>6. UNCHANGED <<current, overlayVisible, widget, timers, requests, texts>>
    BY <1>9 DEF GraphDrawn, GraphLost
  <2> QED
    BY <1>0, <2>1, <2>2, <2>3, <2>4, <2>5, <2>6 DEF TypeOK
<1>10. CASE UNCHANGED vars
  BY <1>10 DEF vars, TypeOK
<1> QED
  BY <1>1, <1>2, <1>3, <1>4, <1>5, <1>6, <1>7, <1>8, <1>9, <1>10 DEF Next, DrawingEnds

\* The variables have their types, no answer, drawing or tab reaches code that needs a buffer
\* or a current torrent before there is one, and the bounds are kept.
THEOREM TypeCorrect == Spec => []TypeOK
<1> QED
  BY InitTyped, NextTyped, PTL DEF Spec

-----------------------------------------------------------------------------
(* Numbers and functions *)

\* A set of numbers that is not empty has a least one.
LEMMA LeastNumber ==
    ASSUME NEW T \in SUBSET Nat, T # {}
    PROVE  \E x \in T : \A y \in T : x <= y
<1> DEFINE R == OpToRel(<, Nat)
<1>1. IsWellFoundedOn(R, Nat)
  BY NatLessThanWellFounded
<1>2. \A x, y \in Nat : <<y, x>> \in R <=> y < x
  BY DEF OpToRel
<1> HIDE DEF R
<1>3. PICK x \in T : \A y \in T : ~ (<<y, x>> \in R)
  BY <1>1, WFMin
<1>4. \A y \in T : ~ (y < x)
  BY <1>2, <1>3
<1> QED
  BY <1>3, <1>4

\* A set of numbers up to n that has 0, and with each number the next one, has them all.
LEMMA Reached ==
    ASSUME NEW n \in Nat, NEW P \in SUBSET (0..n), 0 \in P,
           \A i \in 1..n : i - 1 \in P => i \in P
    PROVE  P = 0..n
<1> DEFINE T == (0..n) \ P
<1>1. SUFFICES ASSUME T # {} PROVE FALSE
  OBVIOUS
<1>2. T \in SUBSET Nat
  OBVIOUS
<1>3. PICK x \in T : \A y \in T : x <= y
  BY <1>1, <1>2, LeastNumber
<1>4. x \in 1..n /\ x - 1 \in 0..n
  BY <1>3
<1>5. x - 1 \in P
  BY <1>3, <1>4
<1> QED
  BY <1>3, <1>4, <1>5

\* Functions on S can be applied one after the other.
Chains(k, n, S, base, f) ==
    {g \in [0..n -> S] : g[0] = base /\ \A i \in 1..k : g[i] = f[i][g[i - 1]]}

\* However many of them there are.
LEMMA Iterated ==
    ASSUME NEW n \in Nat, NEW S, NEW base \in S, NEW f \in [1..n -> [S -> S]]
    PROVE  Chains(n, n, S, base, f) # {}
<1> DEFINE P == {k \in 0..n : Chains(k, n, S, base, f) # {}}
<1>1. 0 \in P
  <2> DEFINE g == [i \in 0..n |-> base]
  <2>1. g \in Chains(0, n, S, base, f)
    BY DEF Chains
  <2> QED BY <2>1
<1>2. ASSUME NEW k \in 1..n, k - 1 \in P PROVE k \in P
  <2>1. PICK g : g \in Chains(k - 1, n, S, base, f)
    BY <1>2
  <2>2. g \in [0..n -> S] /\ g[0] = base /\ \A i \in 1..(k - 1) : g[i] = f[i][g[i - 1]]
    BY <2>1 DEF Chains
  <2> DEFINE h == [g EXCEPT ![k] = f[k][g[k - 1]]]
  <2>3. k \in 0..n /\ k - 1 \in 0..n /\ f[k][g[k - 1]] \in S
    BY <2>2
  <2>4. h \in [0..n -> S]
    BY <2>2, <2>3
  <2>5. \A i \in 0..n : h[i] = IF i = k THEN f[k][g[k - 1]] ELSE g[i]
    BY <2>2
  <2>6. h[0] = base
    BY <2>2, <2>5
  <2> HIDE DEF h
  <2>7. ASSUME NEW i \in 1..k PROVE h[i] = f[i][h[i - 1]]
    <3>1. i \in 0..n /\ i - 1 \in 0..n /\ i - 1 # k /\ (i # k => i \in 1..(k - 1))
      OBVIOUS
    <3>2. h[i - 1] = g[i - 1]
      BY <2>5, <3>1
    <3> QED BY <2>2, <2>5, <3>1, <3>2
  <2>8. h \in Chains(k, n, S, base, f)
    BY <2>4, <2>6, <2>7 DEF Chains
  <2> QED BY <2>3, <2>8
<1>3. P = 0..n
  <2> HIDE DEF P
  <2>1. P \in SUBSET (0..n)
    BY DEF P
  <2> QED BY <1>1, <1>2, <2>1, Reached
<1> QED
  BY <1>3

-----------------------------------------------------------------------------
(* Samples in order *)

Old(gens) == IF Len(gens) >= 2 THEN gens[Len(gens)] ELSE <<>>
Young(gens) == IF Len(gens) >= 1 THEN gens[1] ELSE <<>>
InOrder(s) ==
    /\ \A i \in DOMAIN s : s[i].first <= s[i].last
    /\ \A i, j \in DOMAIN s : i < j => s[i].last < s[j].first
Before(s, t) == \A i \in DOMAIN s, j \in DOMAIN t : s[i].last < t[j].first
UpTo(s, n) == \A i \in DOMAIN s : s[i].last <= n

\* What a concatenation consists of.
LEMMA Concatenated ==
    ASSUME NEW S, NEW s \in Seq(S), NEW t \in Seq(S)
    PROVE  /\ s \o t \in Seq(S) /\ Len(s \o t) = Len(s) + Len(t)
           /\ Len(s) \in Nat /\ Len(t) \in Nat
           /\ DOMAIN s = 1..Len(s) /\ DOMAIN t = 1..Len(t)
           /\ DOMAIN (s \o t) = 1..(Len(s) + Len(t))
           /\ \A i \in 1..(Len(s) + Len(t)) :
                (s \o t)[i] = IF i <= Len(s) THEN s[i] ELSE t[i - Len(s)]
  OBVIOUS

\* Samples in order, with others that come before, are in order.
LEMMA ConcatInOrder ==
    ASSUME NEW s \in Seq(Sample), NEW t \in Seq(Sample), InOrder(s), InOrder(t), Before(s, t),
           NEW n \in Nat, UpTo(s, n), UpTo(t, n)
    PROVE  InOrder(s \o t) /\ UpTo(s \o t, n)
<1> DEFINE c == s \o t
           k == Len(s)
           m == Len(t)
<1>1. /\ k \in Nat /\ m \in Nat /\ DOMAIN s = 1..k /\ DOMAIN t = 1..m /\ DOMAIN c = 1..(k + m)
      /\ \A i \in 1..(k + m) : c[i] = IF i <= k THEN s[i] ELSE t[i - k]
  BY Concatenated
<1> HIDE DEF c, k, m
<1>2. \A i \in 1..(k + m) : IF i <= k THEN i \in 1..k ELSE i - k \in 1..m
  BY <1>1
<1>3. ASSUME NEW i \in DOMAIN c PROVE c[i].first <= c[i].last /\ c[i].last <= n
  BY <1>1, <1>2 DEF InOrder, UpTo
<1>4. ASSUME NEW i \in DOMAIN c, NEW j \in DOMAIN c, i < j PROVE c[i].last < c[j].first
  <2>1. CASE j <= k
    <3>1. i <= k
      BY <1>1, <1>4, <2>1
    <3> QED BY <1>1, <1>2, <1>4, <2>1, <3>1 DEF InOrder
  <2>2. CASE ~ (j <= k) /\ i <= k
    BY <1>1, <1>2, <2>2 DEF Before
  <2>3. CASE ~ (i <= k)
    <3>1. ~ (j <= k) /\ i - k < j - k
      BY <1>1, <1>4, <2>3
    <3> QED BY <1>1, <1>2, <2>3, <3>1 DEF InOrder
  <2> QED BY <2>1, <2>2, <2>3
<1> QED BY <1>3, <1>4 DEF InOrder, UpTo, c

\* What a generation becomes when it is moved.
Halved(gen) == IF Len(gen) = 1 THEN gen ELSE Pairs(gen)

\* Each average stands for the measurements of its two neighbours.
LEMMA PairsDo ==
    ASSUME NEW gen \in Seq(Sample)
    PROVE  /\ Pairs(gen) \in Seq(Sample) /\ Len(Pairs(gen)) = Len(gen) \div 2
           /\ DOMAIN Pairs(gen) = 1..(Len(gen) \div 2)
           /\ \A i \in 1..(Len(gen) \div 2) :
                /\ 2 * i \in DOMAIN gen /\ 2 * i - 1 \in DOMAIN gen
                /\ Pairs(gen)[i].first = gen[2 * i - 1].first
                /\ Pairs(gen)[i].last = gen[2 * i].last
<1> DEFINE n == Len(gen) \div 2
<1>1. n \in Nat /\ DOMAIN gen = 1..Len(gen) /\ Len(gen) \in Nat
  OBVIOUS
<1>2. \A i \in 1..n : 2 * i \in DOMAIN gen /\ 2 * i - 1 \in DOMAIN gen
  BY <1>1
<1>3. \A i \in DOMAIN gen : gen[i] \in Sample
  OBVIOUS
<1>4. Pairs(gen) = [i \in 1..n |-> [first |-> gen[2 * i - 1].first, last |-> gen[2 * i].last]]
  BY DEF Pairs, Average
<1> HIDE DEF n
<1>5. \A i \in 1..n : [first |-> gen[2 * i - 1].first, last |-> gen[2 * i].last] \in Sample
  BY <1>2, <1>3 DEF Sample
<1>6. Pairs(gen) \in [1..n -> Sample]
  BY <1>4, <1>5
<1>7. Pairs(gen) \in Seq(Sample) /\ Len(Pairs(gen)) = n
  BY <1>1, <1>6
<1>8. \A i \in 1..n : /\ Pairs(gen)[i].first = gen[2 * i - 1].first
                      /\ Pairs(gen)[i].last = gen[2 * i].last
  BY <1>4
<1> QED BY <1>2, <1>6, <1>7, <1>8 DEF n

\* A generation that is moved stays in order, behind what is older.
LEMMA HalvedDoes ==
    ASSUME NEW gen \in Seq(Sample), InOrder(gen), NEW old \in Seq(Sample), Before(old, gen),
           NEW n \in Nat, UpTo(gen, n)
    PROVE  /\ Halved(gen) \in Seq(Sample)
           /\ Len(Halved(gen)) = IF Len(gen) = 1 THEN 1 ELSE Len(gen) \div 2
           /\ InOrder(Halved(gen)) /\ Before(old, Halved(gen)) /\ UpTo(Halved(gen), n)
<1>1. CASE Len(gen) = 1
  BY <1>1 DEF Halved
<1>2. CASE Len(gen) # 1
  <2> DEFINE p == Pairs(gen)
             k == Len(gen) \div 2
  <2>1. /\ p \in Seq(Sample) /\ Len(p) = k /\ DOMAIN p = 1..k /\ k \in Nat
        /\ \A i \in 1..k :
             /\ 2 * i \in DOMAIN gen /\ 2 * i - 1 \in DOMAIN gen
             /\ p[i].first = gen[2 * i - 1].first
             /\ p[i].last = gen[2 * i].last
    BY PairsDo
  <2>2. Halved(gen) = p
    BY <1>2 DEF Halved
  <2>3. \A i \in DOMAIN gen : gen[i].first \in Nat /\ gen[i].last \in Nat
    <3>1. \A i \in DOMAIN gen : gen[i] \in Sample
      OBVIOUS
    <3> QED BY <3>1 DEF Sample
  <2> HIDE DEF p, k
  <2>4. ASSUME NEW i \in 1..k PROVE p[i].first <= p[i].last /\ p[i].last <= n
    <3>1. 2 * i - 1 < 2 * i
      OBVIOUS
    <3>2. gen[2 * i - 1].last < gen[2 * i].first
      BY <2>1, <3>1 DEF InOrder
    <3>3. gen[2 * i - 1].first <= gen[2 * i - 1].last /\ gen[2 * i].first <= gen[2 * i].last
      BY <2>1 DEF InOrder
    <3>4. /\ gen[2 * i - 1].first \in Nat /\ gen[2 * i - 1].last \in Nat
          /\ gen[2 * i].first \in Nat /\ gen[2 * i].last \in Nat /\ gen[2 * i].last <= n
      BY <2>1, <2>3 DEF UpTo
    <3>5. gen[2 * i - 1].first <= gen[2 * i].last
      BY <3>2, <3>3, <3>4
    <3> QED BY <2>1, <3>4, <3>5
  <2>5. ASSUME NEW i \in 1..k, NEW j \in 1..k, i < j PROVE p[i].last < p[j].first
    <3>1. 2 * i < 2 * j - 1
      BY <2>5
    <3> QED BY <2>1, <3>1 DEF InOrder
  <2>6. Before(old, p)
    BY <2>1 DEF Before
  <2>7. InOrder(p) /\ UpTo(p, n)
    BY <2>1, <2>4, <2>5 DEF InOrder, UpTo
  <2> QED BY <1>2, <2>1, <2>2, <2>6, <2>7 DEF k
<1> QED BY <1>1, <1>2

-----------------------------------------------------------------------------
(* Holders *)

Generations == Seq(Seq(Sample))
Holders(L) == {h \in [gens : Generations, total : Int, lone : Nat] : Len(h.gens) = L}

\* A generation that is missing is made, and is empty.
LEMMA GrownDoes ==
    ASSUME NEW gens \in Generations, NEW n \in 1..(Len(gens) + 1)
    PROVE  LET g == Grown(gens, n)
               L == IF n <= Len(gens) THEN Len(gens) ELSE Len(gens) + 1
           IN  /\ g \in Generations /\ Len(g) = L
               /\ \A i \in 1..Len(gens) : g[i] = gens[i]
               /\ n > Len(gens) => g[n] = <<>>
<1>1. <<>> \in Seq(Sample) /\ Len(gens) \in Nat
  BY DEF Generations
<1>2. CASE n <= Len(gens)
  BY <1>1, <1>2 DEF Grown
<1>3. CASE ~ (n <= Len(gens))
  <2>1. n = Len(gens) + 1
    BY <1>1, <1>3
  <2>2. Grown(gens, n) = Append(gens, <<>>)
    BY <1>3 DEF Grown
  <2>3. /\ Append(gens, <<>>) \in Generations /\ Len(Append(gens, <<>>)) = Len(gens) + 1
        /\ \A i \in 1..Len(gens) : Append(gens, <<>>)[i] = gens[i]
        /\ Append(gens, <<>>)[Len(gens) + 1] = <<>>
    BY <1>1 DEF Generations
  <2> QED BY <1>1, <1>3, <2>1, <2>2, <2>3
<1> QED BY <1>2, <1>3

\* One generation is moved into the next, and the count falls by what it lost.
LEMMA CompactGenDoes ==
    ASSUME NEW L \in Nat \ {0}, NEW h \in Holders(L), NEW n \in 1..L
    PROVE  LET c == CompactGen(h, n)
               from == h.gens[n]
               onto == IF n < L THEN h.gens[n + 1] ELSE <<>>
           IN  /\ Halved(from) \in Seq(Sample) => c \in Holders(IF n < L THEN L ELSE L + 1)
               /\ c.gens[n] = <<>>
               /\ c.gens[n + 1] = onto \o Halved(from)
               /\ \A i \in 1..L : i \notin {n, n + 1} => c.gens[i] = h.gens[i]
               /\ Len(Halved(from)) = (IF Len(from) = 1 THEN 1 ELSE Len(from) \div 2) =>
                    c.total + c.lone = h.total + h.lone + Len(Halved(from)) - Len(from)
<1> DEFINE c == CompactGen(h, n)
           g == Grown(h.gens, n + 1)
           from == g[n]
           K == IF n < L THEN L ELSE L + 1
           d == [g EXCEPT ![n] = <<>>, ![n + 1] = @ \o Halved(from)]
<1>1. /\ h.gens \in Generations /\ h.total \in Int /\ h.lone \in Nat /\ Len(h.gens) = L
  BY DEF Holders
<1>2. n + 1 \in 1..(L + 1) /\ (n + 1 <= L <=> n < L) /\ n \in 1..L /\ n # n + 1
  OBVIOUS
<1>3. /\ g \in Generations /\ Len(g) = K
      /\ \A i \in 1..L : g[i] = h.gens[i]
      /\ n + 1 > L => g[n + 1] = <<>>
  BY <1>1, <1>2, GrownDoes
<1>4. c = [gens  |-> d,
           total |-> h.total + Len(from) \div 2 - Len(from),
           lone  |-> h.lone + IF Len(from) = 1 THEN 1 ELSE 0]
  BY DEF CompactGen, Halved
<1>5. K \in Nat /\ n \in 1..K /\ n + 1 \in 1..K /\ DOMAIN g = 1..K
  BY <1>2, <1>3 DEF Generations
<1>6. from = h.gens[n] /\ from \in Seq(Sample) /\ g[n + 1] \in Seq(Sample)
  BY <1>2, <1>3, <1>5 DEF Generations
<1> HIDE DEF g, K
<1>7. /\ d[n] = <<>> /\ d[n + 1] = g[n + 1] \o Halved(from)
      /\ \A i \in 1..K : i \notin {n, n + 1} => d[i] = g[i]
  BY <1>2, <1>5
<1>8. ASSUME Halved(from) \in Seq(Sample) PROVE d \in Generations /\ Len(d) = K
  <2>1. g[n + 1] \o Halved(from) \in Seq(Sample) /\ <<>> \in Seq(Sample)
    BY <1>6, <1>8
  <2>2. g \in [1..K -> Seq(Sample)]
    BY <1>3 DEF Generations
  <2>3. d \in [1..K -> Seq(Sample)]
    <3> HIDE DEF from
    <3> QED BY <1>5, <2>1, <2>2
  <2> HIDE DEF d
  <2> QED BY <1>5, <2>3 DEF Generations
<1>9. (n < L => g[n + 1] = h.gens[n + 1]) /\ (~ (n < L) => g[n + 1] = <<>>)
  BY <1>2, <1>3
<1>10. /\ c.gens = d
       /\ c.total = h.total + Len(from) \div 2 - Len(from)
       /\ c.lone = h.lone + IF Len(from) = 1 THEN 1 ELSE 0
  BY <1>4
<1>11. Len(from) \in Nat
  BY <1>6
<1> HIDE DEF d, from, c
<1>12. Halved(from) \in Seq(Sample) => c \in Holders(K)
  <2>1. c = [gens |-> c.gens, total |-> c.total, lone |-> c.lone]
    BY <1>4, <1>10
  <2>2. c.total \in Int /\ c.lone \in Nat
    BY <1>1, <1>10, <1>11
  <2> QED BY <1>8, <1>10, <2>1, <2>2 DEF Holders
<1>13. Len(Halved(from)) = (IF Len(from) = 1 THEN 1 ELSE Len(from) \div 2) =>
         c.total + c.lone = h.total + h.lone + Len(Halved(from)) - Len(from)
  <2>1. CASE Len(from) = 1
    BY <1>1, <1>10, <1>11, <2>1
  <2>2. CASE Len(from) # 1
    BY <1>1, <1>10, <1>11, <2>2
  <2> QED BY <2>1, <2>2
<1>14. \A i \in 1..L : i \in 1..K
  BY <1>2 DEF K
<1> QED BY <1>3, <1>6, <1>7, <1>9, <1>10, <1>12, <1>13, <1>14 DEF c, K

\* The first n of L generations have been moved: what is held, the oldest first, is in order,
\* and the oldest generation has at least m samples.
Moved(h, n, L, m) ==
    LET young == h.gens[n + 1]
        old   == IF n + 1 < L THEN h.gens[L] ELSE <<>>
    IN  /\ h \in Holders(L)
        /\ \A i \in 1..L : i \notin {n + 1, L} => h.gens[i] = <<>>
        /\ InOrder(young) /\ InOrder(old) /\ Before(old, young)
        /\ UpTo(young, time) /\ UpTo(old, time)
        /\ Len(young) + Len(old) = h.total + h.lone
        /\ m <= Len(h.gens[L])

\* When a generation is moved, the samples are all in the next one and the oldest.
LEMMA MovedOnce ==
    ASSUME NEW L \in Nat \ {0}, NEW n \in 1..(L - 1), NEW m \in Nat, NEW h,
           Moved(h, n - 1, L, m), time \in Nat
    PROVE  Moved(CompactGen(h, n), n, L, m)
<1> DEFINE c == CompactGen(h, n)
           young == h.gens[n]
           old == h.gens[L]
           halved == Halved(young)
<1>0. n - 1 + 1 = n /\ n < L /\ n \in 1..L /\ n + 1 \in 1..L /\ L \in 1..L /\ n # n + 1 /\ n # L
  OBVIOUS
<1>1. /\ h \in Holders(L)
      /\ \A i \in 1..L : i \notin {n, L} => h.gens[i] = <<>>
      /\ InOrder(young) /\ InOrder(old) /\ Before(old, young)
      /\ UpTo(young, time) /\ UpTo(old, time)
      /\ Len(young) + Len(old) = h.total + h.lone
      /\ m <= Len(old)
  BY <1>0 DEF Moved
<1>2. /\ h.gens \in Generations /\ Len(h.gens) = L /\ h.total \in Int /\ h.lone \in Nat
  BY <1>1 DEF Holders
<1>3. young \in Seq(Sample) /\ old \in Seq(Sample) /\ h.gens[n + 1] \in Seq(Sample)
  BY <1>0, <1>2 DEF Generations
<1> HIDE DEF c, young, old, halved
<1>4. /\ halved \in Seq(Sample)
      /\ Len(halved) = IF Len(young) = 1 THEN 1 ELSE Len(young) \div 2
      /\ InOrder(halved) /\ Before(old, halved) /\ UpTo(halved, time)
  BY <1>1, <1>3, HalvedDoes DEF halved
<1>5. /\ c \in Holders(L)
      /\ c.gens[n] = <<>>
      /\ c.gens[n + 1] = h.gens[n + 1] \o halved
      /\ \A i \in 1..L : i \notin {n, n + 1} => c.gens[i] = h.gens[i]
      /\ c.total + c.lone = h.total + h.lone + Len(halved) - Len(young)
  BY <1>0, <1>1, <1>4, CompactGenDoes DEF c, young, halved
<1>6. Len(young) \in Nat /\ Len(old) \in Nat /\ Len(halved) \in Nat
  BY <1>3, <1>4
<1>7. c.total + c.lone = Len(halved) + Len(old)
  <2>1. c.total \in Int /\ c.lone \in Int
    BY <1>5 DEF Holders
  <2> QED BY <1>1, <1>2, <1>5, <1>6, <2>1
<1>8. ASSUME n + 1 < L PROVE Moved(c, n, L, m)
  <2>1. h.gens[n + 1] = <<>> /\ n + 1 # L
    BY <1>0, <1>1, <1>8
  <2>2. c.gens[n + 1] = halved
    BY <1>4, <1>5, <2>1
  <2>3. c.gens[L] = old
    BY <1>0, <1>5, <2>1 DEF old
  <2>4. \A i \in 1..L : i \notin {n + 1, L} => c.gens[i] = <<>>
    BY <1>1, <1>5
  <2>5. /\ InOrder(c.gens[n + 1]) /\ InOrder(c.gens[L]) /\ Before(c.gens[L], c.gens[n + 1])
        /\ UpTo(c.gens[n + 1], time) /\ UpTo(c.gens[L], time)
        /\ Len(c.gens[n + 1]) + Len(c.gens[L]) = c.total + c.lone
        /\ m <= Len(c.gens[L])
    BY <1>1, <1>4, <1>7, <2>2, <2>3
  <2> QED BY <1>5, <1>8, <2>4, <2>5 DEF Moved
<1>9. ASSUME n + 1 = L PROVE Moved(c, n, L, m)
  <2>1. c.gens[n + 1] = old \o halved
    BY <1>5, <1>9 DEF old
  <2>2. /\ InOrder(old \o halved) /\ UpTo(old \o halved, time)
    BY <1>1, <1>3, <1>4, ConcatInOrder
  <2>3. Len(old \o halved) = Len(old) + Len(halved)
    BY <1>3, <1>4, Concatenated
  <2>4. \A i \in 1..L : i \notin {n + 1, L} => c.gens[i] = <<>>
    BY <1>1, <1>5
  <2>5. InOrder(<<>>) /\ Before(<<>>, old \o halved) /\ UpTo(<<>>, time) /\ Len(<<>>) = 0
    BY DEF InOrder, Before, UpTo
  <2>6. Len(old \o halved) + 0 = c.total + c.lone /\ m <= Len(old \o halved)
    BY <1>1, <1>6, <1>7, <2>3
  <2> DEFINE all == old \o halved
  <2>7. c.gens[n + 1] = all /\ c.gens[L] = all /\ ~ (n + 1 < L)
    BY <1>9, <2>1
  <2> HIDE DEF all
  <2>8. /\ InOrder(all) /\ UpTo(all, time) /\ Before(<<>>, all)
        /\ Len(all) + Len(<<>>) = c.total + c.lone /\ m <= Len(all)
    BY <2>2, <2>5, <2>6 DEF all
  <2> QED BY <1>5, <2>4, <2>5, <2>7, <2>8 DEF Moved
<1> QED BY <1>0, <1>8, <1>9 DEF c

\* All generations but the oldest are moved, one after the other.
Younger(h) ==
    LET moved[n \in 0..(Len(h.gens) - 1)] == IF n = 0 THEN h ELSE CompactGen(moved[n - 1], n)
    IN  moved[Len(h.gens) - 1]

\* A move between generations that there are makes no more.
LEMMA HoldersClosed ==
    ASSUME NEW L \in Nat \ {0}, NEW n \in 1..(L - 1), NEW h \in Holders(L)
    PROVE  CompactGen(h, n) \in Holders(L)
<1>1. n \in 1..L /\ n < L
  OBVIOUS
<1>2. h.gens[n] \in Seq(Sample)
  BY <1>1 DEF Holders, Generations
<1>3. Halved(h.gens[n]) \in Seq(Sample)
  BY <1>2, PairsDo DEF Halved
<1> QED BY <1>1, <1>3, CompactGenDoes

\* After all moves but the last, all samples are in the oldest generation.
LEMMA YoungerMoved ==
    ASSUME NEW L \in Nat \ {0}, NEW m \in Nat, NEW h, Moved(h, 0, L, m), time \in Nat
    PROVE  Moved(Younger(h), L - 1, L, m)
<1> DEFINE N == L - 1
           S == Holders(L)
           f == [n \in 1..N |-> [x \in S |-> CompactGen(x, n)]]
           Body(g) == [n \in 0..N |-> IF n = 0 THEN h ELSE CompactGen(g[n - 1], n)]
           moved == CHOOSE g : g = Body(g)
<1>1. N \in Nat /\ h \in S /\ Len(h.gens) = L
  BY DEF Moved, Holders
<1>2. f \in [1..N -> [S -> S]]
  BY HoldersClosed
<1>3. PICK g : g \in [0..N -> S] /\ g[0] = h /\ \A i \in 1..N : g[i] = f[i][g[i - 1]]
  <2> HIDE DEF f, N, S
  <2>1. PICK g : g \in Chains(N, N, S, h, f)
    BY <1>1, <1>2, Iterated
  <2> QED BY <2>1 DEF Chains
<1>4. \A n \in 1..N : g[n] = CompactGen(g[n - 1], n)
  <2> SUFFICES ASSUME NEW n \in 1..N PROVE g[n] = CompactGen(g[n - 1], n)
    OBVIOUS
  <2>1. n - 1 \in 0..N
    BY <1>1
  <2>2. f[n] = [x \in S |-> CompactGen(x, n)]
    OBVIOUS
  <2>3. g[n - 1] \in S
    BY <1>3, <2>1
  <2> HIDE DEF f
  <2>4. g[n] = f[n][g[n - 1]]
    BY <1>3
  <2> QED BY <2>2, <2>3, <2>4
<1>5. g = Body(g)
  <2>1. \A n \in 0..N : g[n] = IF n = 0 THEN h ELSE CompactGen(g[n - 1], n)
    <3> HIDE DEF N
    <3>1. \A n \in 0..N : n = 0 \/ n \in 1..N
      BY <1>1
    <3> QED BY <1>3, <1>4, <3>1
  <2> HIDE DEF N
  <2> QED BY <1>3, <2>1
<1>6. moved = Body(moved)
  <2> HIDE DEF Body
  <2> QED BY <1>5
<1>7. Younger(h) = moved[N]
  BY <1>1 DEF Younger
<1> HIDE DEF moved
<1> DEFINE P == {n \in 0..N : Moved(moved[n], n, L, m)}
<1>8. 0 \in P
  <2>1. moved[0] = h
    BY <1>1, <1>6
  <2> QED BY <1>1, <2>1
<1>9. ASSUME NEW n \in 1..N, n - 1 \in P PROVE n \in P
  <2>1. moved[n] = CompactGen(moved[n - 1], n)
    BY <1>1, <1>6
  <2>2. Moved(moved[n - 1], n - 1, L, m)
    BY <1>9
  <2>3. Moved(CompactGen(moved[n - 1], n), n, L, m)
    BY <2>2, MovedOnce
  <2> QED BY <2>1, <2>3
<1>10. P = 0..N
  <2>1. P \in SUBSET (0..N)
    OBVIOUS
  <2> HIDE DEF P
  <2> QED BY <1>1, <1>8, <1>9, <2>1, Reached
<1>11. N \in P
  BY <1>1, <1>10
<1> QED BY <1>7, <1>11

\* Half of more than three quarters of the limit is a third of it.
LEMMA HalfIsEnough ==
    ASSUME NEW limit \in Nat \ {0, 1}, NEW x \in Nat, 3 * limit < 4 * x
    PROVE  x # 1 /\ 3 * (x \div 2) >= limit
<1> DEFINE k == x \div 2
<1>1. k \in Nat /\ (x = 2 * k \/ x = 2 * k + 1)
  OBVIOUS
<1> HIDE DEF k
<1>2. x # 1 /\ 3 * k >= limit
  BY <1>1
<1> QED BY <1>2 DEF k

\* All is in the oldest generation after a compaction, and it is a third of the limit.
LEMMA CompactDoes ==
    ASSUME NEW L \in Nat \ {0}, NEW m \in Nat, NEW h, Moved(h, 0, L, m), time \in Nat,
           maxSamples \in Nat \ {0, 1}, 3 * m >= maxSamples, L = 1 => m >= maxSamples
    PROVE  \E K \in Nat \ {0, 1} :
             /\ Compact(h) \in Holders(K)
             /\ \A i \in 1..K : i # K => Compact(h).gens[i] = <<>>
             /\ InOrder(Compact(h).gens[K]) /\ UpTo(Compact(h).gens[K], time)
             /\ Len(Compact(h).gens[K]) = Compact(h).total + Compact(h).lone
             /\ 3 * Len(Compact(h).gens[K]) >= maxSamples
<1> DEFINE y == Younger(h)
           x == y.gens[L]
           c == CompactGen(y, L)
<1>1. Len(h.gens) = L
  BY DEF Moved, Holders
<1>2. Compact(h) = IF 3 * maxSamples < 4 * Len(x) THEN c ELSE y
  BY <1>1 DEF Compact, Younger
<1>3. Moved(y, L - 1, L, m)
  BY YoungerMoved
<1> HIDE DEF y
<1>4. /\ y \in Holders(L)
      /\ \A i \in 1..L : i # L => y.gens[i] = <<>>
      /\ InOrder(x) /\ UpTo(x, time) /\ m <= Len(x)
      /\ Len(x) = y.total + y.lone
  <2>1. L - 1 + 1 = L /\ ~ (L < L) /\ Len(<<>>) = 0
    OBVIOUS
  <2>2. /\ y \in Holders(L)
        /\ \A i \in 1..L : i \notin {L, L} => y.gens[i] = <<>>
        /\ InOrder(x) /\ UpTo(x, time) /\ m <= Len(x)
        /\ Len(x) + 0 = y.total + y.lone
    BY <1>3, <2>1 DEF Moved
  <2>3. x \in Seq(Sample)
    BY <2>2 DEF Holders, Generations
  <2> HIDE DEF x
  <2>4. Len(x) \in Nat
    BY <2>3
  <2> QED BY <2>2, <2>4
<1>5. x \in Seq(Sample)
  BY <1>4 DEF Holders, Generations
<1>6. L \in 1..L /\ ~ (L < L) /\ L + 1 \in Nat \ {0, 1}
  OBVIOUS
<1> HIDE DEF x, c
<1>7. Len(x) \in Nat
  BY <1>5
<1>8. CASE 3 * maxSamples < 4 * Len(x)
  <2>1. Len(x) # 1 /\ 3 * (Len(x) \div 2) >= maxSamples
    BY <1>7, <1>8, HalfIsEnough
  <2>2. InOrder(<<>>) /\ Before(<<>>, x) /\ <<>> \in Seq(Sample)
    BY DEF InOrder, Before
  <2> DEFINE halved == Halved(x)
  <2>3. /\ halved \in Seq(Sample) /\ Len(halved) = Len(x) \div 2
        /\ InOrder(halved) /\ UpTo(halved, time)
    BY <1>4, <1>5, <2>1, <2>2, HalvedDoes
  <2> HIDE DEF halved
  <2>4. /\ c \in Holders(L + 1)
        /\ c.gens[L] = <<>>
        /\ c.gens[L + 1] = <<>> \o halved
        /\ \A i \in 1..L : i \notin {L, L + 1} => c.gens[i] = y.gens[i]
        /\ c.total + c.lone = y.total + y.lone + Len(halved) - Len(x)
    BY <1>4, <1>6, <2>1, <2>3, CompactGenDoes DEF c, x, halved
  <2>5. c.gens[L + 1] = halved
    BY <2>3, <2>4
  <2>6. Len(halved) = c.total + c.lone
    <3>1. Len(halved) \in Nat /\ y.total \in Int /\ y.lone \in Int
      BY <1>4, <2>3 DEF Holders
    <3>3. Len(x) = y.total + y.lone
      BY <1>4
    <3>4. c.total + c.lone = y.total + y.lone + Len(halved) - Len(x)
      BY <2>4
    <3>5. c.total + c.lone = Len(x) + Len(halved) - Len(x)
      BY <3>3, <3>4
    <3>6. Len(x) + Len(halved) - Len(x) = Len(halved)
      BY <1>7, <3>1
    <3> QED BY <3>5, <3>6
  <2>7. ASSUME NEW i \in 1..(L + 1), i # L + 1 PROVE c.gens[i] = <<>>
    <3>1. i \in 1..L
      BY <2>7
    <3> QED BY <1>4, <2>4, <3>1
  <2>8. Compact(h) = c
    BY <1>2, <1>8
  <2> QED BY <1>6, <2>1, <2>3, <2>4, <2>5, <2>6, <2>7, <2>8
<1>9. CASE ~ (3 * maxSamples < 4 * Len(x))
  <2>1. Compact(h) = y
    BY <1>2, <1>9
  <2>2. 3 * Len(x) >= maxSamples
    BY <1>4, <1>7
  <2>3. L # 1
    BY <1>4, <1>7, <1>9
  <2> QED BY <1>4, <2>1, <2>2, <2>3 DEF x
<1> QED BY <1>8, <1>9

-----------------------------------------------------------------------------
(* The samples that are returned *)

Held(gens) == FlattenSeq(Reverse(gens))

\* What is returned are the samples of the oldest generation and those of the youngest.
LEMMA HeldIs ==
    ASSUME NEW gens \in Generations,
           \A i \in 1..Len(gens) : i \notin {1, Len(gens)} => gens[i] = <<>>
    PROVE  Held(gens) = Old(gens) \o Young(gens)
<1> DEFINE L == Len(gens)
           back == Reverse(gens)
<1>1. L \in Nat /\ Len(back) = L /\ \A i \in 1..L : back[i] = gens[(L - i) + 1]
  BY DEF Reverse, Generations
<1>2. CASE L = 0
  <2>1. back = <<>>
    BY <1>1, <1>2 DEF Reverse
  <2>2. Held(gens) = <<>> /\ Old(gens) = <<>> /\ Young(gens) = <<>>
    BY <1>1, <1>2, <2>1 DEF Held, FlattenSeq, Old, Young
  <2> QED BY <2>2
<1>3. CASE L > 0
  <2> DEFINE Body(g) == [i \in 1..L |-> IF i = 1 THEN back[i] ELSE g[i - 1] \o back[i]]
             flat == CHOOSE g : g = Body(g)
             w == [i \in 1..L |-> IF i = L /\ L > 1 THEN gens[L] \o gens[1] ELSE gens[L]]
  <2> HIDE DEF back
  <2>1. Held(gens) = flat[L]
    BY <1>1, <1>3 DEF Held, FlattenSeq, back
  <2>2. \A i \in 1..L : gens[i] \in Seq(Sample)
    BY DEF Generations
  <2>3. 1 \in 1..L /\ L \in 1..L
    BY <1>1, <1>3
  <2> HIDE DEF L
  <2>4. ASSUME NEW i \in 1..L, i # 1 PROVE w[i] = w[i - 1] \o back[i]
    <3>1. i - 1 \in 1..L /\ i - 1 # L /\ (L - i) + 1 \in 1..L /\ (L - i) + 1 # L /\ L > 1
      BY <1>1, <2>4
    <3>2. w[i - 1] = gens[L]
      BY <3>1
    <3>3. CASE i = L
      <4>1. (L - i) + 1 = 1
        BY <1>1, <3>3
      <4> QED BY <1>1, <3>1, <3>2, <3>3, <4>1
    <3>4. CASE i # L
      <4>1. (L - i) + 1 \notin {1, L}
        BY <1>1, <3>1, <3>4
      <4>2. back[i] = <<>>
        BY <1>1, <3>1, <4>1 DEF L
      <4>3. w[i] = gens[L] /\ gens[L] \o <<>> = gens[L]
        BY <2>2, <2>3, <3>4
      <4> QED BY <3>2, <4>2, <4>3
    <3> QED BY <3>3, <3>4
  <2>5. w[1] = back[1]
    <3>1. (L - 1) + 1 = L
      BY <1>1
    <3>2. back[1] = gens[L]
      BY <1>1, <2>3, <3>1
    <3>3. ~ (1 = L /\ L > 1)
      BY <1>1
    <3>4. w[1] = gens[L]
      BY <2>3, <3>3
    <3> QED BY <3>2, <3>4
  <2>6. w = Body(w)
    <3>1. \A i \in 1..L : w[i] = IF i = 1 THEN back[i] ELSE w[i - 1] \o back[i]
      <4> HIDE DEF w
      <4> QED BY <2>4, <2>5
    <3> QED BY <3>1
  <2>7. flat = Body(flat)
    <3> HIDE DEF Body, w
    <3> QED BY <2>6
  <2> HIDE DEF flat
  <2> DEFINE P == {i \in 0..L : i > 0 => flat[i] = w[i]}
  <2>8. 0 \in P
    BY <1>1
  <2>9. ASSUME NEW i \in 1..L, i - 1 \in P PROVE i \in P
    <3>1. CASE i = 1
      <4>1. flat[1] = back[1]
        BY <2>3, <2>7
      <4> HIDE DEF w
      <4> QED BY <2>5, <3>1, <4>1
    <3>2. CASE i # 1
      <4>1. flat[i] = flat[i - 1] \o back[i]
        BY <2>7, <3>2
      <4>2. i - 1 > 0
        BY <3>2
      <4>3. flat[i - 1] = w[i - 1]
        BY <2>9, <4>2
      <4>4. flat[i] = w[i]
        <5> HIDE DEF w, P
        <5> QED BY <2>4, <3>2, <4>1, <4>3
      <4> HIDE DEF w
      <4> QED BY <1>1, <4>4
    <3> QED BY <3>1, <3>2
  <2>10. P = 0..L
    <3>1. P \in SUBSET (0..L)
      OBVIOUS
    <3> HIDE DEF P
    <3> QED BY <1>1, <2>8, <2>9, <3>1, Reached
  <2>11. flat[L] = w[L]
    <3>1. L \in P
      <4> HIDE DEF P
      <4> QED BY <1>1, <2>10
    <3> HIDE DEF w
    <3> QED BY <1>1, <1>3, <3>1
  <2>12. w[L] = Old(gens) \o Young(gens)
    <3>1. CASE L = 1
      <4>1. Old(gens) = <<>> /\ Young(gens) = gens[1] /\ w[L] = gens[1]
        BY <2>3, <3>1 DEF Old, Young, L
      <4>2. <<>> \o gens[1] = gens[1]
        BY <2>2, <2>3
      <4> QED BY <4>1, <4>2
    <3>2. CASE L > 1
      <4>1. Old(gens) = gens[L] /\ Young(gens) = gens[1]
        BY <1>1, <3>2 DEF Old, Young, L
      <4>2. w[L] = gens[L] \o gens[1]
        BY <2>3, <3>2
      <4> QED BY <4>1, <4>2
    <3>3. L = 1 \/ L > 1
      BY <1>1, <1>3
    <3> QED BY <3>1, <3>2, <3>3
  <2> QED BY <2>1, <2>11, <2>12
<1> QED BY <1>1, <1>2, <1>3

-----------------------------------------------------------------------------
(* Adding a sample *)

\* Only the youngest and the oldest generation hold samples, in the order of the measurements.
Orderly(gens, n) ==
    /\ \A i \in 1..Len(gens) : i \notin {1, Len(gens)} => gens[i] = <<>>
    /\ InOrder(Old(gens)) /\ InOrder(Young(gens)) /\ Before(Old(gens), Young(gens))
    /\ UpTo(Old(gens), n) /\ UpTo(Young(gens), n)

\* A sample is pushed behind all others.
LEMMA PushedDoes ==
    ASSUME NEW K \in Nat \ {0}, NEW r \in Holders(K), NEW t \in Nat, Orderly(r.gens, t)
    PROVE  LET sample == [first |-> t + 1, last |-> t + 1]
               p == Pushed(r, sample)
           IN  /\ p.gens \in Generations /\ Len(p.gens) = K
               /\ Orderly(p.gens, t + 1)
               /\ Old(p.gens) = Old(r.gens)
               /\ Young(p.gens) \in Seq(Sample)
               /\ Len(Young(p.gens)) = Len(Young(r.gens)) + 1
               /\ Young(p.gens)[Len(Young(p.gens))] = sample
               /\ p.total = r.total + 1 /\ p.lone = r.lone
<1> DEFINE sample == [first |-> t + 1, last |-> t + 1]
           p == Pushed(r, sample)
           g == r.gens
           y == g[1]
           z == Append(y, sample)
           e == [g EXCEPT ![1] = z]
<1>1. g \in Generations /\ Len(g) = K /\ r.total \in Int /\ r.lone \in Nat
  BY DEF Holders
<1>2. 1 \in 1..K /\ DOMAIN g = 1..K /\ g \in [1..K -> Seq(Sample)]
  BY <1>1 DEF Generations
<1>3. y \in Seq(Sample) /\ sample \in Sample /\ sample.first = t + 1 /\ sample.last = t + 1
  BY <1>2 DEF Sample
<1> HIDE DEF sample
<1>4. r \in [gens : Generations, total : Int, lone : Nat]
  BY DEF Holders
<1>5. p.gens = e /\ p.total = r.total + 1 /\ p.lone = r.lone
  BY <1>4 DEF Pushed
<1> HIDE DEF p, y
<1>6. /\ z \in Seq(Sample) /\ Len(z) = Len(y) + 1 /\ Len(y) \in Nat
      /\ DOMAIN y = 1..Len(y) /\ DOMAIN z = 1..(Len(y) + 1)
      /\ \A i \in 1..Len(y) : z[i] = y[i] /\ z[i] \in Sample
      /\ z[Len(y) + 1] = sample
  <2> HIDE DEF z
  <2>1. z = Append(y, sample)
    BY DEF z
  <2> QED BY <1>3, <2>1
<1> HIDE DEF z
<1>7. /\ e \in [1..K -> Seq(Sample)] /\ e[1] = z
      /\ \A i \in 1..K : i # 1 => e[i] = g[i]
  BY <1>2, <1>6
<1> HIDE DEF e
<1>8. e \in Generations /\ Len(e) = K
  BY <1>7 DEF Generations
<1> HIDE DEF g
<1>9. Young(e) = z /\ Young(g) = y
  BY <1>1, <1>7, <1>8 DEF Young, y
<1>10. Old(e) = Old(g)
  BY <1>1, <1>7, <1>8 DEF Old
<1>11. Orderly(g, t)
  BY DEF g
<1>12. /\ InOrder(Old(g)) /\ InOrder(y) /\ Before(Old(g), y) /\ UpTo(Old(g), t) /\ UpTo(y, t)
       /\ \A i \in 1..K : i \notin {1, K} => g[i] = <<>>
  BY <1>1, <1>9, <1>11 DEF Orderly
<1>13. Old(g) \in Seq(Sample)
  <2>1. K \in 1..K /\ <<>> \in Seq(Sample)
    OBVIOUS
  <2> QED BY <1>1, <2>1 DEF Old, Generations
<1> DEFINE o == Old(g)
<1> HIDE DEF o
<1>14. \A i \in DOMAIN o : o[i].last <= t /\ o[i].last \in Nat
  <2>1. o \in Seq(Sample) /\ UpTo(o, t)
    BY <1>12, <1>13 DEF o
  <2>2. \A i \in DOMAIN o : o[i] \in Sample
    BY <2>1
  <2> QED BY <2>1, <2>2 DEF UpTo, Sample
<1>15. \A i \in 1..(Len(y) + 1) : i \in 1..Len(y) \/ i = Len(y) + 1
  BY <1>6
<1>16. \A i \in 1..Len(y) : z[i].last <= t /\ z[i].last \in Nat /\ z[i].first <= z[i].last
  BY <1>6, <1>12 DEF UpTo, InOrder, Sample
<1>17. InOrder(z)
  <2>1. ASSUME NEW i \in DOMAIN z PROVE z[i].first <= z[i].last
    BY <1>3, <1>6, <1>15, <1>16
  <2>2. ASSUME NEW i \in DOMAIN z, NEW j \in DOMAIN z, i < j PROVE z[i].last < z[j].first
    <3>1. i \in 1..Len(y)
      BY <1>6, <1>15, <2>2
    <3>2. CASE j \in 1..Len(y)
      BY <1>6, <1>12, <2>2, <3>1, <3>2 DEF InOrder
    <3>3. CASE j = Len(y) + 1
      BY <1>3, <1>6, <1>16, <3>1, <3>3
    <3> QED BY <1>6, <1>15, <3>2, <3>3
  <2> QED BY <2>1, <2>2 DEF InOrder
<1>18. UpTo(z, t + 1)
  BY <1>3, <1>6, <1>15, <1>16 DEF UpTo
<1>19. Before(o, z)
  BY <1>3, <1>6, <1>12, <1>14, <1>15 DEF Before, o
<1>20. UpTo(o, t + 1)
  BY <1>14 DEF UpTo
<1>21. Orderly(e, t + 1)
  BY <1>7, <1>8, <1>9, <1>10, <1>12, <1>17, <1>18, <1>19, <1>20 DEF Orderly, o
<1> QED BY <1>5, <1>6, <1>8, <1>9, <1>10, <1>21 DEF p, g, sample

-----------------------------------------------------------------------------
HolderTypeOK ==
    /\ maxSamples \in Limits /\ sampleClass \in SampleClasses
    /\ time \in Nat /\ lone \in Nat /\ totalSize \in Int /\ running \in BOOLEAN
    /\ generations \in Generations

\* A third of the limit is kept from the first compaction on, everything before.
Enough ==
    /\ Len(generations) <= 1 => Len(Young(generations)) = time /\ time <= maxSamples /\ lone = 0
    /\ Len(generations) >= 2 /\ running => 3 * Len(Old(generations)) >= maxSamples

HolderInv ==
    /\ HolderTypeOK
    /\ Orderly(generations, time)
    /\ IF time = 0 THEN generations = <<>>
       ELSE /\ Len(Young(generations)) > 0
            /\ Young(generations)[Len(Young(generations))] = [first |-> time, last |-> time]
    /\ Len(Old(generations)) + Len(Young(generations)) = totalSize + lone
    /\ Enough
    /\ ~ running =>
         sampleClass = "DataPoint" /\ time = maxSamples /\ Len(Young(generations)) = time
    /\ sampleClass = "DataPoint" /\ running => Len(generations) <= 1

\* The limit is that of a holder.
LEMMA HolderLimit ==
    ASSUME HolderTypeOK
    PROVE  maxSamples \in Nat \ {0, 1}
  BY HolderAssumption DEF HolderTypeOK

\* The oldest and the youngest generation are samples, or there is none.
LEMMA GenerationsHeld ==
    ASSUME NEW gens \in Generations
    PROVE  Old(gens) \in Seq(Sample) /\ Young(gens) \in Seq(Sample) /\ Len(gens) \in Nat
<1>1. <<>> \in Seq(Sample) /\ Len(gens) \in Nat
  BY DEF Generations
<1>2. Len(gens) >= 1 => 1 \in 1..Len(gens) /\ Len(gens) \in 1..Len(gens)
  BY <1>1
<1>3. \A i \in 1..Len(gens) : gens[i] \in Seq(Sample)
  BY DEF Generations
<1> QED BY <1>1, <1>2, <1>3 DEF Old, Young

\* There is room for the sample, be it after a compaction.
Roomy == LET holder == [gens |-> Grown(generations, 1), total |-> totalSize, lone |-> lone]
         IN  IF IsFull THEN Compact(holder) ELSE holder

\* Then the samples are in order, they are as many as is counted, and there are enough of them;
\* a third of the limit in the oldest generation, if there is one besides the youngest.
LEMMA RoomyDoes ==
    ASSUME HolderInv, running, IsFull => AverageIsDefined
    PROVE  \E K \in Nat \ {0} :
             /\ Roomy \in Holders(K)
             /\ Orderly(Roomy.gens, time)
             /\ Len(Old(Roomy.gens)) + Len(Young(Roomy.gens)) = Roomy.total + Roomy.lone
             /\ K = 1 => Len(Young(Roomy.gens)) = time /\ time < maxSamples /\ Roomy.lone = 0
             /\ K >= 2 => 3 * Len(Old(Roomy.gens)) >= maxSamples
             /\ sampleClass = "DataPoint" => K = 1
<1> DEFINE holder == [gens |-> Grown(generations, 1), total |-> totalSize, lone |-> lone]
           L == Len(generations)
<1>1. /\ generations \in Generations /\ totalSize \in Int /\ lone \in Nat /\ time \in Nat
      /\ L \in Nat /\ maxSamples \in Nat \ {0, 1}
      /\ Old(generations) \in Seq(Sample) /\ Young(generations) \in Seq(Sample)
  BY HolderLimit, GenerationsHeld DEF HolderInv, HolderTypeOK
<1>2. /\ Len(Old(generations)) + Len(Young(generations)) = totalSize + lone
      /\ Orderly(generations, time)
      /\ L <= 1 => Len(Young(generations)) = time /\ time <= maxSamples /\ lone = 0
      /\ L >= 2 => 3 * Len(Old(generations)) >= maxSamples
      /\ sampleClass = "DataPoint" => L <= 1
  BY DEF HolderInv, Enough
<1>3. CASE IsFull
  <2>1. totalSize >= maxSamples
    BY <1>3 DEF IsFull
  <2>2. L # 0
    <3>1. SUFFICES ASSUME L = 0 PROVE FALSE
      OBVIOUS
    <3>2. Old(generations) = <<>> /\ Young(generations) = <<>>
      BY <3>1 DEF Old, Young
    <3>3. totalSize + lone = 0
      BY <1>2, <3>2
    <3> QED BY <1>1, <2>1, <3>3
  <2>3. Grown(generations, 1) = generations
    BY <1>1, <2>2 DEF Grown
  <2> DEFINE m == Len(generations[L])
  <2>4. Young(generations) = generations[1] /\ (L = 1 => Old(generations) = <<>>)
        /\ (L >= 2 => Old(generations) = generations[L])
    BY <1>1, <2>2 DEF Old, Young
  <2>5. /\ holder \in Holders(L) /\ holder.gens = generations
        /\ holder.total = totalSize /\ holder.lone = lone
    BY <1>1, <2>3 DEF Holders
  <2> HIDE DEF L, holder
  <2>6. m \in Nat /\ 3 * m >= maxSamples /\ (L = 1 => m >= maxSamples)
    <3>1. CASE L = 1
      <4>1. m = totalSize + lone
        <5>1. Len(<<>>) = 0 /\ Len(generations[1]) \in Nat
          BY <1>1, <2>4
        <5> QED BY <1>2, <2>4, <3>1, <5>1
      <4> QED BY <1>1, <2>1, <4>1
    <3>2. CASE L >= 2
      BY <1>1, <1>2, <2>4, <3>2
    <3> QED BY <1>1, <2>2, <3>1, <3>2
  <2>7. Moved(holder, 0, L, m)
    <3> DEFINE old == IF 0 + 1 < L THEN generations[L] ELSE <<>>
    <3>1. old = Old(generations)
      BY <1>1, <2>2, <2>4
    <3>2. 0 + 1 = 1 /\ \A i \in 1..L : i \notin {1, L} => generations[i] = <<>>
      BY <1>2 DEF Orderly, L
    <3>3. Len(generations[1]) + Len(old) = totalSize + lone
      <4>1. Len(generations[1]) \in Nat /\ Len(Old(generations)) \in Nat
        BY <1>1, <2>4
      <4> HIDE DEF old
      <4> QED BY <1>2, <2>4, <3>1, <4>1
    <3>4. /\ InOrder(old) /\ InOrder(generations[1]) /\ Before(old, generations[1])
          /\ UpTo(old, time) /\ UpTo(generations[1], time)
      BY <1>2, <2>4, <3>1 DEF Orderly
    <3> HIDE DEF old
    <3>5. m <= Len(holder.gens[L])
      BY <2>5, <2>6
    <3> QED BY <2>5, <3>2, <3>3, <3>4, <3>5 DEF Moved, old
  <2> DEFINE c == Compact(holder)
  <2>8. PICK K \in Nat \ {0, 1} :
          /\ c \in Holders(K)
          /\ \A i \in 1..K : i # K => c.gens[i] = <<>>
          /\ InOrder(c.gens[K]) /\ UpTo(c.gens[K], time)
          /\ Len(c.gens[K]) = c.total + c.lone
          /\ 3 * Len(c.gens[K]) >= maxSamples
    <3> HIDE DEF m
    <3> QED BY <1>1, <2>2, <2>6, <2>7, CompactDoes
  <2>9. Roomy = c
    BY <1>3 DEF Roomy, holder
  <2> HIDE DEF c
  <2>10. c.gens \in Generations /\ Len(c.gens) = K
    BY <2>8 DEF Holders
  <2>11. Old(c.gens) = c.gens[K] /\ Young(c.gens) = <<>>
    BY <2>8, <2>10 DEF Old, Young
  <2>12. InOrder(<<>>) /\ Before(c.gens[K], <<>>) /\ UpTo(<<>>, time) /\ Len(<<>>) = 0
    BY DEF InOrder, Before, UpTo
  <2>13. Orderly(c.gens, time)
    BY <2>8, <2>10, <2>11, <2>12 DEF Orderly
  <2>14. Len(Old(c.gens)) + Len(Young(c.gens)) = c.total + c.lone
    <3>1. Old(c.gens) \in Seq(Sample)
      BY <2>10, GenerationsHeld
    <3>2. Len(Old(c.gens)) \in Nat
      BY <3>1
    <3> QED BY <2>8, <2>11, <2>12, <3>2
  <2>15. sampleClass # "DataPoint"
    BY <1>3 DEF AverageIsDefined
  <2> QED BY <2>8, <2>9, <2>11, <2>13, <2>14, <2>15
<1>4. CASE ~ IsFull
  <2> DEFINE g == Grown(generations, 1)
             K == IF 1 <= L THEN L ELSE L + 1
  <2>1. totalSize < maxSamples
    BY <1>1, <1>4 DEF IsFull
  <2>2. /\ g \in Generations /\ Len(g) = K
        /\ \A i \in 1..L : g[i] = generations[i]
        /\ 1 > L => g[1] = <<>>
    BY <1>1, GrownDoes
  <2>3. Roomy = [gens |-> g, total |-> totalSize, lone |-> lone]
    BY <1>4 DEF Roomy
  <2> HIDE DEF g
  <2>4. K \in Nat \ {0} /\ (K = 1 <=> L <= 1) /\ (L >= 1 => K = L)
    <3>1. L \in Nat
      BY <1>1
    <3> HIDE DEF L
    <3> QED BY <3>1
  <2> HIDE DEF K, L
  <2>5. Old(g) = Old(generations) /\ Young(g) = Young(generations)
    <3>1. CASE L = 0
      BY <2>2, <2>4, <3>1 DEF Old, Young, L
    <3>2. CASE L >= 1
      <4>1. 1 \in 1..L /\ L \in 1..L
        BY <1>1, <3>2
      <4> QED BY <2>2, <2>4, <3>2, <4>1 DEF Old, Young, L
    <3> QED BY <1>1, <3>1, <3>2
  <2>6. \A i \in 1..K : i \notin {1, K} => g[i] = <<>>
    <3>1. CASE L = 0
      <4>1. K = 1
        BY <2>4, <3>1
      <4> QED BY <4>1
    <3>2. CASE L >= 1
      BY <1>2, <2>2, <2>4, <3>2 DEF Orderly, L
    <3> QED BY <1>1, <3>1, <3>2
  <2>7. Orderly(g, time)
    BY <1>2, <2>2, <2>5, <2>6 DEF Orderly
  <2>8. Roomy \in Holders(K) /\ Roomy.gens = g /\ Roomy.total = totalSize /\ Roomy.lone = lone
    BY <1>1, <2>2, <2>3 DEF Holders
  <2>9. K = 1 => Len(Young(g)) = time /\ time < maxSamples /\ lone = 0
    <3> SUFFICES ASSUME K = 1 PROVE Len(Young(g)) = time /\ time < maxSamples /\ lone = 0
      OBVIOUS
    <3>1. L <= 1 /\ ~ (L >= 2)
      BY <1>1, <2>4
    <3>2. Old(generations) = <<>> /\ Len(<<>>) = 0
      BY <3>1 DEF Old, L
    <3>3. time = totalSize
      BY <1>1, <1>2, <3>1, <3>2
    <3> QED BY <1>2, <2>1, <2>5, <3>1, <3>3
  <2>10. K >= 2 => 3 * Len(Old(g)) >= maxSamples
    <3>1. K >= 2 => L >= 2
      BY <1>1, <2>4
    <3> QED BY <1>2, <2>5, <3>1
  <2> QED BY <1>2, <2>4, <2>5, <2>7, <2>8, <2>9, <2>10
<1> QED BY <1>3, <1>4

\* The invariant holds of an empty holder.
LEMMA InitHolderInv ==
    HolderInit => HolderInv
<1> SUFFICES ASSUME HolderInit PROVE HolderInv
  OBVIOUS
<1>1. /\ maxSamples \in Limits /\ sampleClass \in SampleClasses /\ generations = <<>>
      /\ totalSize = 0 /\ time = 0 /\ running = TRUE /\ lone = 0
  BY DEF HolderInit
<1>2. Len(<<>>) = 0 /\ <<>> \in Generations /\ DOMAIN <<>> = {}
  BY DEF Generations
<1>3. Old(generations) = <<>> /\ Young(generations) = <<>> /\ Len(generations) = 0
  BY <1>1, <1>2 DEF Old, Young
<1>4. HolderTypeOK
  BY <1>1, <1>2 DEF HolderTypeOK
<1>5. InOrder(<<>>) /\ Before(<<>>, <<>>) /\ UpTo(<<>>, time)
  BY DEF InOrder, Before, UpTo
<1>6. Orderly(generations, time)
  BY <1>3, <1>5 DEF Orderly
<1>7. Len(Old(generations)) + Len(Young(generations)) = totalSize + lone
  BY <1>1, <1>2, <1>3
<1>8. Enough
  BY <1>1, <1>2, <1>3, <1>4, HolderLimit DEF Enough
<1> QED BY <1>1, <1>3, <1>4, <1>6, <1>7, <1>8 DEF HolderInv

\* A sample is added, be it after a compaction.
LEMMA AddSampleHolderInv ==
    ASSUME HolderInv, AddSample
    PROVE  HolderInv'
<1>1. /\ running /\ (IsFull => AverageIsDefined) /\ time' = time + 1
      /\ maxSamples' = maxSamples /\ sampleClass' = sampleClass /\ running' = running
  BY DEF AddSample
<1>2. /\ time \in Nat /\ lone \in Nat /\ running \in BOOLEAN
      /\ maxSamples \in Limits /\ sampleClass \in SampleClasses /\ maxSamples \in Nat \ {0, 1}
  BY HolderLimit DEF HolderInv, HolderTypeOK
<1>3. PICK K \in Nat \ {0} :
        /\ Roomy \in Holders(K)
        /\ Orderly(Roomy.gens, time)
        /\ Len(Old(Roomy.gens)) + Len(Young(Roomy.gens)) = Roomy.total + Roomy.lone
        /\ K = 1 => Len(Young(Roomy.gens)) = time /\ time < maxSamples /\ Roomy.lone = 0
        /\ K >= 2 => 3 * Len(Old(Roomy.gens)) >= maxSamples
        /\ sampleClass = "DataPoint" => K = 1
  BY <1>1, RoomyDoes
<1> DEFINE sample == [first |-> time + 1, last |-> time + 1]
           p == Pushed(Roomy, sample)
<1>4. generations' = p.gens /\ totalSize' = p.total /\ lone' = p.lone
  BY <1>1 DEF AddSample, Roomy
<1>5. /\ p.gens \in Generations /\ Len(p.gens) = K
      /\ Orderly(p.gens, time + 1)
      /\ Old(p.gens) = Old(Roomy.gens)
      /\ Young(p.gens) \in Seq(Sample)
      /\ Len(Young(p.gens)) = Len(Young(Roomy.gens)) + 1
      /\ Young(p.gens)[Len(Young(p.gens))] = sample
      /\ p.total = Roomy.total + 1 /\ p.lone = Roomy.lone
  BY <1>2, <1>3, PushedDoes
<1>6. /\ Roomy.total \in Int /\ Roomy.lone \in Nat /\ Roomy.gens \in Generations
  BY <1>3 DEF Holders
<1>7. /\ Old(Roomy.gens) \in Seq(Sample) /\ Young(Roomy.gens) \in Seq(Sample)
      /\ Len(Old(Roomy.gens)) \in Nat /\ Len(Young(Roomy.gens)) \in Nat
  BY <1>6, GenerationsHeld
<1> HIDE DEF p
<1> DEFINE old == Old(Roomy.gens)
           young == Young(Roomy.gens)
<1>8. /\ Len(generations') = K /\ Old(generations') = old
      /\ Len(Young(generations')) = Len(young) + 1
      /\ Young(generations')[Len(young) + 1] = [first |-> time', last |-> time']
      /\ Orderly(generations', time') /\ generations' \in Generations
  BY <1>1, <1>4, <1>5
<1>9. totalSize' = Roomy.total + 1 /\ lone' = Roomy.lone
  BY <1>4, <1>5
<1> HIDE DEF old, young
<1>10. /\ Len(old) \in Nat /\ Len(young) \in Nat
       /\ Len(old) + Len(young) = Roomy.total + Roomy.lone
       /\ K = 1 => Len(young) = time /\ time < maxSamples /\ Roomy.lone = 0
       /\ K >= 2 => 3 * Len(old) >= maxSamples
       /\ sampleClass = "DataPoint" => K = 1
  BY <1>3, <1>7 DEF old, young
<1>11. HolderTypeOK'
  BY <1>1, <1>2, <1>6, <1>8, <1>9 DEF HolderTypeOK
<1>12. Orderly(generations, time)'
  BY <1>8
<1>13. (IF time = 0 THEN generations = <<>>
        ELSE /\ Len(Young(generations)) > 0
             /\ Young(generations)[Len(Young(generations))] = [first |-> time, last |-> time])'
  BY <1>1, <1>2, <1>8, <1>10
<1>14. (Len(Old(generations)) + Len(Young(generations)) = totalSize + lone)'
  <2>1. Len(old) + (Len(young) + 1) = (Roomy.total + 1) + Roomy.lone
    BY <1>6, <1>10
  <2> QED BY <1>8, <1>9, <2>1
<1>15. Enough'
  <2>1. K = 1 => Len(young) + 1 = time + 1 /\ time + 1 <= maxSamples /\ Roomy.lone = 0
    BY <1>2, <1>10
  <2>2. K <= 1 => K = 1
    OBVIOUS
  <2>3. K <= 1 => Len(Young(generations')) = time' /\ time' <= maxSamples' /\ lone' = 0
    BY <1>1, <1>8, <1>9, <2>1, <2>2
  <2>4. K >= 2 => 3 * Len(Old(generations')) >= maxSamples'
    BY <1>1, <1>8, <1>10
  <2> QED BY <1>8, <2>3, <2>4 DEF Enough
<1>16. running' /\ (sampleClass' = "DataPoint" => Len(generations') <= 1)
  BY <1>1, <1>8, <1>10
<1> QED BY <1>11, <1>12, <1>13, <1>14, <1>15, <1>16 DEF HolderInv

\* The compaction of a holder of DataPoints raises: nothing has moved yet.
LEMMA AddRaisesHolderInv ==
    ASSUME HolderInv, AddRaises
    PROVE  HolderInv'
<1>1. /\ running /\ totalSize >= maxSamples /\ sampleClass # "TestSample"
      /\ running' = FALSE /\ generations' = Grown(generations, 2)
      /\ maxSamples' = maxSamples /\ sampleClass' = sampleClass /\ totalSize' = totalSize
      /\ time' = time /\ lone' = lone
  BY DEF AddRaises, IsFull, AverageIsDefined
<1> DEFINE L == Len(generations)
           y == Young(generations)
<1>2. /\ time \in Nat /\ lone \in Nat /\ totalSize \in Int /\ L \in Nat
      /\ maxSamples \in Limits /\ maxSamples \in Nat \ {0, 1} /\ generations \in Generations
      /\ sampleClass = "DataPoint" /\ sampleClass \in SampleClasses
      /\ y \in Seq(Sample)
  BY <1>1, HolderLimit, HolderAssumption, GenerationsHeld DEF HolderInv, HolderTypeOK
<1>3. /\ Orderly(generations, time)
      /\ IF time = 0 THEN generations = <<>>
         ELSE Len(y) > 0 /\ y[Len(y)] = [first |-> time, last |-> time]
      /\ Len(Old(generations)) + Len(y) = totalSize + lone
      /\ L <= 1 /\ Len(y) = time /\ time <= maxSamples /\ lone = 0
  BY <1>1, <1>2 DEF HolderInv, Enough
<1>4. Old(generations) = <<>> /\ Len(<<>>) = 0
  BY <1>2, <1>3 DEF Old
<1>5. time = maxSamples /\ time # 0
  <2>1. time = totalSize
    BY <1>2, <1>3, <1>4
  <2> QED BY <1>1, <1>2, <1>3, <2>1
<1>6. L = 1
  <2>1. L # 0
    <3>1. SUFFICES ASSUME L = 0 PROVE FALSE
      OBVIOUS
    <3>2. y = <<>>
      BY <3>1 DEF Young
    <3> QED BY <1>3, <1>4, <1>5, <3>2
  <2> HIDE DEF L
  <2> QED BY <1>2, <1>3, <2>1
<1>7. /\ generations' \in Generations /\ Len(generations') = 2
      /\ generations'[1] = generations[1] /\ generations'[2] = <<>>
  <2> DEFINE g == Grown(generations, 2)
  <2>1. 2 \in 1..(Len(generations) + 1) /\ ~ (2 <= Len(generations)) /\ 1 \in 1..Len(generations)
    BY <1>6
  <2>2. /\ g \in Generations
        /\ Len(g) = IF 2 <= Len(generations) THEN Len(generations) ELSE Len(generations) + 1
        /\ \A i \in 1..Len(generations) : g[i] = generations[i]
        /\ 2 > Len(generations) => g[2] = <<>>
    BY <1>2, <2>1, GrownDoes
  <2> HIDE DEF g
  <2>3. g \in Generations /\ Len(g) = 2 /\ g[1] = generations[1] /\ g[2] = <<>>
    BY <1>6, <2>1, <2>2
  <2> QED BY <1>1, <2>3 DEF g
<1>8. Old(generations') = <<>> /\ Young(generations') = y
  BY <1>6, <1>7 DEF Old, Young
<1>9. Orderly(generations', time')
  <2>1. \A i \in 1..2 : i \notin {1, 2} => generations'[i] = <<>>
    OBVIOUS
  <2> QED BY <1>1, <1>3, <1>4, <1>7, <1>8, <2>1 DEF Orderly
<1> HIDE DEF y
<1>10. HolderTypeOK'
  BY <1>1, <1>2, <1>7 DEF HolderTypeOK
<1>11. Enough'
  BY <1>1, <1>7 DEF Enough
<1>12. (Len(Old(generations)) + Len(Young(generations)) = totalSize + lone)'
  BY <1>1, <1>3, <1>4, <1>8
<1>13. (IF time = 0 THEN generations = <<>>
        ELSE /\ Len(Young(generations)) > 0
             /\ Young(generations)[Len(Young(generations))] = [first |-> time, last |-> time])'
  BY <1>1, <1>3, <1>5, <1>8
<1>14. sampleClass' = "DataPoint" /\ time' = maxSamples' /\ Len(Young(generations')) = time'
  BY <1>1, <1>2, <1>3, <1>5, <1>8
<1> QED BY <1>1, <1>9, <1>10, <1>11, <1>12, <1>13, <1>14 DEF HolderInv

\* Every step keeps the invariant.
LEMMA NextHolderInv ==
    HolderInv /\ [HolderNext]_holderVars => HolderInv'
<1> SUFFICES ASSUME HolderInv, [HolderNext]_holderVars PROVE HolderInv'
  OBVIOUS
<1>1. CASE AddSample
  BY <1>1, AddSampleHolderInv
<1>2. CASE AddRaises
  BY <1>2, AddRaisesHolderInv
<1>3. CASE UNCHANGED holderVars
  <2>1. HolderTypeOK' /\ Enough'
    BY <1>3 DEF HolderInv, HolderTypeOK, Enough, holderVars
  <2> QED BY <1>3, <2>1 DEF HolderInv, holderVars
<1> QED BY <1>1, <1>2, <1>3 DEF HolderNext

\* The invariant is one of the holder.
LEMMA HolderInvHolds ==
    HolderSpec => []HolderInv
<1> QED BY InitHolderInv, NextHolderInv, PTL DEF HolderSpec

\* What is returned, in the terms of the invariant.
LEMMA SamplesAre ==
    ASSUME HolderInv
    PROVE  /\ Samples = Old(generations) \o Young(generations)
           /\ Old(generations) \in Seq(Sample) /\ Young(generations) \in Seq(Sample)
           /\ Len(Old(generations)) \in Nat /\ Len(Young(generations)) \in Nat
           /\ Len(Samples) = Len(Old(generations)) + Len(Young(generations))
<1>1. generations \in Generations
  BY DEF HolderInv, HolderTypeOK
<1>2. \A i \in 1..Len(generations) : i \notin {1, Len(generations)} => generations[i] = <<>>
  BY DEF HolderInv, Orderly
<1>3. Samples = Old(generations) \o Young(generations)
  BY <1>1, <1>2, HeldIs DEF Samples, Held
<1>4. Old(generations) \in Seq(Sample) /\ Young(generations) \in Seq(Sample)
  BY <1>1, GenerationsHeld
<1> QED BY <1>3, <1>4, Concatenated

\* The count of the holder is wrong by the lone samples moved, never by anything else.
THEOREM CountLags == HolderSpec => []CountLagsByLoneMoves
<1>1. ASSUME HolderInv PROVE CountLagsByLoneMoves
  <2>1. Len(Old(generations)) + Len(Young(generations)) = totalSize + lone
    BY <1>1 DEF HolderInv
  <2> QED BY <1>1, <2>1, SamplesAre DEF CountLagsByLoneMoves
<1> QED BY <1>1, HolderInvHolds, PTL

\* The daemon's sampling of a torrent ends with the sample that fills the holder, and that of
\* no other class of samples ends.
THEOREM SamplingEnds == HolderSpec => []SamplingEndsAtLimit
<1>1. ASSUME HolderInv PROVE SamplingEndsAtLimit
  <2>1. running = FALSE => sampleClass = "DataPoint" /\ time = maxSamples
    BY <1>1 DEF HolderInv, HolderTypeOK
  <2>2. ASSUME sampleClass = "DataPoint" PROVE time <= maxSamples
    <3>1. CASE running
      <4>1. Len(generations) <= 1
        BY <1>1, <2>2, <3>1 DEF HolderInv
      <4> QED BY <1>1, <4>1 DEF HolderInv, Enough
    <3>2. CASE ~ running
      <4>1. maxSamples \in Nat
        BY <1>1, HolderLimit DEF HolderInv
      <4> QED BY <1>1, <3>2, <4>1 DEF HolderInv
    <3> QED BY <3>1, <3>2
  <2> QED BY <2>1, <2>2 DEF SamplingEndsAtLimit
<1> QED BY <1>1, HolderInvHolds, PTL

\* What the graph is drawn from: the samples in the order of the measurements and without
\* overlap, the last of them exact, and at least a third of the limit.
THEOREM SamplesStayKept == HolderSpec => []SamplesAreKept
<1>1. ASSUME HolderInv PROVE SamplesAreKept
  <2> DEFINE o == Old(generations)
             y == Young(generations)
             c == o \o y
  <2>1. /\ Samples = c /\ o \in Seq(Sample) /\ y \in Seq(Sample)
        /\ Len(o) \in Nat /\ Len(y) \in Nat /\ Len(Samples) = Len(o) + Len(y)
    BY <1>1, SamplesAre
  <2>2. /\ InOrder(o) /\ InOrder(y) /\ Before(o, y) /\ UpTo(o, time) /\ UpTo(y, time)
        /\ time \in Nat /\ maxSamples \in Nat \ {0, 1} /\ running \in BOOLEAN
        /\ Len(generations) \in Nat
    BY <1>1, HolderLimit, GenerationsHeld DEF HolderInv, HolderTypeOK, Orderly
  <2>3. time > 0 => Len(y) > 0 /\ y[Len(y)] = [first |-> time, last |-> time]
    BY <1>1, <2>2 DEF HolderInv
  <2>4. /\ Len(generations) <= 1 => Len(y) = time
        /\ Len(generations) >= 2 /\ running => 3 * Len(o) >= maxSamples
        /\ ~ running => Len(y) = time
    BY <1>1 DEF HolderInv, Enough
  <2> HIDE DEF o, y
  <2>5. InOrder(c)
    BY <2>1, <2>2, ConcatInOrder
  <2>6. DOMAIN c = 1..(Len(o) + Len(y))
        /\ \A i \in 1..(Len(o) + Len(y)) : c[i] = IF i <= Len(o) THEN o[i] ELSE y[i - Len(o)]
    BY <2>1, Concatenated
  <2>7. ASSUME NEW i \in 1..(Len(Samples) - 1)
        PROVE  Samples[i].last < Samples[i + 1].first
    <3>1. i \in DOMAIN c /\ i + 1 \in DOMAIN c /\ i < i + 1
      BY <2>1, <2>6
    <3> QED BY <2>1, <2>5, <3>1 DEF InOrder
  <2>8. ASSUME time > 0 PROVE Last(Samples) = [first |-> time, last |-> time]
    <3>1. Len(y) > 0
      BY <2>3, <2>8
    <3>2. /\ Len(o) + Len(y) \in 1..(Len(o) + Len(y)) /\ ~ (Len(o) + Len(y) <= Len(o))
          /\ (Len(o) + Len(y)) - Len(o) = Len(y)
      BY <2>1, <3>1
    <3>3. c[Len(o) + Len(y)] = y[Len(y)]
      BY <2>6, <3>2
    <3> HIDE DEF c
    <3>4. Last(Samples) = c[Len(o) + Len(y)]
      BY <2>1 DEF Last
    <3> QED BY <2>3, <2>8, <3>3, <3>4
  <2>9. ASSUME time >= maxSamples PROVE 3 * Len(Samples) >= maxSamples
    <3>1. CASE Len(y) = time
      BY <2>1, <2>2, <2>9, <3>1
    <3>2. CASE 3 * Len(o) >= maxSamples
      BY <2>1, <2>2, <3>2
    <3>3. Len(generations) <= 1 \/ Len(generations) >= 2
      BY <2>2
    <3> QED BY <2>2, <2>4, <3>1, <3>2, <3>3
  <2> QED BY <2>7, <2>8, <2>9 DEF SamplesAreKept
<1> QED BY <1>1, HolderInvHolds, PTL
=============================================================================
