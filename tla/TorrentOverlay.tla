--------------------------- MODULE TorrentOverlay ---------------------------
(***************************************************************************)
(* The overlay with the details of one torrent (www/code.js with           *)
(* sinatra/views/index.haml): three tabs, of which the second shows a      *)
(* graph that Dygraph draws, after fetching its data, in the hidden one of *)
(* two elements.  The overlay polls while it is visible; each click on a   *)
(* torrent's button starts another chain of timers.  Opening, closing,     *)
(* answers and drawings that end come in any order.                        *)
(***************************************************************************)
EXTENDS Integers, FiniteSets

CONSTANTS
    Torrents, Null,
    Tabs, FirstTab, GraphTab,  \* "tab1" is shown first, "tab2" holds the graph
    MaxRequests,               \* bound: requests of each kind under way, for any two torrents
    MaxTimers,                 \* bound: chains of timers
    MaxDraws,                  \* bound: drawings under way
    MaxEvents                  \* bound: requests that fail

Blank == "blank"     \* a graph that is being drawn
Nothing == "nothing" \* the text that is there before the first one
Overlapped == "overlapped"
Elements == {0, 1}
Buffers == [visibleElement : Elements, visible : BOOLEAN, shown : [Elements -> BOOLEAN]]

ASSUME OverlayAssumption ==
    /\ Null \notin Torrents \cup Buffers
    /\ {FirstTab, GraphTab} \subseteq Tabs /\ FirstTab # GraphTab
    /\ {MaxRequests, MaxTimers, MaxDraws} \subseteq Nat \ {0} /\ MaxEvents \in Nat

VARIABLES
    events,         \* how many of MaxEvents there have been
    current,        \* currentTorrentNameForOverlay_g, and the global `name'
    overlayVisible, \* overlayVisible_g, and the visibility of the overlay's element
    currentTab,     \* tabwidget.currentTab
    widgetVisible,  \* tabwidget.visible, and the visibility of the labels
    contentShown,   \* visibility of each tab's content
    buffer,         \* graphDivDoubleBuffer_g
    graph,          \* what each of the buffer's elements contains
    drawings,       \* the graphs whose data is being fetched
    timers,         \* chains of timers
    requests,       \* how many requests are under way, of each kind and torrent
    title,          \* the torrent whose details are shown
    alertsOf,       \* the torrent whose alerts are shown
    lastDrawn       \* history: the torrent whose graph was finished last, until a drawing
                    \* begins while another is under way

widget == <<currentTab, widgetVisible, contentShown>>
texts == <<title, alertsOf>>
drawn == <<graph, drawings, lastDrawn>>
vars == <<events, current, overlayVisible, widget, buffer, drawn, timers,
          requests, texts>>

-----------------------------------------------------------------------------
\* Mutant: the element shown is the one to draw to.
GetVisible(b) == b.visibleElement

\* DoubleBuffer: `shown' is the visibility of the two elements.
GetHidden(b) == 1 - b.visibleElement

SetVisible(b, v) == [b EXCEPT !.shown[b.visibleElement] = v, !.visible = v]

\* Mutant: the elements are counted on.
SwapOnwards(b) ==
    [b EXCEPT !.visibleElement = @ + 1, !.shown = [e \in Elements |-> FALSE]]

\* Mutant: the new element is shown, whether the buffer is visible or not.
SwapShowing(b) ==
    [b EXCEPT !.visibleElement = GetHidden(b),
              !.shown = [e \in Elements |-> e = GetHidden(b)]]

Swap(b) ==
    LET e == 1 - b.visibleElement
    IN  [b EXCEPT !.visibleElement = e,
                  !.shown = [x \in Elements |-> x = e /\ (b.visible \/ b.shown[e])]]

\* The constructor swaps before it is visible; the hidden tab around them hides both elements.
NewBuffer ==
    LET b == Swap([visibleElement |-> 1, visible |-> FALSE, shown |-> [e \in Elements |-> FALSE]])
    IN  [b EXCEPT !.visible = TRUE]

\* overlayTabsOnChange, overlayTabsOnVisibilityChange
OnTab(b, tab) == IF b = Null THEN Null ELSE SetVisible(b, tab = GraphTab)

\* TabWidget: showTab, while the widget is visible; setVisible.
ShowTab(tab) ==
    /\ currentTab' = tab
    /\ contentShown' = [u \in Tabs |-> u = tab]
    /\ buffer' = OnTab(buffer, tab)

\* showOverlay: the widget, with its current tab, and the first time the double buffer.
ShowOverlay ==
    /\ overlayVisible' = TRUE
    /\ widgetVisible' = TRUE
    /\ currentTab' = currentTab
    /\ contentShown' = [u \in Tabs |-> u = currentTab]
    /\ buffer' = IF buffer = Null THEN SetVisible(NewBuffer, FALSE)
                                   ELSE OnTab(buffer, currentTab)

-----------------------------------------------------------------------------
Kinds == {"details", "alerts"}
Ended(kind, t) ==
    /\ requests[kind][t] > 0
    /\ requests' = [requests EXCEPT ![kind][t] = @ - 1]

\* initOverlayTabs has shown the first tab, of a widget that is not visible yet.
Init ==
    /\ events = 0
    /\ current = Null
    /\ overlayVisible = FALSE
    /\ currentTab = FirstTab /\ widgetVisible = FALSE
    /\ contentShown = [u \in Tabs |-> FALSE]
    /\ buffer = Null
    /\ graph = [e \in Elements |-> Nothing]
    /\ drawings = {}
    /\ timers = 0
    /\ requests = [kind \in Kinds |-> [t \in Torrents |-> 0]]
    /\ title = Null /\ alertsOf = Null
    /\ lastDrawn = Nothing

\* updateOverlay asks for the details and for the alerts of the current torrent.
UpdateOverlay(t) ==
    /\ \A kind \in Kinds :
          /\ requests[kind][t] < MaxRequests
          /\ \A u \in Torrents \ {t} : requests[kind][t] + requests[kind][u] < MaxRequests
    /\ requests' = [kind \in Kinds |-> [requests[kind] EXCEPT ![t] = @ + 1]]

\* torrentDetailsClicked, beside the overlay too; repeatedlyUpdateOverlay begins at once.
TorrentDetailsClicked(t) ==
    /\ timers < MaxTimers
    /\ current' = t
    /\ ShowOverlay
    /\ UpdateOverlay(t)
    /\ timers' = timers + 1
    /\ UNCHANGED <<events, drawn, texts>>

\* repeatedlyUpdateOverlay, run by a timer: it sets the timer again while the overlay is
\* visible, and else the chain ends.
TimerUpdates ==
    /\ timers > 0 /\ overlayVisible
    /\ UpdateOverlay(current)
    /\ UNCHANGED <<events, current, overlayVisible, widget, buffer, drawn, timers,
                   texts>>

TimerEnds ==
    /\ timers > 0 /\ ~ overlayVisible
    /\ timers' = timers - 1
    /\ UNCHANGED <<events, current, overlayVisible, widget, buffer, drawn, requests,
                   texts>>

TabClicked(tab) ==
    /\ widgetVisible
    /\ ShowTab(tab)
    /\ UNCHANGED <<events, current, overlayVisible, widgetVisible, drawn, timers,
                   requests, texts>>

\* TabWidget.setVisible(false) hides every content, the graph's by its listener.
HideTabs ==
    /\ widgetVisible' = FALSE
    /\ contentShown' = [u \in Tabs |-> FALSE]

\* hideOverlay: nothing of the widget and of the buffer is visible any more.
HideOverlay ==
    /\ overlayVisible
    /\ overlayVisible' = FALSE
    /\ HideTabs
    /\ buffer' = SetVisible(buffer, FALSE)
    /\ UNCHANGED <<events, current, currentTab, drawn, timers, requests, texts>>

-----------------------------------------------------------------------------
\* loadOverlayContents shows the details of the torrent that was asked for, and has the
\* graph of the current one drawn: the element is cleared, and any drawing that was to be
\* put there has lost its place.
Drawing(e, t) == [element |-> e, torrent |-> t, placed |-> TRUE]
Displaced(d, e) == IF d.element = e THEN [d EXCEPT !.placed = FALSE] ELSE d

LoadOverlayContents(t) ==
    /\ Ended("details", t)
    /\ Cardinality(drawings) < MaxDraws
    /\ title' = t
    /\ LET e == GetHidden(buffer)
       IN  /\ graph' = [graph EXCEPT ![e] = Blank]
           /\ drawings' = {Displaced(d, e) : d \in drawings} \cup {Drawing(e, current)}
    /\ lastDrawn' = IF drawings # {} THEN Overlapped ELSE lastDrawn
    /\ UNCHANGED <<events, current, overlayVisible, widget, buffer, timers, alertsOf>>

\* Mutant: alerts that are shown are not replaced.
AddAlertsOnce(t) ==
    /\ Ended("alerts", t)
    /\ alertsOf' = IF alertsOf = Null THEN t ELSE alertsOf
    /\ UNCHANGED <<events, current, overlayVisible, widget, buffer, drawn, timers, title>>

\* addAlertsToOverlay replaces the alerts.
AddAlertsToOverlay(t) ==
    /\ Ended("alerts", t)
    /\ alertsOf' = t
    /\ UNCHANGED <<events, current, overlayVisible, widget, buffer, drawn, timers, title>>

\* Without an answer nothing is shown; nor when the list of details is empty because the
\* torrent is gone: the handler takes its first element and throws.
RequestFails(t) ==
    /\ events < MaxEvents
    /\ \E kind \in Kinds : Ended(kind, t)
    /\ events' = events + 1
    /\ UNCHANGED <<current, overlayVisible, widget, buffer, drawn, timers, texts>>

\* The data of a graph arrives, Dygraph draws and calls overlayGraphDrawnCallback; without
\* data it does nothing, and the element stays as it is.
GraphDrawn(d) ==
    /\ graph' = IF d.placed THEN [graph EXCEPT ![d.element] = d.torrent] ELSE graph
    /\ drawings' = drawings \ {d}
    /\ buffer' = Swap(buffer)
    /\ lastDrawn' = IF lastDrawn = Overlapped THEN Overlapped ELSE d.torrent
    /\ UNCHANGED <<events, current, overlayVisible, widget, timers, requests, texts>>

GraphLost(d) ==
    /\ events < MaxEvents
    /\ drawings' = drawings \ {d}
    /\ events' = events + 1
    /\ UNCHANGED <<current, overlayVisible, widget, buffer, graph, lastDrawn,
                   timers, requests, texts>>

DrawingEnds == \E d \in drawings : GraphDrawn(d) \/ GraphLost(d)

Next ==
    \/ \E t \in Torrents :
          \/ TorrentDetailsClicked(t)
          \/ LoadOverlayContents(t) \/ AddAlertsToOverlay(t) \/ RequestFails(t)
    \/ \E tab \in Tabs : TabClicked(tab)
    \/ HideOverlay
    \/ TimerUpdates \/ TimerEnds
    \/ DrawingEnds

\* Timers fire, requests and drawings come to an end; failures are few (MaxEvents).
Fairness ==
    /\ WF_vars(TimerUpdates)
    /\ WF_vars(TimerEnds)
    /\ \A t \in Torrents : WF_vars(LoadOverlayContents(t)) /\ WF_vars(AddAlertsToOverlay(t))
    /\ WF_vars(DrawingEnds)

Spec == Init /\ [][Next]_vars /\ Fairness

-----------------------------------------------------------------------------
\* The variables have their types, and there is a buffer to draw to once anything was asked.
TypeOK ==
    /\ events \in 0..MaxEvents
    /\ current \in Torrents \cup {Null}
    /\ overlayVisible \in BOOLEAN /\ widgetVisible = overlayVisible
    /\ currentTab \in Tabs
    /\ contentShown \in [Tabs -> BOOLEAN]
    /\ buffer \in Buffers \cup {Null}
    /\ graph \in [Elements -> Torrents \cup {Blank, Nothing}]
    /\ drawings \in SUBSET [element : Elements, torrent : Torrents, placed : BOOLEAN]
    /\ timers \in 0..MaxTimers
    /\ requests \in [Kinds -> [Torrents -> 0..MaxRequests]]
    /\ buffer = Null => /\ current = Null /\ drawings = {} /\ ~ overlayVisible
                        /\ \A kind \in Kinds, t \in Torrents : requests[kind][t] = 0
    /\ buffer # Null => current # Null
    /\ title \in Torrents \cup {Null} /\ alertsOf \in Torrents \cup {Null}
    /\ lastDrawn \in Torrents \cup {Nothing, Overlapped}

\* What is visible is the content of the current tab, and of the graph's elements the one
\* that was drawn last, on the graph's tab only; nothing while the overlay is hidden.  The
\* visibility of each part is set on its own, by tabs, answers, drawings and hideOverlay.
OnlyOpenTabShows ==
    /\ \A u \in Tabs : contentShown[u] <=> overlayVisible /\ u = currentTab
    /\ buffer # Null => \A e \in Elements :
          buffer.shown[e] <=> /\ overlayVisible /\ currentTab = GraphTab
                              /\ e = buffer.visibleElement

\* The graph that is visible is the one finished last, never one that is being drawn, as
\* long as a drawing ends before the next one begins (DoubleBuffer, overlayGraphDrawnCallback).
ShowsLastFinishedGraph ==
    buffer # Null /\ lastDrawn # Overlapped => graph[buffer.visibleElement] = lastDrawn

\* If the overlay stays open with one torrent, its details and its alerts are shown in the
\* end, although answers of other torrents arrive late (repeatedlyUpdateOverlay).
DetailsCatchUp ==
    \A t \in Torrents :
        <>[](overlayVisible /\ current = t) => <>[](title = t /\ alertsOf = t)
=============================================================================
