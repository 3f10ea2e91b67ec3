----------------------- MODULE MessageDisplay_proofs -----------------------
(***************************************************************************)
(* Proofs about the messages of the web pages, for every set of notices    *)
(* and alarms, any number of requests and any timeout.                     *)
(***************************************************************************)
EXTENDS MessageDisplay, TLAPS

Messages == [text : Texts, age : Ages]
Displays == [messages : [Ids -> Messages \cup {Null}], rows : SUBSET [id : Ids, text : Texts]]

Phases == {"idle", "asked", "answered"}
Answers == (SUBSET Alarms) \cup Values \cup {Empty}

\* The part of TypeOK that is about the requests.
RequestsTyped ==
    /\ requests \in [Requests -> [phase : Phases, answer : Answers]]
    /\ \A s \in Requests :
          requests[s].phase = "answered" =>
            requests[s].answer \in IF KindOf[s] = "alarms" THEN SUBSET Alarms
                                                           ELSE Values \cup {Empty}

\* There is one row for each registered message, with its text.
Consistent(D) ==
    D.rows = {[id |-> id, text |-> D.messages[id].text] : id \in Registered(D.messages)}

-----------------------------------------------------------------------------
(* addMessageObj, delMessage and removeExpired *)

LEMMA PutKeepsTypes ==
    ASSUME NEW D \in Displays, NEW ids \in SUBSET Ids, NEW m \in Messages
    PROVE  Put(D, ids, m) \in Displays
<1> DEFINE new == ids \ Registered(D.messages)
<1>1. [id \in Ids |-> IF id \in new THEN m ELSE D.messages[id]] \in [Ids -> Messages \cup {Null}]
  BY DEF Displays
<1>2. {[id |-> id, text |-> m.text] : id \in new} \in SUBSET [id : Ids, text : Texts]
  BY DEF Messages
<1>3. D.rows \in SUBSET [id : Ids, text : Texts]
  BY DEF Displays
<1> QED
  BY <1>1, <1>2, <1>3 DEF Put, Displays

\* What is put is registered, and nothing that was registered before is changed.
LEMMA PutRegisters ==
    ASSUME NEW D \in Displays, NEW ids \in SUBSET Ids, NEW m \in Messages
    PROVE  /\ Registered(Put(D, ids, m).messages) = Registered(D.messages) \cup ids
           /\ \A id \in Registered(D.messages) : Put(D, ids, m).messages[id] = D.messages[id]
           /\ \A id \in ids \ Registered(D.messages) : Put(D, ids, m).messages[id] = m
  BY MessageDisplayAssumption DEF Put, Displays, Registered, Messages

LEMMA PutStaysConsistent ==
    ASSUME NEW D \in Displays, NEW ids \in SUBSET Ids, NEW m \in Messages,
           hasTable, Consistent(D)
    PROVE  Consistent(Put(D, ids, m))
<1> DEFINE new == ids \ Registered(D.messages)
<1> DEFINE E == Put(D, ids, m)
<1>1. /\ Registered(E.messages) = Registered(D.messages) \cup ids
      /\ \A id \in Registered(D.messages) : E.messages[id] = D.messages[id]
      /\ \A id \in new : E.messages[id] = m
  BY PutRegisters, Zenon
<1>2. E.rows = D.rows \cup {[id |-> id, text |-> m.text] : id \in new}
  BY DEF Put
<1> HIDE DEF E
<1>3. E.rows = {[id |-> id, text |-> E.messages[id].text] : id \in Registered(D.messages)}
               \cup {[id |-> id, text |-> E.messages[id].text] : id \in new}
  BY <1>1, <1>2 DEF Consistent
<1>4. Registered(E.messages) = Registered(D.messages) \cup new
  BY <1>1
<1>5. E.rows = {[id |-> id, text |-> E.messages[id].text] : id \in Registered(D.messages) \cup new}
  BY <1>3
<1>6. Consistent(E)
  BY <1>4, <1>5 DEF Consistent
<1> QED
  BY <1>6 DEF E

LEMMA DropKeepsTypes ==
    ASSUME NEW D \in Displays, NEW ids \in SUBSET Ids
    PROVE  Drop(D, ids) \in Displays
<1>1. CASE ~ hasTable
  BY <1>1 DEF Drop
<1>2. CASE hasTable
  <2> DEFINE gone == {r.id : r \in D.rows} \cap ids \cap Registered(D.messages)
  <2>1. [id \in Ids |-> IF id \in gone THEN Null ELSE D.messages[id]]
           \in [Ids -> Messages \cup {Null}]
    BY DEF Displays
  <2>2. {r \in D.rows : r.id \notin gone} \in SUBSET [id : Ids, text : Texts]
    BY DEF Displays
  <2> QED
    BY <1>2, <2>1, <2>2 DEF Drop, Displays
<1> QED
  BY <1>1, <1>2

\* What is dropped is not registered any more, and nothing else is changed.
LEMMA DropForgets ==
    ASSUME NEW D \in Displays, NEW ids \in SUBSET Ids, hasTable, Consistent(D)
    PROVE  /\ Registered(Drop(D, ids).messages) = Registered(D.messages) \ ids
           /\ \A id \in Registered(D.messages) \ ids : Drop(D, ids).messages[id] = D.messages[id]
           /\ Consistent(Drop(D, ids))
<1> DEFINE E == Drop(D, ids)
           gone == {r.id : r \in D.rows} \cap ids \cap Registered(D.messages)
<1>1. gone = ids \cap Registered(D.messages)
  <2>1. \A id \in Registered(D.messages) : \E r \in D.rows : r.id = id
    <3>1. \A id \in Registered(D.messages) :
             /\ [id |-> id, text |-> D.messages[id].text] \in D.rows
             /\ [id |-> id, text |-> D.messages[id].text].id = id
      BY DEF Consistent
    <3> QED
      BY <3>1
  <2>2. \A r \in D.rows : r.id \in Registered(D.messages)
    BY DEF Consistent
  <2> QED
    BY <2>1, <2>2
<1>2. /\ E.messages = [id \in Ids |-> IF id \in gone THEN Null ELSE D.messages[id]]
      /\ E.rows = {r \in D.rows : r.id \notin gone}
  BY DEF Drop
<1>3. Registered(E.messages) = Registered(D.messages) \ ids
  BY <1>1, <1>2 DEF Registered
<1>4. \A id \in Registered(D.messages) \ ids : E.messages[id] = D.messages[id]
  BY <1>1, <1>2 DEF Registered
<1>5. Consistent(E)
  <2>1. E.rows = {r \in D.rows : r.id \notin ids}
    <3>1. \A r \in D.rows : r.id \in Registered(D.messages)
      BY DEF Consistent
    <3> QED
      BY <1>1, <1>2, <3>1
  <2> HIDE DEF E
  <2>2. E.rows = {[id |-> id, text |-> D.messages[id].text] : id \in Registered(E.messages)}
    BY <1>3, <2>1 DEF Consistent
  <2> QED
    BY <1>3, <1>4, <2>2 DEF Consistent
<1> QED
  BY <1>3, <1>4, <1>5

-----------------------------------------------------------------------------
(* The actions. *)

\* Display shows what it is given.
LEMMA DisplayShows ==
    ASSUME NEW D, Display(D)
    PROVE  Displayed' = [messages |-> D.messages, rows |-> D.rows]
  BY DEF Display, Displayed

LEMMA DisplayedTyped ==
    ASSUME messages \in [Ids -> Messages \cup {Null}], rows \in SUBSET [id : Ids, text : Texts]
    PROVE  Displayed \in Displays
  BY DEF Displayed, Displays

LEMMA DisplayTypes ==
    ASSUME NEW D \in Displays, Display(D)
    PROVE  /\ messages' \in [Ids -> Messages \cup {Null}]
           /\ rows' \in SUBSET [id : Ids, text : Texts]
  BY DEF Display, Displays

LEMMA MessageTypes ==
    /\ \A text \in Texts : Message(text) \in Messages /\ NonexpiringMessage(text) \in Messages
    /\ {"notice", "retrieved", "failed", "alarm"} = Texts
  BY MessageDisplayAssumption DEF Message, NonexpiringMessage, Messages, Ages, Forever, Texts

LEMMA AddMessageTypes ==
    ASSUME TypeOK, NEW id \in Ids, NEW text \in Texts, AddMessage(id, text)
    PROVE  /\ messages' \in [Ids -> Messages \cup {Null}]
           /\ rows' \in SUBSET [id : Ids, text : Texts]
<1>1. Displayed \in Displays
  BY DisplayedTyped DEF TypeOK, Messages
<1>2. Put(Displayed, {id}, Message(text)) \in Displays
  BY <1>1, PutKeepsTypes, MessageTypes
<1> QED
  BY <1>2, DisplayTypes DEF AddMessage

\* The age of a message grows up to the first one that has expired.
LEMMA AgeTypes ==
    ASSUME NEW m \in Messages
    PROVE  /\ Age(m) \in Messages
           /\ Age(m).text = m.text
           /\ m.age = Forever => Age(m) = m
  BY MessageDisplayAssumption DEF Age, Messages, Ages, Forever

LEMMA AgeOfNull == Age(Null) = Null
  BY DEF Age

-----------------------------------------------------------------------------
(* Type correctness *)

LEMMA InitTypes == Init => TypeOK
<1> SUFFICES ASSUME Init PROVE TypeOK
  OBVIOUS
<1>1. messages \in [Ids -> Messages \cup {Null}] /\ rows = {}
  BY DEF Init
<1>2. requests \in [Requests -> [phase : Phases, answer : Answers]]
  BY DEF Init, Idle, Phases, Answers
<1>3. \A s \in Requests : requests[s].phase = "idle"
  BY DEF Init, Idle
<1>4. info \in [Cells -> Values] /\ cells \in [Cells -> Values \cup {Empty}]
  BY MessageDisplayAssumption DEF Init
<1>5. events \in 0..MaxEvents
  BY MessageDisplayAssumption DEF Init
<1> QED
  BY <1>1, <1>2, <1>3, <1>4, <1>5 DEF Init, TypeOK, Messages, Phases, Answers

\* A request goes on to a phase, with an answer of its kind.
LEMMA RequestTypes ==
    ASSUME TypeOK, NEW s \in Requests, NEW q \in [phase : Phases, answer : Answers],
           q.phase = "answered" => q.answer \in IF KindOf[s] = "alarms" THEN SUBSET Alarms
                                                                       ELSE Values \cup {Empty},
           requests' = [requests EXCEPT ![s] = q]
    PROVE  RequestsTyped'
<1>1. requests' \in [Requests -> [phase : Phases, answer : Answers]]
  BY DEF TypeOK, Phases, Answers
<1>2. ASSUME NEW r \in Requests, requests'[r].phase = "answered"
      PROVE  requests'[r].answer \in IF KindOf[r] = "alarms" THEN SUBSET Alarms
                                                             ELSE Values \cup {Empty}
  <2>1. CASE r = s
    BY <1>2, <2>1 DEF TypeOK
  <2>2. CASE r # s
    BY <1>2, <2>2 DEF TypeOK
  <2> QED
    BY <2>1, <2>2
<1> QED
  BY <1>1, <1>2 DEF RequestsTyped

LEMMA IdleTypes == Idle \in [phase : Phases, answer : Answers] /\ Idle.phase = "idle"
  BY DEF Idle, Phases, Answers

LEMMA NextTypes == TypeOK /\ [Next]_vars => TypeOK'
<1> SUFFICES ASSUME TypeOK, [Next]_vars PROVE TypeOK'
  OBVIOUS
<1> USE DEF daemon, page, display
<1>0. Displayed \in Displays
  BY DisplayedTyped DEF TypeOK, Messages
<1>1. ASSUME Tick PROVE TypeOK'
  <2>1. messages' \in [Ids -> Messages \cup {Null}]
    BY <1>1, AgeTypes, AgeOfNull DEF TypeOK, Tick, Messages
  <2> QED
    BY <1>1, <2>1 DEF TypeOK, Tick, Messages
<1>2. ASSUME RemoveExpired PROVE TypeOK'
  <2>1. Drop(Displayed, Expired) \in Displays
    BY <1>0, DropKeepsTypes DEF Expired, Registered
  <2>2. messages' \in [Ids -> Messages \cup {Null}] /\ rows' \in SUBSET [id : Ids, text : Texts]
    BY <1>2, <2>1, DisplayTypes DEF RemoveExpired
  <2> QED
    BY <1>2, <2>2 DEF TypeOK, RemoveExpired, Messages
<1>3. ASSUME NEW id \in Notices, Notice(id) PROVE TypeOK'
  <2>1. messages' \in [Ids -> Messages \cup {Null}] /\ rows' \in SUBSET [id : Ids, text : Texts]
    BY <1>3, AddMessageTypes, MessageTypes DEF Notice, Ids
  <2> QED
    BY <1>3, <2>1 DEF TypeOK, Notice, Messages
<1>4. ASSUME NEW url \in Urls, Type(url) PROVE TypeOK'
  BY <1>4 DEF TypeOK, Type
<1>5. ASSUME DownloadFromForm PROVE TypeOK'
  BY <1>5 DEF TypeOK, DownloadFromForm
<1>6. ASSUME DownloadEnds PROVE TypeOK'
  <2>1. messages' \in [Ids -> Messages \cup {Null}] /\ rows' \in SUBSET [id : Ids, text : Texts]
    BY <1>6, AddMessageTypes, MessageTypes DEF DownloadEnds, Ids, TypeOK, Messages
  <2> QED
    BY <1>6, <2>1 DEF TypeOK, DownloadEnds, Messages
<1>7. ASSUME NEW a \in Alarms, Alarm(a) PROVE TypeOK'
  BY <1>7, MessageDisplayAssumption DEF TypeOK, Alarm
<1>8. ASSUME NEW c \in Cells, Use(c) PROVE TypeOK'
  BY <1>8, MessageDisplayAssumption DEF TypeOK, Use
<1>9. ASSUME NEW s \in Requests, Proceed(s) PROVE TypeOK'
  <2>0. KindOf[s] \in Cells \/ KindOf[s] = "alarms"
    BY MessageDisplayAssumption
  <2>1. ASSUME Ask(s) PROVE TypeOK'
    <3> DEFINE q == [requests[s] EXCEPT !.phase = "asked"]
    <3>1. requests[s] \in [phase : Phases, answer : Answers]
      BY DEF TypeOK, Phases, Answers
    <3>2. q \in [phase : Phases, answer : Answers] /\ q.phase = "asked"
      BY <3>1 DEF Phases
    <3>3. requests' = [requests EXCEPT ![s] = q]
      BY <2>1 DEF Ask
    <3> HIDE DEF q
    <3>4. RequestsTyped'
      BY <3>2, <3>3, RequestTypes
    <3> QED
      BY <2>1, <3>4 DEF TypeOK, Ask, RequestsTyped, Phases, Answers
  <2>2. ASSUME Answer(s) PROVE TypeOK'
    <3>1. (KindOf[s] = "alarms" => raised \in SUBSET Alarms)
          /\ (KindOf[s] # "alarms" => info[KindOf[s]] \in Values)
      BY <2>0 DEF TypeOK
    <3> DEFINE q == [phase |-> "answered",
                     answer |-> IF KindOf[s] = "alarms" THEN raised ELSE info[KindOf[s]]]
    <3>2. /\ q \in [phase : Phases, answer : Answers]
          /\ q.answer \in IF KindOf[s] = "alarms" THEN SUBSET Alarms ELSE Values \cup {Empty}
      BY <3>1 DEF Phases, Answers
    <3>3. requests' = [requests EXCEPT ![s] = q]
      BY <2>2 DEF Answer
    <3> HIDE DEF q
    <3>4. RequestsTyped'
      BY <3>2, <3>3, RequestTypes
    <3> QED
      BY <2>2, <3>4 DEF TypeOK, Answer, RequestsTyped, Phases, Answers
  <2>3. ASSUME AnswerFails(s) PROVE TypeOK'
    <3> DEFINE q == IF KindOf[s] = "alarms" THEN Idle
                    ELSE [phase |-> "answered", answer |-> Empty]
    <3>a. /\ q \in [phase : Phases, answer : Answers]
          /\ q.phase = "answered" => q.answer \in IF KindOf[s] = "alarms" THEN SUBSET Alarms
                                                   ELSE Values \cup {Empty}
      BY IdleTypes DEF Phases, Answers
    <3>b. requests' = [requests EXCEPT ![s] = q]
      BY <2>3 DEF AnswerFails
    <3> HIDE DEF q
    <3>1. RequestsTyped'
      BY <3>a, <3>b, RequestTypes
    <3>2. events' \in 0..MaxEvents
      BY <2>3, MessageDisplayAssumption DEF TypeOK, AnswerFails
    <3> QED
      BY <2>3, <3>1, <3>2 DEF TypeOK, AnswerFails, RequestsTyped, Phases, Answers
  <2>4. ASSUME Lost(s) PROVE TypeOK'
    <3>1. RequestsTyped'
      BY <2>4, RequestTypes, IdleTypes DEF Lost
    <3>2. events' \in 0..MaxEvents
      BY <2>4, MessageDisplayAssumption DEF TypeOK, Lost
    <3> QED
      BY <2>4, <3>1, <3>2 DEF TypeOK, Lost, RequestsTyped, Phases, Answers
  <2>5. ASSUME ReceiveAlarms(s) PROVE TypeOK'
    <3> DEFINE answer == requests[s].answer
               D == Put(Displayed, answer \ alarms, NonexpiringMessage("alarm"))
    <3>1. answer \in SUBSET Alarms
      BY <2>5 DEF TypeOK, ReceiveAlarms
    <3>2. D \in Displays
      BY <1>0, <3>1, PutKeepsTypes, MessageTypes DEF Ids
    <3>3. Drop(D, alarms \ answer) \in Displays
      BY <3>2, DropKeepsTypes DEF TypeOK, Ids
    <3>4. messages' \in [Ids -> Messages \cup {Null}] /\ rows' \in SUBSET [id : Ids, text : Texts]
      BY <2>5, <3>3, DisplayTypes DEF ReceiveAlarms
    <3>5. RequestsTyped'
      BY <2>5, RequestTypes, IdleTypes DEF ReceiveAlarms
    <3> QED
      BY <2>5, <3>1, <3>4, <3>5
      DEF TypeOK, ReceiveAlarms, Messages, RequestsTyped, Phases, Answers
  <2>6. ASSUME ReceiveInfo(s) PROVE TypeOK'
    <3>1. KindOf[s] \in Cells /\ requests[s].answer \in Values \cup {Empty}
      BY <2>0, <2>6 DEF TypeOK, ReceiveInfo
    <3>2. RequestsTyped'
      BY <2>6, RequestTypes, IdleTypes DEF ReceiveInfo
    <3>3. cells' \in [Cells -> Values \cup {Empty}]
      BY <2>6, <3>1 DEF TypeOK, ReceiveInfo
    <3> QED
      BY <2>6, <3>2, <3>3 DEF TypeOK, ReceiveInfo, RequestsTyped, Phases, Answers
  <2> QED
    BY <1>9, <2>1, <2>2, <2>3, <2>4, <2>5, <2>6 DEF Proceed
<1>10. CASE UNCHANGED vars
  BY <1>10 DEF TypeOK, vars
<1> QED
  BY <1>1, <1>2, <1>3, <1>4, <1>5, <1>6, <1>7, <1>8, <1>9, <1>10 DEF Next

\* The variables have their types.
THEOREM TypeCorrect == Spec => []TypeOK
  BY InitTypes, NextTypes, PTL DEF Spec

-----------------------------------------------------------------------------
(* Rows and messages *)

\* What RowsAreMessages says of a display and of the alarms applied last.
InStep(D, A) ==
    /\ Consistent(D)
    /\ Registered(D.messages) \cap Alarms = A
    /\ \A a \in A : D.messages[a].age = Forever

LEMMA RowsInStep == RowsAreMessages <=> (hasTable => InStep(Displayed, alarms))
  BY DEF RowsAreMessages, InStep, Consistent, Displayed

\* A notice is no alarm, and a message that has expired is none either.
LEMMA PutNotice ==
    ASSUME NEW D \in Displays, NEW A \in SUBSET Alarms, hasTable, InStep(D, A),
           NEW id \in Notices \cup {Download}, NEW m \in Messages
    PROVE  InStep(Put(D, {id}, m), A)
<1> DEFINE E == Put(D, {id}, m)
<1>1. {id} \in SUBSET Ids /\ id \notin Alarms
  BY MessageDisplayAssumption DEF Ids
<1>2. Consistent(E)
  BY <1>1, PutStaysConsistent DEF InStep
<1>3. /\ Registered(E.messages) = Registered(D.messages) \cup {id}
      /\ \A i \in Registered(D.messages) : E.messages[i] = D.messages[i]
  BY <1>1, PutRegisters
<1> HIDE DEF E
<1>4. InStep(E, A)
  BY <1>1, <1>2, <1>3 DEF InStep
<1> QED
  BY <1>4 DEF E

\* updateDisplayedAlarms: the new alarms are put, then those that are over are dropped.
LEMMA ApplyAlarms ==
    ASSUME NEW D \in Displays, NEW A \in SUBSET Alarms, NEW B \in SUBSET Alarms,
           NEW m \in Messages, m.age = Forever, hasTable, InStep(D, A)
    PROVE  InStep(Drop(Put(D, B \ A, m), A \ B), B)
<1> DEFINE E == Put(D, B \ A, m)
           F == Drop(E, A \ B)
<1>1. B \ A \in SUBSET Ids /\ A \ B \in SUBSET Ids
  BY DEF Ids
<1>2. E \in Displays /\ Consistent(E)
  BY <1>1, PutKeepsTypes, PutStaysConsistent DEF InStep
<1>3. /\ Registered(E.messages) = Registered(D.messages) \cup (B \ A)
      /\ \A i \in Registered(D.messages) : E.messages[i] = D.messages[i]
      /\ \A i \in (B \ A) \ Registered(D.messages) : E.messages[i] = m
  BY <1>1, PutRegisters, Zenon
<1> HIDE DEF E
<1>4. /\ Registered(F.messages) = Registered(E.messages) \ (A \ B)
      /\ \A i \in Registered(E.messages) \ (A \ B) : F.messages[i] = E.messages[i]
      /\ Consistent(F)
  BY <1>1, <1>2, DropForgets, Zenon
<1> HIDE DEF F
<1>5. Registered(F.messages) \cap Alarms = B
  BY <1>3, <1>4 DEF InStep
<1>6. ASSUME NEW b \in B PROVE F.messages[b].age = Forever
  <2>1. CASE b \in A
    BY <1>3, <1>4, <2>1 DEF InStep
  <2>2. CASE b \notin A
    BY <1>3, <1>4, <2>2 DEF InStep
  <2> QED
    BY <2>1, <2>2
<1>7. InStep(F, B)
  BY <1>4, <1>5, <1>6 DEF InStep
<1> QED
  BY <1>7 DEF E, F

LEMMA InitRows == Init => RowsAreMessages
<1> SUFFICES ASSUME Init PROVE RowsAreMessages
  OBVIOUS
<1>1. Registered(messages) = {}
  BY DEF Init, Registered
<1> QED
  BY <1>1 DEF Init, RowsAreMessages

\* A step that shows D and applies the alarms A.
LEMMA Shown ==
    ASSUME NEW D \in Displays, Display(D), NEW A, alarms' = A,
           hasTable' = hasTable, hasTable => InStep(D, A)
    PROVE  RowsAreMessages'
<1>1. Displayed' = D
  BY DisplayShows DEF Displays
<1>2. (RowsAreMessages <=> (hasTable => InStep(Displayed, alarms)))'
  BY RowsInStep, PTL
<1>3. InStep(Displayed, alarms)' <=> InStep(D, A)
  BY <1>1 DEF InStep, Consistent, Registered
<1> QED
  BY <1>2, <1>3

LEMMA NextRows == TypeOK /\ RowsAreMessages /\ [Next]_vars => RowsAreMessages'
<1> SUFFICES ASSUME TypeOK, RowsAreMessages, [Next]_vars PROVE RowsAreMessages'
  OBVIOUS
<1> USE DEF daemon, page, display
<1>0. /\ Displayed \in Displays
      /\ hasTable => InStep(Displayed, alarms)
      /\ alarms \in SUBSET Alarms
  BY DisplayedTyped, RowsInStep DEF TypeOK, Messages
<1>a. ASSUME NEW id \in Notices \cup {Download}, NEW text \in Texts, AddMessage(id, text),
             UNCHANGED <<hasTable, alarms>>
      PROVE  RowsAreMessages'
  <2>1. Message(text) \in Messages /\ id \in Ids
    BY MessageTypes DEF Ids
  <2>2. Put(Displayed, {id}, Message(text)) \in Displays
    BY <1>0, <2>1, PutKeepsTypes
  <2>3. hasTable => InStep(Put(Displayed, {id}, Message(text)), alarms)
    BY <1>0, <2>1, PutNotice
  <2> QED
    BY <1>a, <2>2, <2>3, Shown DEF AddMessage
<1>b. ASSUME UNCHANGED <<hasTable, display, alarms>> PROVE RowsAreMessages'
  BY <1>b DEF RowsAreMessages, Registered
<1>1. ASSUME Tick PROVE RowsAreMessages'
  <2>1. \A id \in Ids : messages'[id] = Age(messages[id])
    BY <1>1 DEF Tick
  <2>2. \A id \in Ids : messages[id] # Null => /\ messages'[id] # Null
                                               /\ messages'[id].text = messages[id].text
                                               /\ messages[id].age = Forever
                                                    => messages'[id].age = Forever
    BY <2>1, AgeTypes, MessageDisplayAssumption DEF TypeOK, Messages
  <2>3. \A id \in Ids : messages[id] = Null => messages'[id] = Null
    BY <2>1, AgeOfNull
  <2>4. Registered(messages') = Registered(messages)
    BY <2>2, <2>3 DEF Registered
  <2>5. hasTable' = hasTable /\ rows' = rows /\ alarms' = alarms
    BY <1>1 DEF Tick
  <2>6. {[id |-> id, text |-> messages'[id].text] : id \in Registered(messages')}
          = {[id |-> id, text |-> messages[id].text] : id \in Registered(messages)}
    BY <2>2, <2>4 DEF Registered
  <2>7. \A a \in alarms : hasTable => messages'[a].age = Forever
    BY <2>2 DEF RowsAreMessages, Registered
  <2> QED
    BY <2>4, <2>5, <2>6, <2>7 DEF RowsAreMessages
<1>2. ASSUME RemoveExpired PROVE RowsAreMessages'
  <2>1. Expired \in SUBSET Ids /\ Expired \subseteq Registered(messages)
    BY DEF Expired, Registered
  <2>2. Drop(Displayed, Expired) \in Displays
    BY <1>0, <2>1, DropKeepsTypes
  <2>3. hasTable => Expired \cap Alarms = {}
    BY MessageDisplayAssumption DEF Expired, RowsAreMessages, Forever
  <2>4. hasTable => InStep(Drop(Displayed, Expired), alarms)
    <3> SUFFICES ASSUME hasTable PROVE InStep(Drop(Displayed, Expired), alarms)
      OBVIOUS
    <3> DEFINE E == Drop(Displayed, Expired)
    <3>1. /\ Registered(E.messages) = Registered(Displayed.messages) \ Expired
          /\ \A id \in Registered(Displayed.messages) \ Expired :
                E.messages[id] = Displayed.messages[id]
          /\ Consistent(E)
      BY <1>0, <2>1, DropForgets, Zenon DEF InStep
    <3> HIDE DEF E
    <3>2. InStep(E, alarms)
      BY <1>0, <2>3, <3>1 DEF InStep
    <3> QED
      BY <3>2 DEF E
  <2> QED
    BY <1>2, <2>2, <2>4, Shown DEF RemoveExpired
<1>3. ASSUME NEW id \in Notices, Notice(id) PROVE RowsAreMessages'
  BY <1>3, <1>a, MessageTypes DEF Notice
<1>4. ASSUME NEW url \in Urls, Type(url) PROVE RowsAreMessages'
  BY <1>4, <1>b DEF Type
<1>5. ASSUME DownloadFromForm PROVE RowsAreMessages'
  BY <1>5, <1>b DEF DownloadFromForm
<1>6. ASSUME DownloadEnds PROVE RowsAreMessages'
  BY <1>6, <1>a, <1>b, MessageTypes DEF DownloadEnds
<1>7. ASSUME NEW a \in Alarms, Alarm(a) PROVE RowsAreMessages'
  BY <1>7, <1>b DEF Alarm
<1>8. ASSUME NEW c \in Cells, Use(c) PROVE RowsAreMessages'
  BY <1>8, <1>b DEF Use
<1>9. ASSUME NEW s \in Requests, Proceed(s) PROVE RowsAreMessages'
  <2>1. ASSUME ReceiveAlarms(s) PROVE RowsAreMessages'
    <3> DEFINE answer == requests[s].answer
               m == NonexpiringMessage("alarm")
               D == Put(Displayed, answer \ alarms, m)
               E == Drop(D, alarms \ answer)
    <3>1. answer \in SUBSET Alarms
      BY <2>1 DEF TypeOK, ReceiveAlarms
    <3>2. m \in Messages /\ m.age = Forever
      BY MessageTypes DEF NonexpiringMessage
    <3>3. answer \ alarms \in SUBSET Ids /\ alarms \ answer \in SUBSET Ids
      BY <1>0, <3>1 DEF Ids
    <3>4. Display(E) /\ alarms' = answer /\ hasTable' = hasTable
      BY <2>1 DEF ReceiveAlarms
    <3> HIDE DEF answer, m
    <3>5. D \in Displays
      BY <1>0, <3>2, <3>3, PutKeepsTypes
    <3>6. E \in Displays
      BY <3>3, <3>5, DropKeepsTypes
    <3>7. hasTable => InStep(E, answer)
      BY <1>0, <3>1, <3>2, ApplyAlarms
    <3> HIDE DEF E
    <3> QED
      BY <3>4, <3>6, <3>7, Shown
  <2>2. CASE Ask(s) \/ Answer(s) \/ AnswerFails(s) \/ Lost(s) \/ ReceiveInfo(s)
    BY <1>b, <2>2 DEF Ask, Answer, AnswerFails, Lost, ReceiveInfo
  <2> QED
    BY <1>9, <2>1, <2>2 DEF Proceed
<1>10. CASE UNCHANGED vars
  BY <1>10, <1>b DEF vars
<1> QED
  BY <1>1, <1>2, <1>3, <1>4, <1>5, <1>6, <1>7, <1>8, <1>9, <1>10 DEF Next

\* On a page with a table there is one row for each registered message, with its text, and
\* the alarms among them are those of the answer that was applied last: for any number of
\* requests whose answers arrive in any order, and whatever expires or is told in between.
THEOREM RowsCorrect == Spec => []RowsAreMessages
<1>1. TypeOK /\ RowsAreMessages /\ [Next]_vars => (TypeOK /\ RowsAreMessages)'
  BY NextTypes, NextRows
<1> QED
  BY <1>1, InitTypes, InitRows, PTL DEF Spec
=============================================================================
