-------------------------- MODULE WebRequest_proofs --------------------------
(***************************************************************************)
(* Proofs about the two legs of a request of the web application.          *)
(*                                                                         *)
(* From the application to the daemon (DaemonProtocol), for any number of  *)
(* calls and exits.  Calls are executed at most once and in order: a call  *)
(* leaves the client once, and the requests on their way, the one being    *)
(* handled and those that were handled stay in the order of their numbers. *)
(* The session check comes first.  Answers lag by the timeouts of their    *)
(* connection: those the client has yet to read are to successive calls.   *)
(*                                                                         *)
(* From the page to the application (AjaxRequest, PeriodicalUpdater), for  *)
(* any number of requests, any faults in any callbacks and any number of   *)
(* registrations: what is counted of the requests, the order of a          *)
(* request's callbacks, and that an updater neither stops nor doubles.     *)
(* The inductive invariant ties each request's calls to how far its        *)
(* transport has come, the counters to the requests, and the updater's     *)
(* timer to its last request.                                              *)
(*                                                                         *)
(* The parameters of a request (Collections), for any keys and texts: a    *)
(* hash holds what was set in it, a query string carries it, and of any    *)
(* form the server gets what its controls offer, in their order.  The      *)
(* hash of a form is followed pair by pair: after each control it gives,   *)
(* under every name, the texts offered so far.                             *)
(*                                                                         *)
(* Arrays, of any length: how a test splits one, searches, sets, pairs,    *)
(* slices, the least and the greatest number.  What a function builds step *)
(* by step from an array is followed along its length; a range is the one  *)
(* function that solves its equation, and slices are located by division.  *)
(***************************************************************************)
EXTENDS DaemonProtocol, PeriodicalUpdater, Collections, TLAPS, FiniteSetTheorems,
        WellFoundedInduction

\* The variables a request passes through are well typed.
PipelineType ==
    /\ calls \in Nat /\ calls <= MaxCalls
    /\ toServer \in Seq(Calls)
    /\ log \in Seq(Calls)
    /\ reply \in Answers \cup {NoReply}

Ascending(s) == \A i, j \in 1..Len(s) : i < j => s[i] < s[j]

\* Handled before being handled before on the way, and nothing beyond the last call.
Ordered ==
    /\ Ascending(log)
    /\ Ascending(toServer)
    /\ \A i \in 1..Len(log), j \in 1..Len(toServer) : log[i] < toServer[j]
    /\ \A j \in 1..Len(toServer) : toServer[j] <= calls
    /\ \A i \in 1..Len(log) : log[i] <= calls
    /\ server = "handle" =>
          /\ reply.of \in Calls /\ reply.of <= calls
          /\ \A i \in 1..Len(log) : log[i] < reply.of
          /\ \A j \in 1..Len(toServer) : reply.of < toServer[j]

IInv == PipelineType /\ Ordered

\* One more element, greater than all others, leaves a sequence ascending.
LEMMA AppendAscending ==
    ASSUME NEW S \in SUBSET Nat, NEW s \in Seq(S), NEW e \in S,
           Ascending(s), \A i \in 1..Len(s) : s[i] < e
    PROVE  /\ Append(s, e) \in Seq(S)
           /\ Len(Append(s, e)) = Len(s) + 1
           /\ \A i \in 1..Len(s) : Append(s, e)[i] = s[i]
           /\ Append(s, e)[Len(s) + 1] = e
           /\ Ascending(Append(s, e))
  <1>1. Append(s, e) \in Seq(S) /\ Len(Append(s, e)) = Len(s) + 1
    OBVIOUS
  <1>2. \A i \in 1..Len(s) : Append(s, e)[i] = s[i]
    OBVIOUS
  <1>3. Append(s, e)[Len(s) + 1] = e
    OBVIOUS
  <1>4. ASSUME NEW i \in 1..Len(Append(s, e)), NEW j \in 1..Len(Append(s, e)), i < j
        PROVE  Append(s, e)[i] < Append(s, e)[j]
    <2>1. Len(s) \in Nat
      OBVIOUS
    <2>2. i \in 1..Len(s)
      BY <1>1, <1>4, <2>1
    <2>3. CASE j \in 1..Len(s)
      BY <1>2, <1>4, <2>2, <2>3 DEF Ascending
    <2>4. CASE j = Len(s) + 1
      BY <1>2, <1>3, <2>2, <2>4
    <2> QED
      BY <1>1, <2>1, <2>3, <2>4
  <1> QED
    BY <1>1, <1>2, <1>3, <1>4 DEF Ascending

LEMMA InitIInv == Init => IInv
  <1> SUFFICES ASSUME Init PROVE IInv
    OBVIOUS
  <1>1. PipelineType
    BY BoundsAssumption DEF Init, PipelineType, NoReply, Calls
  <1>2. Ordered
    BY DEF Init, Ordered, Ascending
  <1> QED
    BY <1>1, <1>2 DEF IInv

\* The variables of IInv.
pipeline == <<calls, toServer, log, reply, server>>

LEMMA NextIInv == IInv /\ [Next]_vars => IInv'
  <1> SUFFICES ASSUME IInv, [Next]_vars PROVE IInv'
    OBVIOUS
  <1> USE BoundsAssumption
  <1>0. Calls \in SUBSET Nat
    BY DEF Calls
  <1>1. ASSUME UNCHANGED pipeline PROVE IInv'
    BY <1>1 DEF IInv, pipeline, PipelineType, Ordered, Ascending
  <1>2. CASE Send
    <2> DEFINE c == calls + 1
    <2>1. c \in Calls /\ calls' = c /\ c <= MaxCalls
      BY <1>2 DEF Send, Calls, IInv, PipelineType
    <2>2. UNCHANGED <<log, reply, server>>
      BY <1>2 DEF Send, serverVars
    <2>3. CASE toServer' = toServer
      BY <2>1, <2>2, <2>3 DEF IInv, PipelineType, Ordered, Ascending, Calls
    <2>4. CASE toServer' = Append(toServer, c)
      <3>1. Ascending(toServer) /\ toServer \in Seq(Calls) /\ log \in Seq(Calls)
        BY DEF IInv, PipelineType, Ordered
      <3>2. \A j \in 1..Len(toServer) : toServer[j] \in Calls /\ toServer[j] < c
        BY <3>1, <2>1 DEF IInv, PipelineType, Ordered, Calls
      <3>3. /\ toServer' \in Seq(Calls)
            /\ Len(toServer') = Len(toServer) + 1
            /\ \A i \in 1..Len(toServer) : toServer'[i] = toServer[i]
            /\ toServer'[Len(toServer) + 1] = c
            /\ Ascending(toServer')
        BY <1>0, <2>1, <2>4, <3>1, <3>2, AppendAscending
      <3>4. PipelineType'
        BY <2>1, <2>2, <3>3 DEF IInv, PipelineType
      <3>5. Ordered'
        <4>1. \A j \in 1..Len(toServer') : j \in 1..Len(toServer) \/ j = Len(toServer) + 1
          BY <3>1, <3>3
        <4>2. \A j \in 1..Len(toServer') : toServer'[j] <= calls'
          BY <2>1, <3>2, <3>3, <4>1 DEF Calls
        <4>3. \A i \in 1..Len(log) : log[i] \in Calls /\ log[i] <= calls
          BY <3>1 DEF IInv, Ordered
        <4>4. \A i \in 1..Len(log), j \in 1..Len(toServer') : log[i] < toServer'[j]
          <5> SUFFICES ASSUME NEW i \in 1..Len(log), NEW j \in 1..Len(toServer')
                       PROVE  log[i] < toServer'[j]
            OBVIOUS
          <5>1. CASE j \in 1..Len(toServer)
            BY <3>3, <5>1 DEF IInv, Ordered
          <5>2. CASE j = Len(toServer) + 1
            BY <2>1, <3>3, <4>3, <5>2 DEF IInv, PipelineType, Calls
          <5> QED
            BY <4>1, <5>1, <5>2
        <4>5. server = "handle" => \A j \in 1..Len(toServer') : reply.of < toServer'[j]
          <5> SUFFICES ASSUME server = "handle", NEW j \in 1..Len(toServer')
                       PROVE  reply.of < toServer'[j]
            OBVIOUS
          <5>1. CASE j \in 1..Len(toServer)
            BY <3>3, <5>1 DEF IInv, Ordered
          <5>2. CASE j = Len(toServer) + 1
            BY <2>1, <3>3, <5>2 DEF IInv, Ordered, PipelineType, Calls
          <5> QED
            BY <4>1, <5>1, <5>2
        <4> QED
          BY <2>1, <2>2, <3>3, <4>2, <4>3, <4>4, <4>5
             DEF IInv, Ordered, Ascending, Calls, PipelineType
      <3> QED
        BY <3>4, <3>5 DEF IInv
    <2> QED
      BY <1>2, <2>3, <2>4, <2>1 DEF Send
  <1>3. CASE Recv
    <2> DEFINE c == Head(toServer)
    <2>1. /\ toServer \in Seq(Calls) /\ toServer # <<>>
          /\ server' = "handle" /\ toServer' = Tail(toServer)
          /\ reply' = [of |-> c, reply |-> "no"]
          /\ UNCHANGED <<calls, log>>
      BY <1>3 DEF Recv, IInv, PipelineType, clientVars
    <2>2. /\ c = toServer[1] /\ c \in Calls
          /\ Tail(toServer) \in Seq(Calls)
          /\ Len(Tail(toServer)) = Len(toServer) - 1
          /\ \A j \in 1..Len(Tail(toServer)) :
                Tail(toServer)[j] = toServer[j + 1] /\ j + 1 \in 1..Len(toServer)
          /\ 1 \in 1..Len(toServer)
      BY <2>1
    <2>3. PipelineType'
      BY <2>1, <2>2 DEF IInv, PipelineType, Answers, Replies
    <2>4. reply'.of = c
      BY <2>1
    <2>5. Ordered'
      BY <2>1, <2>2, <2>4 DEF IInv, Ordered, Ascending, PipelineType, Calls
    <2> QED
      BY <2>3, <2>5 DEF IInv
  <1>4. CASE Handle
    <2>1. /\ server = "handle" /\ server' = "sendLen"
          /\ log' = Append(log, reply.of)
          /\ reply' \in Answers
          /\ UNCHANGED <<calls, toServer>>
      BY <1>4 DEF Handle, IInv, Ordered, PipelineType, Answers, NoReply, clientVars, Calls
    <2>2. reply.of \in Calls /\ reply.of <= calls /\ log \in Seq(Calls) /\ Ascending(log)
      BY <2>1 DEF IInv, Ordered, PipelineType
    <2>3. \A i \in 1..Len(log) : log[i] < reply.of
      BY <2>1 DEF IInv, Ordered
    <2>4. /\ log' \in Seq(Calls)
          /\ Len(log') = Len(log) + 1
          /\ \A i \in 1..Len(log) : log'[i] = log[i]
          /\ log'[Len(log) + 1] = reply.of
          /\ Ascending(log')
      <3> DEFINE e == reply.of
      <3>1. e \in Calls /\ \A i \in 1..Len(log) : log[i] < e
        BY <2>2, <2>3
      <3>2. log' = Append(log, e)
        BY <2>1
      <3> HIDE DEF e
      <3>3. /\ log' \in Seq(Calls)
            /\ Len(log') = Len(log) + 1
            /\ \A i \in 1..Len(log) : log'[i] = log[i]
            /\ log'[Len(log) + 1] = e
            /\ Ascending(log')
        BY <1>0, <2>2, <3>1, <3>2, AppendAscending
      <3> QED
        BY <3>3 DEF e
    <2>5. PipelineType'
      BY <2>1, <2>4 DEF IInv, PipelineType
    <2>6. \A i \in 1..Len(log') : i \in 1..Len(log) \/ i = Len(log) + 1
      BY <2>2, <2>4
    <2>7. Ordered'
      BY <2>1, <2>2, <2>4, <2>6 DEF IInv, Ordered, Ascending, PipelineType
    <2> QED
      BY <2>5, <2>7 DEF IInv
  <1>5. CASE SendLen \/ SendData
    BY <1>5 DEF SendLen, SendData, SendPart, clientVars, IInv, PipelineType, Ordered, Ascending
  <1>6. CASE Exit
    <2>1. toServer' = <<>> /\ server' = "recv" /\ UNCHANGED <<calls, log, reply>>
      BY <1>6 DEF Exit, clientVars
    <2> QED
      BY <2>1 DEF IInv, PipelineType, Ordered, Ascending
  <1>7. CASE \/ ReadLen \/ ReadData \/ ReadGarbage \/ Timeout \/ EndOfStream
             \/ Truncated \/ GarbageEnds
    BY <1>1, <1>7 DEF ReadLen, ReadData, ReadGarbage, Timeout, EndOfStream, Truncated,
                      GarbageEnds, pipeline, serverVars
  <1>8. CASE Arrive \/ Start
    BY <1>1, <1>8 DEF Arrive, Start, pipeline, clientVars, serverVars
  <1>9. CASE UNCHANGED vars
    BY <1>1, <1>9 DEF vars, pipeline, clientVars, serverVars
  <1> QED
    BY <1>2, <1>3, <1>4, <1>5, <1>6, <1>7, <1>8, <1>9 DEF Next, Client, Server

THEOREM InductiveInvariant == Spec => []IInv
  BY InitIInv, NextIInv, PTL DEF Spec

\* The daemon executes the calls of a web request at most once and in the order in which
\* they were made, whatever times out or is lost.
THEOREM CallsInOrder == Spec => []ExecutedOnceInOrder
  <1>1. IInv => ExecutedOnceInOrder
    BY DEF IInv, Ordered, Ascending, ExecutedOnceInOrder
  <1> QED
    BY <1>1, InductiveInvariant, PTL
-----------------------------------------------------------------------------
(* The session check comes first: the second call is made only after the   *)
(* first was answered, and then every answer there is is to that first     *)
(* call.                                                                   *)

Message == [part : {"len", "data"}, answer : Answers]
Outcome == [outcome : Outcomes, of : Calls \cup {0}]

\* The answers on their way are to calls that were made.
AnswersType ==
    /\ toClient \in Seq(Message)
    /\ \A k \in 1..Len(toClient) : toClient[k].answer.of <= calls
    /\ server \in {"sendLen", "sendData"} => reply \in Answers /\ reply.of <= calls

\* Where the web request can be before and after the session check.
CheckedFirst ==
    /\ client \in {"ready", "blocked", "done"} \cup Waiting
    /\ result \in [Calls -> Outcome]
    /\ client \in {"blocked"} \cup Waiting => calls >= 1
    /\ calls >= 2 \/ (calls = 1 /\ client = "ready") => result[1] = [outcome |-> "yes", of |-> 1]

SessionInv == IInv /\ AnswersType /\ CheckedFirst

LEMMA InitSession == Init => SessionInv
  <1> SUFFICES ASSUME Init PROVE AnswersType /\ CheckedFirst
    BY InitIInv DEF SessionInv
  <1>1. AnswersType
    BY DEF Init, AnswersType
  <1>2. CheckedFirst
    BY DEF Init, CheckedFirst, Outcome, Outcomes, Waiting
  <1> QED
    BY <1>1, <1>2

\* Taking the first message leaves only messages that were there.
LEMMA TailAnswers ==
    ASSUME AnswersType, toClient # <<>>
    PROVE  /\ Head(toClient) \in Message /\ Head(toClient).answer.of <= calls
           /\ Tail(toClient) \in Seq(Message)
           /\ \A k \in 1..Len(Tail(toClient)) : Tail(toClient)[k].answer.of <= calls
  <1>1. toClient \in Seq(Message) /\ 1 \in 1..Len(toClient) /\ Head(toClient) = toClient[1]
    BY DEF AnswersType
  <1>2. /\ Tail(toClient) \in Seq(Message)
        /\ \A k \in 1..Len(Tail(toClient)) :
              Tail(toClient)[k] = toClient[k + 1] /\ k + 1 \in 1..Len(toClient)
    BY <1>1
  <1> QED
    BY <1>1, <1>2 DEF AnswersType

\* A call that returns is the session check, or comes after it was answered with true.
LEMMA ReturnChecked ==
    ASSUME IInv, CheckedFirst, client \in {"blocked"} \cup Waiting, UNCHANGED calls,
           NEW outcome \in Outcomes, NEW of \in Calls \cup {0}, Return(outcome, of),
           calls = 1 /\ outcome = "yes" => of = 1
    PROVE  CheckedFirst'
  <1>1. calls \in Calls /\ 1 \in Calls
    BY BoundsAssumption DEF IInv, PipelineType, Calls, CheckedFirst
  <1>2. /\ result' = [result EXCEPT ![calls] = [outcome |-> outcome, of |-> of]]
        /\ client' = IF calls = 1 /\ outcome # "yes" THEN "done" ELSE "ready"
    BY DEF Return, After
  <1>3. result' \in [Calls -> Outcome]
    BY <1>1, <1>2 DEF CheckedFirst, Outcome
  <1>4. ASSUME calls = 1, outcome = "yes"
        PROVE  result'[1] = [outcome |-> "yes", of |-> 1]
    BY <1>1, <1>2, <1>4 DEF CheckedFirst
  <1>5. ASSUME calls >= 2
        PROVE  result'[1] = [outcome |-> "yes", of |-> 1]
    BY <1>1, <1>2, <1>5 DEF CheckedFirst
  <1> QED
    BY <1>1, <1>2, <1>3, <1>4, <1>5 DEF CheckedFirst

LEMMA NextSession == SessionInv /\ [Next]_vars => SessionInv'
  <1> SUFFICES ASSUME SessionInv, [Next]_vars PROVE AnswersType' /\ CheckedFirst'
    BY NextIInv DEF SessionInv
  <1> USE BoundsAssumption
  <1>0. IInv /\ AnswersType /\ CheckedFirst
    BY DEF SessionInv
  <1>1. ASSUME UNCHANGED <<toClient, calls, server, reply>> PROVE AnswersType'
    BY <1>0, <1>1 DEF AnswersType
  <1>2. ASSUME UNCHANGED <<client, result, calls>> PROVE CheckedFirst'
    BY <1>0, <1>2 DEF CheckedFirst
  <1>3. CASE Send
    <2>1. /\ calls \in Nat /\ calls' = calls + 1 /\ calls' \in Calls /\ client = "ready"
          /\ UNCHANGED <<toClient, server, reply>>
      BY <1>0, <1>3 DEF Send, IInv, PipelineType, Calls, serverVars
    <2>2. AnswersType'
      <3>1. ASSUME NEW k \in 1..Len(toClient) PROVE toClient[k].answer.of <= calls + 1
        <4>1. toClient[k] \in Message /\ toClient[k].answer.of <= calls
          BY <1>0 DEF AnswersType
        <4>2. toClient[k].answer.of \in Nat
          BY <4>1 DEF Message, Answers, Calls
        <4> QED
          BY <2>1, <4>1, <4>2
      <3>2. reply \in Answers /\ reply.of <= calls => reply.of <= calls + 1
        BY <2>1 DEF Answers, Calls
      <3> QED
        BY <1>0, <2>1, <3>1, <3>2 DEF AnswersType
    <2>3. \/ client' = "awaitLen" /\ UNCHANGED result
          \/ /\ client' = "done"
             /\ result' = [result EXCEPT ![calls'] = [outcome |-> "raised", of |-> 0]]
      BY <1>3 DEF Send
    <2>4. calls >= 1 => result[1] = [outcome |-> "yes", of |-> 1]
      BY <1>0, <2>1 DEF CheckedFirst
    <2>5. result' \in [Calls -> Outcome]
      BY <1>0, <2>1, <2>3 DEF CheckedFirst, Outcome, Outcomes
    <2>6. calls' >= 2 => result'[1] = [outcome |-> "yes", of |-> 1]
      BY <1>0, <2>1, <2>3, <2>4 DEF CheckedFirst, Calls
    <2> QED
      BY <2>1, <2>2, <2>3, <2>5, <2>6 DEF CheckedFirst, Waiting
  <1>4. CASE ReadLen
    <2>1. /\ toClient # <<>> /\ toClient' = Tail(toClient)
          /\ client = "awaitLen" /\ client' = "awaitData"
          /\ UNCHANGED <<calls, result, server, reply>>
      BY <1>4 DEF ReadLen, serverVars
    <2> QED
      BY <1>0, <2>1, TailAnswers DEF AnswersType, CheckedFirst, Waiting
  <1>5. CASE ReadData
    <2> DEFINE a == Head(toClient).answer
    <2>1. /\ toClient # <<>> /\ toClient' = Tail(toClient)
          /\ client \in Waiting /\ Return(a.reply, a.of)
          /\ UNCHANGED <<calls, server, reply>>
      BY <1>5 DEF ReadData, serverVars, Waiting
    <2>2. a \in Answers /\ a.of <= calls
      BY <1>0, <2>1, TailAnswers DEF Message
    <2>3. /\ a.reply \in Outcomes /\ a.of \in Calls \cup {0}
          /\ calls = 1 /\ a.reply = "yes" => a.of = 1
      BY <2>2 DEF Answers, Replies, Outcomes, Calls
    <2>4. AnswersType'
      BY <1>0, <2>1, TailAnswers DEF AnswersType
    <2> HIDE DEF a
    <2>5. CheckedFirst'
      BY <1>0, <2>1, <2>3, ReturnChecked
    <2> QED
      BY <2>4, <2>5
  <1>6. CASE ReadGarbage
    <2>1. /\ toClient' = <<>> /\ client = "awaitLen" /\ client' = "blocked"
          /\ UNCHANGED <<calls, result, server, reply>>
      BY <1>6 DEF ReadGarbage, serverVars
    <2> QED
      BY <1>0, <2>1 DEF AnswersType, CheckedFirst, Waiting
  <1>7. CASE GarbageEnds
    <2>1. /\ toClient' = <<>> /\ client = "blocked" /\ Return("garbage", 0)
          /\ UNCHANGED <<calls, server, reply>>
      BY <1>7 DEF GarbageEnds, serverVars
    <2>2. CheckedFirst'
      BY <1>0, <2>1, ReturnChecked DEF Outcomes
    <2> QED
      BY <1>0, <2>1, <2>2 DEF AnswersType
  <1>8. CASE Timeout
    <2>1. client \in Waiting /\ Return("timeout", 0) /\ UNCHANGED <<calls, toClient, server, reply>>
      BY <1>8 DEF Timeout, serverVars
    <2>2. CheckedFirst'
      BY <1>0, <2>1, ReturnChecked DEF Outcomes
    <2> QED
      BY <1>1, <2>1, <2>2
  <1>9. CASE EndOfStream \/ Truncated
    <2>1. /\ client \in Waiting /\ toClient' = <<>>
          /\ UNCHANGED <<calls, server, reply>>
      BY <1>9 DEF EndOfStream, Truncated, serverVars
    <2>2. Return("lost", 0) \/ Return("garbage", 0)
      BY <1>9 DEF EndOfStream, Truncated
    <2>3. CheckedFirst'
      BY <1>0, <2>1, <2>2, ReturnChecked DEF Outcomes
    <2> QED
      BY <1>0, <2>1, <2>3 DEF AnswersType
  <1>10. CASE Recv \/ Handle
    <2>1. CheckedFirst'
      BY <1>2, <1>10 DEF Recv, Handle, clientVars
    <2>2. CASE Recv
      BY <1>0, <2>1, <2>2 DEF Recv, AnswersType, clientVars
    <2>3. CASE Handle
      <3>1. /\ UNCHANGED <<calls, toClient>>
            /\ reply.of \in Calls /\ reply.of <= calls
            /\ \E r \in Replies : reply' = [reply EXCEPT !.reply = r]
        BY <1>0, <2>3 DEF Handle, IInv, Ordered, clientVars
      <3>2. reply' \in Answers /\ reply'.of = reply.of
        BY <1>0, <3>1 DEF IInv, PipelineType, Answers, NoReply
      <3> QED
        BY <1>0, <2>1, <3>1, <3>2 DEF AnswersType
    <2> QED
      BY <1>10, <2>1, <2>2, <2>3
  <1>11. CASE SendLen \/ SendData
    <2>1. PICK part \in {"len", "data"} :
             /\ server \in {"sendLen", "sendData"}
             /\ toClient' = Append(toClient, [part |-> part, answer |-> reply])
             /\ UNCHANGED <<client, result, calls, reply>>
      BY <1>11 DEF SendLen, SendData, SendPart, Part, clientVars
    <2> DEFINE m == [part |-> part, answer |-> reply]
    <2>2. m \in Message /\ m.answer.of <= calls
      BY <1>0, <2>1 DEF AnswersType, Message
    <2>3. toClient \in Seq(Message)
      BY <1>0 DEF AnswersType
    <2> HIDE DEF m
    <2>4. /\ Append(toClient, m) \in Seq(Message)
          /\ \A k \in 1..Len(Append(toClient, m)) :
                Append(toClient, m)[k] = m \/ (k \in 1..Len(toClient) /\ Append(toClient, m)[k] = toClient[k])
      BY <2>2, <2>3
    <2>5. toClient' = Append(toClient, m)
      BY <2>1 DEF m
    <2>6. AnswersType'
      BY <1>0, <2>1, <2>2, <2>4, <2>5 DEF AnswersType
    <2> QED
      BY <1>2, <2>1, <2>6
  <1>12. CASE Exit
    <2>1. server' = "recv" /\ UNCHANGED <<client, result, calls, toClient, reply>>
      BY <1>12 DEF Exit, clientVars
    <2> QED
      BY <1>0, <1>2, <2>1 DEF AnswersType
  <1>13. CASE Arrive \/ Start \/ UNCHANGED vars
    BY <1>1, <1>2, <1>13 DEF Arrive, Start, vars, clientVars, serverVars
  <1> QED
    BY <1>3, <1>4, <1>5, <1>6, <1>7, <1>8, <1>9, <1>10, <1>11, <1>12, <1>13
       DEF Next, Client, Server

\* The daemon touches no item of a web request unless it answered that request's own
\* session check, and not some other call, with true.
THEOREM SessionCheckedFirst == Spec => []OnlyWithValidSession
  <1>1. SessionInv => OnlyWithValidSession
    <2> SUFFICES ASSUME SessionInv, NEW i \in 1..Len(log), log[i] > 1
                 PROVE  result[1] = [outcome |-> "yes", of |-> 1]
      BY DEF OnlyWithValidSession
    <2>1. log \in Seq(Calls) /\ log[i] <= calls /\ calls \in Nat
      BY DEF SessionInv, IInv, PipelineType, Ordered
    <2>2. log[i] \in Calls
      BY <2>1
    <2>3. calls >= 2
      BY <2>1, <2>2, BoundsAssumption DEF Calls
    <2> QED
      BY <2>3 DEF SessionInv, CheckedFirst
  <1> QED
    BY <1>1, InitSession, NextSession, PTL DEF Spec
-----------------------------------------------------------------------------
(* Which call an answer is for.  The answers that the client has yet to    *)
(* read on its present connection are, as long as it knows where messages  *)
(* begin, those to successive calls: the ones on their way, the one the    *)
(* server is working on, and those to the requests on their way.           *)

Serving == {"handle", "sendLen", "sendData"}
Pending == {"blocked"} \cup Waiting  \* the client, in a call

\* The calls of the present connection that have timed out.
Late == {b \in 1..calls : connOf[b] = conn /\ result[b].outcome = "timeout"}

\* The call whose answer comes next.
Due == (IF client = "ready" THEN calls + 1 ELSE calls) - Cardinality(Late)

Half(n) == n \div 2

\* Lengths and objects sent since the answer that is due, of which the client may have read
\* the first length; whether an answer is being worked on.
LenRead == IF client = "awaitData" THEN 1 ELSE 0
Sent == Len(toClient) + LenRead
Handling == IF server \in Serving THEN 1 ELSE 0

\* Connections are numbered; what is on its way belongs to the present one, and its thread
\* ends with it.
Connections ==
    /\ conn \in Nat /\ connected \in BOOLEAN /\ garbled \in BOOLEAN
    /\ connOf \in [Calls -> Nat]
    /\ \A b \in Calls : connOf[b] <= conn
    /\ client \in Pending => connOf[calls] = conn
    /\ ~connected => toServer = <<>> /\ server = "recv"
    /\ server \in {"recv"} \cup Serving
    /\ \A i \in 1..Len(toClient) : connOf[toClient[i].answer.of] = conn
    /\ \A j \in 1..Len(toServer) : connOf[toServer[j]] = conn
    /\ server \in Serving => connOf[reply.of] = conn

\* A call has no outcome before it returns; only a client that waits for a length can be lost.
Outstanding ==
    /\ \A c \in Calls : c > calls \/ (c = calls /\ client \in Pending)
                          => result[c].outcome = "none"
    /\ garbled => client # "awaitData"
    /\ client = "blocked" => garbled

InTurn ==
    ~garbled /\ client # "done" =>
      /\ \A i \in 1..Len(toClient) : toClient[i].answer.of = Due + Half(i - 1 + LenRead)
      /\ server \in Serving => reply.of = Due + Half(Sent)
      /\ \A j \in 1..Len(toServer) : toServer[j] = Due + Half(Sent) + Handling + j - 1
      /\ connected => /\ Due + Half(Sent) + Handling + Len(toServer) = calls + 1
                      /\ (Sent % 2 = 1) <=> server = "sendData"

\* What AnswersLagByTimeouts says, of answers that are to calls.
Lagging ==
    \A c \in Calls : Answered(c) =>
        /\ result[c].of \in Calls
        /\ result[c].of = c - Cardinality(TimedOutBefore(c))
        /\ connOf[result[c].of] = connOf[c]

LagInv == SessionInv /\ Connections /\ Outstanding /\ InTurn /\ Lagging

LEMMA Halves ==
    /\ Half(0) = 0 /\ Half(1) = 0
    /\ \A n \in Nat : /\ Half(n) \in Nat
                      /\ Half(n + 2) = Half(n) + 1
                      /\ n % 2 = 0 => Half(n + 1) = Half(n) /\ (n + 1) % 2 = 1
                      /\ n % 2 = 1 => Half(n + 1) = Half(n) + 1 /\ (n + 1) % 2 = 0
                      /\ n % 2 \in {0, 1}
                      /\ (n + 2) % 2 = n % 2
  BY DEF Half

LEMMA InitLag == Init => LagInv
  <1> SUFFICES ASSUME Init PROVE LagInv
    OBVIOUS
  <1>1. Connections
    <2>1. \A i \in 1..Len(<<>>) : FALSE
      OBVIOUS
    <2>2. connOf \in [Calls -> Nat] /\ \A b \in Calls : connOf[b] <= conn
      BY DEF Init
    <2> QED
      BY <2>1, <2>2 DEF Init, Connections, Pending, Waiting, Serving
  <1>2. Outstanding
    BY DEF Init, Outstanding
  <1>3. Late = {}
    BY DEF Init, Late
  <1>4. Due = 1 /\ Sent = 0 /\ Handling = 0
    BY <1>3, FS_EmptySet DEF Init, Due, Sent, LenRead, Handling, Serving
  <1>5. InTurn
    BY <1>4, Halves DEF Init, InTurn, Serving
  <1>6. Lagging
    BY DEF Init, Lagging, Answered, Replies
  <1> QED
    BY <1>1, <1>2, <1>5, <1>6, InitSession DEF LagInv

LEMMA LateFinite ==
    ASSUME SessionInv
    PROVE  IsFiniteSet(Late) /\ Cardinality(Late) \in Nat /\ Due \in Int
  <1>1. calls \in Nat
    BY DEF SessionInv, IInv, PipelineType
  <1>2. IsFiniteSet(1..calls) /\ Late \subseteq 1..calls
    BY <1>1, FS_Interval DEF Late
  <1>3. IsFiniteSet(Late)
    BY <1>2, FS_Subset
  <1>4. Cardinality(Late) \in Nat
    BY <1>3, FS_CardinalityType
  <1> QED
    BY <1>1, <1>3, <1>4 DEF Due

\* A call that returns, and what it leaves alone.
LEMMA ReturnFacts ==
    ASSUME SessionInv, client \in Pending, UNCHANGED calls, NEW outcome, NEW of,
           Return(outcome, of)
    PROVE  /\ calls \in Calls
           /\ result' = [result EXCEPT ![calls] = [outcome |-> outcome, of |-> of]]
           /\ result'[calls] = [outcome |-> outcome, of |-> of]
           /\ \A c \in Calls \ {calls} : result'[c] = result[c]
           /\ client' \in {"ready", "done"}
  <1>1. calls \in Calls
    BY BoundsAssumption DEF SessionInv, IInv, PipelineType, Calls, CheckedFirst, Pending
  <1>2. result \in [Calls -> Outcome]
    BY DEF SessionInv, CheckedFirst
  <1> QED
    BY <1>1, <1>2 DEF Return, After

\* A call is made on the present connection; a connection that is lost takes its requests with it.
LEMMA NextConnections == LagInv /\ [Next]_vars => Connections'
  <1> SUFFICES ASSUME LagInv, [Next]_vars PROVE Connections'
    OBVIOUS
  <1> USE DEF clientVars, serverVars
  <1>0. /\ SessionInv /\ Connections /\ Outstanding
        /\ calls \in Nat /\ toServer \in Seq(Calls) /\ toClient \in Seq(Message)
    BY DEF LagInv, SessionInv, IInv, PipelineType, AnswersType
  <1>a. \A i \in 1..Len(<<>>) : FALSE
    OBVIOUS
  <1>1. ASSUME UNCHANGED <<conn, connOf, connected, garbled, toServer, toClient, server, reply, calls>>,
               client' \in Pending => client \in Pending
        PROVE  Connections'
    BY <1>0, <1>1 DEF Connections
  <1>2. CASE Send
    <2> DEFINE c == calls + 1
    <2>1. /\ client = "ready" /\ c \in Calls /\ calls' = c
          /\ connOf' = [connOf EXCEPT ![c] = conn]
          /\ UNCHANGED <<conn, connected, garbled, toClient, server, reply>>
          /\ client' \in {"awaitLen", "done"}
          /\ toServer' = toServer \/ (connected /\ toServer' = Append(toServer, c))
      BY <1>0, <1>2, BoundsAssumption DEF Send, Calls
    <2>2. /\ connOf' \in [Calls -> Nat] /\ connOf'[c] = conn
          /\ \A b \in Calls : b <= calls => connOf'[b] = connOf[b]
          /\ \A b \in Calls : connOf'[b] <= conn
      BY <1>0, <2>1 DEF Connections, Calls
    <2>3. \A i \in 1..Len(toClient) : connOf'[toClient[i].answer.of] = conn
      <3> SUFFICES ASSUME NEW i \in 1..Len(toClient)
                   PROVE  connOf'[toClient[i].answer.of] = conn
        OBVIOUS
      <3>1. toClient[i] \in Message /\ toClient[i].answer.of <= calls
        BY <1>0 DEF SessionInv, AnswersType
      <3>2. toClient[i].answer.of \in Calls
        BY <3>1 DEF Message, Answers
      <3> QED
        BY <1>0, <2>2, <3>1, <3>2 DEF Connections
    <2>4. \A j \in 1..Len(toServer) : connOf'[toServer[j]] = conn
      <3> SUFFICES ASSUME NEW j \in 1..Len(toServer)
                   PROVE  connOf'[toServer[j]] = conn
        OBVIOUS
      <3>1. toServer[j] \in Calls /\ toServer[j] <= calls
        BY <1>0 DEF SessionInv, IInv, Ordered
      <3> QED
        BY <1>0, <2>2, <3>1 DEF Connections
    <2>5. \A j \in 1..Len(toServer') : connOf'[toServer'[j]] = conn
      <3>1. CASE toServer' = toServer
        BY <2>4, <3>1
      <3>2. CASE toServer' = Append(toServer, c)
        <4>1. \A j \in 1..Len(toServer') :
                 (j \in 1..Len(toServer) /\ toServer'[j] = toServer[j]) \/ toServer'[j] = c
          BY <1>0, <2>1, <3>2
        <4> QED
          BY <2>2, <2>4, <4>1
      <3> QED
        BY <2>1, <3>1, <3>2
    <2>6. server \in Serving => connOf'[reply.of] = conn
      <3>1. server \in Serving => reply.of \in Calls /\ reply.of <= calls
        BY <1>0 DEF SessionInv, IInv, Ordered, AnswersType, Answers, Serving
      <3> QED
        BY <1>0, <2>2, <3>1 DEF Connections
    <2>7. ~connected => toServer' = <<>> /\ server = "recv"
      BY <1>0, <2>1 DEF Connections
    <2> HIDE DEF c
    <2> QED
      BY <1>0, <2>1, <2>2, <2>3, <2>5, <2>6, <2>7 DEF Connections
  <1>3. CASE ReadLen \/ ReadData
    <2>1. /\ toClient # <<>> /\ toClient' = Tail(toClient)
          /\ UNCHANGED <<conn, connOf, connected, garbled, toServer, server, reply, calls>>
          /\ client \in Pending
      BY <1>3 DEF ReadLen, ReadData, Pending, Waiting
    <2>2. \A i \in 1..Len(toClient') : i + 1 \in 1..Len(toClient) /\ toClient'[i] = toClient[i + 1]
      BY <1>0, <2>1
    <2>3. \A i \in 1..Len(toClient') : connOf'[toClient'[i].answer.of] = conn'
      BY <1>0, <2>1, <2>2 DEF Connections
    <2> QED
      BY <1>0, <2>1, <2>3 DEF Connections
  <1>4. CASE ReadGarbage \/ GarbageEnds
    <2>1. /\ toClient' = <<>>
          /\ UNCHANGED <<conn, connOf, connected, garbled, toServer, server, reply, calls>>
          /\ client \in Pending
      BY <1>4 DEF ReadGarbage, GarbageEnds, Pending, Waiting
    <2> QED
      BY <1>0, <2>1 DEF Connections
  <1>5. CASE Timeout
    <2>1. /\ client \in Waiting
          /\ UNCHANGED <<conn, connOf, connected, toServer, toClient, server, reply, calls>>
          /\ garbled' = (garbled \/ client = "awaitData")
      BY <1>5 DEF Timeout
    <2>2. garbled' \in BOOLEAN
      BY <1>0, <2>1 DEF Connections
    <2> QED
      BY <1>0, <2>1, <2>2 DEF Connections, Pending
  <1>6. CASE EndOfStream \/ Truncated
    <2>1. /\ client \in Pending /\ toClient' = <<>> /\ ~connected
          /\ UNCHANGED <<connOf, toServer, server, reply, calls>>
          /\ Return("lost", 0) \/ Return("garbage", 0)
          /\ \/ conn' = conn + 1 /\ connected' = TRUE /\ garbled' = FALSE
             \/ UNCHANGED <<conn, connected, garbled>>
      BY <1>6 DEF EndOfStream, Truncated, Reconnect, Pending
    <2>2. client' \notin Pending
      BY <1>0, <2>1, ReturnFacts DEF Pending, Waiting
    <2>3. toServer = <<>> /\ server = "recv"
      BY <1>0, <2>1 DEF Connections
    <2>4. conn' \in Nat /\ \A b \in Calls : connOf[b] <= conn'
      BY <1>0, <2>1 DEF Connections
    <2> QED
      BY <1>0, <1>a, <2>1, <2>2, <2>3, <2>4 DEF Connections, Serving
  <1>7. CASE Recv
    <2>1. /\ server = "recv" /\ toServer # <<>> /\ toServer' = Tail(toServer)
          /\ server' = "handle" /\ reply' = [of |-> Head(toServer), reply |-> "no"]
          /\ UNCHANGED <<client, conn, connOf, connected, garbled, toClient, calls>>
      BY <1>7 DEF Recv
    <2>2. /\ 1 \in 1..Len(toServer) /\ Head(toServer) = toServer[1]
          /\ \A j \in 1..Len(toServer') : j + 1 \in 1..Len(toServer) /\ toServer'[j] = toServer[j + 1]
      BY <1>0, <2>1
    <2>3. \A j \in 1..Len(toServer') : connOf'[toServer'[j]] = conn'
      BY <1>0, <2>1, <2>2 DEF Connections
    <2>4. connOf'[reply'.of] = conn'
      BY <1>0, <2>1, <2>2 DEF Connections
    <2>5. connected
      BY <1>0, <2>1 DEF Connections
    <2> QED
      BY <1>0, <2>1, <2>3, <2>4, <2>5 DEF Connections, Serving
  <1>8. CASE Handle
    <2>1. /\ server = "handle" /\ server' = "sendLen" /\ reply'.of = reply.of
          /\ UNCHANGED <<client, conn, connOf, connected, garbled, toServer, toClient, calls>>
      BY <1>0, <1>8 DEF Handle, SessionInv, IInv, PipelineType, Answers, NoReply
    <2> QED
      BY <1>0, <2>1 DEF Connections, Serving
  <1>9. CASE SendLen \/ SendData
    <2>1. PICK part \in {"len", "data"} :
             /\ server \in {"sendLen", "sendData"} /\ server' \in {"sendData", "recv"}
             /\ toClient' = Append(toClient, Part(part, reply))
             /\ UNCHANGED <<client, conn, connOf, connected, garbled, toServer, reply, calls>>
      BY <1>9 DEF SendLen, SendData, SendPart
    <2>2. Part(part, reply).answer = reply
      BY DEF Part
    <2>3. Part(part, reply) \in Message
      BY <1>0, <2>1 DEF Part, Message, SessionInv, AnswersType
    <2> DEFINE m == Part(part, reply)
    <2>4. m \in Message /\ m.answer = reply /\ toClient' = Append(toClient, m)
      BY <2>1, <2>2, <2>3
    <2> HIDE DEF m
    <2>5. \A i \in 1..Len(toClient') :
             (i \in 1..Len(toClient) /\ toClient'[i] = toClient[i]) \/ toClient'[i] = m
      BY <1>0, <2>4
    <2>6. connOf[m.answer.of] = conn /\ connected
      BY <1>0, <2>1, <2>4 DEF Connections, Serving
    <2>7. \A i \in 1..Len(toClient') : connOf'[toClient'[i].answer.of] = conn'
      BY <1>0, <2>1, <2>5, <2>6 DEF Connections
    <2> QED
      BY <1>0, <2>1, <2>6, <2>7 DEF Connections, Serving
  <1>10. CASE Exit
    <2>1. /\ connected' = FALSE /\ toServer' = <<>> /\ server' = "recv"
          /\ UNCHANGED <<client, conn, connOf, garbled, toClient, reply, calls>>
      BY <1>10 DEF Exit
    <2> QED
      BY <1>0, <1>a, <2>1 DEF Connections, Serving
  <1>11. CASE Arrive \/ Start \/ UNCHANGED vars
    BY <1>1, <1>11 DEF Arrive, Start, vars
  <1> QED
    BY <1>2, <1>3, <1>4, <1>5, <1>6, <1>7, <1>8, <1>9, <1>10, <1>11 DEF Next, Client, Server

LEMMA NextOutstanding == LagInv /\ [Next]_vars => Outstanding'
  <1> SUFFICES ASSUME LagInv, [Next]_vars PROVE Outstanding'
    OBVIOUS
  <1> USE DEF clientVars, serverVars
  <1>0. /\ SessionInv /\ Outstanding
        /\ calls \in Nat /\ result \in [Calls -> Outcome]
    BY DEF LagInv, SessionInv, IInv, PipelineType, CheckedFirst
  <1>1. CASE UNCHANGED <<calls, client, result, garbled>>
    BY <1>0, <1>1 DEF Outstanding
  <1>2. CASE Send
    <2>1. /\ calls' = calls + 1 /\ UNCHANGED garbled
          /\ \/ client' = "awaitLen" /\ UNCHANGED result
             \/ /\ client' = "done"
                /\ result' = [result EXCEPT ![calls'] = [outcome |-> "raised", of |-> 0]]
      BY <1>2 DEF Send
    <2>2. \A c \in Calls : c > calls' => c > calls /\ c # calls'
      BY <1>0, <2>1 DEF Calls
    <2>3. calls' > calls
      BY <1>0, <2>1
    <2> QED
      BY <1>0, <2>1, <2>2, <2>3 DEF Outstanding, Pending, Waiting
  <1>3. CASE ReadLen \/ ReadGarbage
    BY <1>0, <1>3 DEF ReadLen, ReadGarbage, Outstanding, Pending, Waiting
  <1>4. ASSUME client \in Pending, UNCHANGED calls, NEW outcome, NEW of, Return(outcome, of)
        PROVE  Outstanding'
    <2>1. /\ \A c \in Calls \ {calls} : result'[c] = result[c]
          /\ client' \in {"ready", "done"}
      BY <1>0, <1>4, ReturnFacts
    <2>2. \A c \in Calls : c > calls => c # calls
      BY <1>0 DEF Calls
    <2> QED
      BY <1>0, <1>4, <2>1, <2>2 DEF Outstanding, Pending, Waiting
  <1>5. CASE ReadData \/ GarbageEnds \/ Timeout \/ EndOfStream \/ Truncated
    BY <1>4, <1>5 DEF ReadData, GarbageEnds, Timeout, EndOfStream, Truncated, Pending, Waiting
  <1>6. CASE Arrive \/ Server \/ Exit \/ Start
    BY <1>1, <1>6 DEF Arrive, Server, Recv, Handle, SendLen, SendData, SendPart, Exit, Start
  <1> QED
    BY <1>1, <1>2, <1>3, <1>5, <1>6 DEF Next, Client, vars

\* A return on the present connection: the answer due next is the following one, unless it was
\* a timeout.
LEMMA DueAfterReturn ==
    ASSUME LagInv, client \in Pending, UNCHANGED <<calls, conn, connOf>>,
           NEW outcome, NEW of, Return(outcome, of), client' = "ready"
    PROVE  Due' = IF outcome = "timeout" THEN Due ELSE Due + 1
  <1>1. /\ SessionInv /\ calls \in Calls /\ calls \in Nat
        /\ result'[calls].outcome = outcome
        /\ \A c \in Calls \ {calls} : result'[c] = result[c]
        /\ result[calls].outcome = "none" /\ connOf[calls] = conn
    <2>1. SessionInv /\ Outstanding /\ Connections /\ calls \in Nat
      BY DEF LagInv, SessionInv, IInv, PipelineType
    <2>2. /\ calls \in Calls
          /\ result'[calls] = [outcome |-> outcome, of |-> of]
          /\ \A c \in Calls \ {calls} : result'[c] = result[c]
      BY <2>1, ReturnFacts
    <2>3. result[calls].outcome = "none" /\ connOf[calls] = conn
      BY <2>1, <2>2 DEF Outstanding, Connections
    <2>4. result'[calls].outcome = outcome
      BY <2>2
    <2> QED
      BY <2>1, <2>2, <2>3, <2>4
  <1>2. \A b \in 1..calls : b \in Calls
    BY <1>1, BoundsAssumption DEF Calls
  <1>3. IsFiniteSet(Late) /\ Cardinality(Late) \in Nat /\ calls \notin Late
    BY <1>1, LateFinite DEF Late
  <1>4. client # "ready"
    BY DEF Pending, Waiting
  <1>5. CASE outcome = "timeout"
    <2>1. Late' = Late \cup {calls}
      <3>1. calls \in 1..calls
        BY <1>1 DEF Calls
      <3>2. \A b \in 1..calls : b # calls => result'[b] = result[b]
        BY <1>1, <1>2
      <3> QED
        BY <1>1, <1>5, <3>1, <3>2 DEF Late
    <2>2. Cardinality(Late') = Cardinality(Late) + 1
      BY <1>3, <2>1, FS_AddElement
    <2> QED
      BY <1>1, <1>3, <1>4, <1>5, <2>2 DEF Due
  <1>6. CASE outcome # "timeout"
    <2>1. Late' = Late
      BY <1>1, <1>2, <1>6 DEF Late
    <2> QED
      BY <1>1, <1>3, <1>4, <1>6, <2>1 DEF Due
  <1> QED
    BY <1>5, <1>6

LEMMA DueAfterSend ==
    ASSUME LagInv, Send, client' # "done"
    PROVE  Due' = Due
  <1>1. /\ SessionInv /\ calls \in Nat /\ client = "ready" /\ calls' = calls + 1 /\ calls' \in Calls
        /\ calls' > calls /\ client' = "awaitLen" /\ UNCHANGED <<result, conn>>
        /\ connOf' = [connOf EXCEPT ![calls'] = conn]
        /\ connOf \in [Calls -> Nat]
        /\ result[calls'].outcome = "none"
    <2>1. SessionInv /\ Outstanding /\ calls \in Nat /\ connOf \in [Calls -> Nat]
      BY DEF LagInv, SessionInv, IInv, PipelineType, Connections
    <2>2. calls' \in Calls /\ calls' = calls + 1 /\ calls' > calls
      BY <2>1, BoundsAssumption DEF Send, Calls
    <2>3. result[calls'].outcome = "none"
      BY <2>1, <2>2 DEF Outstanding
    <2> QED
      BY <2>1, <2>2, <2>3 DEF Send
  <1>2. \A b \in 1..calls : b \in Calls /\ b # calls'
    BY <1>1, BoundsAssumption DEF Calls
  <1>3. 1..calls' = 1..calls \cup {calls'}
    BY <1>1
  <1>4. Late' = Late
    BY <1>1, <1>2, <1>3 DEF Late
  <1> QED
    BY <1>1, <1>4, LateFinite DEF Due

\* The other steps.
LEMMA DueUnchanged ==
    ASSUME UNCHANGED <<calls, conn, connOf, result>>, client' = "ready" <=> client = "ready"
    PROVE  Due' = Due
  <1>1. Late' = Late
    BY DEF Late
  <1> QED
    BY <1>1 DEF Due

\* A new connection has seen no timeout.
LEMMA DueOnReconnect ==
    ASSUME LagInv, client \in Pending, UNCHANGED <<calls, connOf>>, Return("lost", 0),
           client' = "ready", conn' = conn + 1
    PROVE  Due' = calls + 1
  <1>1. /\ SessionInv /\ calls \in Calls /\ conn \in Nat
        /\ \A b \in Calls : connOf[b] \in Nat /\ connOf[b] <= conn
    BY ReturnFacts DEF LagInv, Connections, Calls
  <1>2. \A b \in 1..calls : b \in Calls
    BY <1>1, BoundsAssumption DEF Calls
  <1>3. Late' = {}
    <2> SUFFICES ASSUME NEW b \in 1..calls, connOf[b] = conn + 1
                 PROVE  FALSE
      BY DEF Late
    <2> QED
      BY <1>1, <1>2
  <1> QED
    BY <1>1, <1>3, FS_EmptySet DEF Due, Calls

LEMMA NextInTurn == LagInv /\ [Next]_vars => InTurn'
  <1> SUFFICES ASSUME LagInv, [Next]_vars, ~garbled', client' # "done"
               PROVE  InTurn'
    BY DEF InTurn
  <1> USE DEF clientVars, serverVars
  <1>0. /\ SessionInv /\ Connections /\ Outstanding /\ InTurn
        /\ calls \in Nat /\ toServer \in Seq(Calls) /\ toClient \in Seq(Message)
        /\ Due \in Int /\ LenRead \in {0, 1} /\ Sent \in Nat /\ Handling \in {0, 1}
    BY LateFinite DEF LagInv, SessionInv, IInv, PipelineType, AnswersType, LenRead, Sent, Handling
  <1>a. \A i \in 1..Len(<<>>) : FALSE
    OBVIOUS
  <1>1. ASSUME UNCHANGED <<calls, conn, connOf, result, client, garbled, connected, toClient,
                           toServer, server, reply>>
        PROVE  InTurn'
    BY <1>0, <1>1, DueUnchanged DEF InTurn, LenRead, Sent, Handling
  <1>2. CASE Send
    <2>1. /\ client = "ready" /\ calls' = calls + 1 /\ client' = "awaitLen"
          /\ UNCHANGED <<garbled, connected, toClient, server, reply>>
          /\ toServer' = IF connected THEN Append(toServer, calls + 1) ELSE toServer
      BY <1>2 DEF Send
    <2>2. Due' = Due /\ LenRead' = LenRead /\ Sent' = Sent /\ Handling' = Handling
      BY <1>2, <2>1, DueAfterSend DEF LenRead, Sent, Handling
    <2>3. /\ \A i \in 1..Len(toClient) : toClient[i].answer.of = Due + Half(i - 1 + LenRead)
          /\ server \in Serving => reply.of = Due + Half(Sent)
          /\ \A j \in 1..Len(toServer) : toServer[j] = Due + Half(Sent) + Handling + j - 1
          /\ connected => /\ Due + Half(Sent) + Handling + Len(toServer) = calls + 1
                          /\ (Sent % 2 = 1) <=> server = "sendData"
      BY <1>0, <2>1 DEF InTurn
    <2>4. CASE ~connected
      BY <2>1, <2>2, <2>3, <2>4 DEF InTurn
    <2>5. CASE connected
      <3> DEFINE base == Due + Half(Sent) + Handling
                 c == calls + 1
      <3>1. base \in Int /\ base + Len(toServer) = c
        <4>1. Half(Sent) \in Nat
          BY <1>0, Halves
        <4> QED
          BY <1>0, <2>3, <2>5, <4>1
      <3>2. /\ toServer' = Append(toServer, c) /\ c \in Calls
        BY <1>0, <1>2, <2>1, <2>5, BoundsAssumption DEF Send, Calls
      <3> HIDE DEF c
      <3>3. /\ Len(toServer') = Len(toServer) + 1 /\ Len(toServer) \in Nat
            /\ \A j \in 1..Len(toServer) : toServer'[j] = toServer[j]
            /\ toServer'[Len(toServer) + 1] = c
        BY <1>0, <3>2
      <3>4. \A j \in 1..Len(toServer) : toServer[j] = base + j - 1
        BY <2>3
      <3> HIDE DEF base
      <3>5. \A j \in 1..Len(toServer') : toServer'[j] = base + j - 1
        <4> SUFFICES ASSUME NEW j \in 1..Len(toServer')
                     PROVE  toServer'[j] = base + j - 1
          OBVIOUS
        <4>1. CASE j \in 1..Len(toServer)
          BY <3>3, <3>4, <4>1
        <4>2. CASE j = Len(toServer) + 1
          BY <3>1, <3>3, <4>2
        <4> QED
          BY <3>3, <4>1, <4>2
      <3>6. base + Len(toServer') = calls' + 1
        BY <1>0, <2>1, <3>1, <3>3 DEF c
      <3> QED
        BY <2>1, <2>2, <2>3, <2>5, <3>5, <3>6 DEF InTurn, base
    <2> QED
      BY <2>4, <2>5
  <1>3. CASE ReadLen
    <2>1. /\ client = "awaitLen" /\ client' = "awaitData" /\ toClient # <<>>
          /\ toClient' = Tail(toClient)
          /\ UNCHANGED <<calls, conn, connOf, result, garbled, connected, toServer, server, reply>>
      BY <1>3 DEF ReadLen
    <2>2. /\ Len(toClient') = Len(toClient) - 1 /\ Len(toClient) \in Nat
          /\ \A i \in 1..Len(toClient') : i + 1 \in 1..Len(toClient) /\ toClient'[i] = toClient[i + 1]
      BY <1>0, <2>1
    <2>3. Due' = Due /\ LenRead = 0 /\ LenRead' = 1 /\ Sent' = Sent /\ Handling' = Handling
      BY <2>1, <2>2, DueUnchanged DEF LenRead, Sent, Handling
    <2>4. \A i \in 1..Len(toClient') : toClient'[i].answer.of = Due + Half(i - 1 + 1)
      <3> SUFFICES ASSUME NEW i \in 1..Len(toClient')
                   PROVE  toClient'[i].answer.of = Due + Half(i - 1 + 1)
        OBVIOUS
      <3>1. toClient[i + 1].answer.of = Due + Half((i + 1) - 1 + 0)
        BY <1>0, <2>1, <2>2, <2>3 DEF InTurn
      <3>2. (i + 1) - 1 + 0 = i - 1 + 1
        OBVIOUS
      <3> QED
        BY <2>2, <3>1, <3>2
    <2> QED
      BY <1>0, <2>1, <2>3, <2>4 DEF InTurn
  <1>4. CASE ReadData
    <2> DEFINE a == Head(toClient).answer
    <2>1. /\ client = "awaitData" /\ client' = "ready" /\ toClient # <<>>
          /\ toClient' = Tail(toClient) /\ Return(a.reply, a.of) /\ a.reply # "timeout"
          /\ UNCHANGED <<calls, conn, connOf, garbled, connected, toServer, server, reply>>
      <3>1. Head(toClient) \in Message
        BY <1>0, <1>4, TailAnswers DEF ReadData, SessionInv
      <3>2. a.reply # "timeout"
        BY <3>1 DEF Message, Answers, Replies
      <3>3. client' \in {"ready", "done"}
        BY <1>4 DEF ReadData, Return, After
      <3> QED
        BY <1>4, <3>2, <3>3 DEF ReadData
    <2>2. /\ Len(toClient') = Len(toClient) - 1 /\ Len(toClient) \in Nat
          /\ \A i \in 1..Len(toClient') : i + 1 \in 1..Len(toClient) /\ toClient'[i] = toClient[i + 1]
      BY <1>0, <2>1
    <2>3. Due' = Due + 1
      <3> HIDE DEF a
      <3> QED
        BY <2>1, DueAfterReturn DEF Pending, Waiting
    <2>4. /\ LenRead = 1 /\ LenRead' = 0 /\ Sent = Sent' + 2 /\ Sent' \in Nat /\ Handling' = Handling
      BY <2>1, <2>2 DEF LenRead, Sent, Handling
    <2>5. Half(Sent) = Half(Sent') + 1 /\ Half(Sent') \in Nat /\ Sent % 2 = Sent' % 2
      BY <2>4, Halves
    <2>6. \A i \in 1..Len(toClient') : toClient'[i].answer.of = Due' + Half(i - 1 + 0)
      <3> SUFFICES ASSUME NEW i \in 1..Len(toClient')
                   PROVE  toClient'[i].answer.of = Due' + Half(i - 1 + 0)
        OBVIOUS
      <3>1. toClient[i + 1].answer.of = Due + Half((i + 1) - 1 + 1)
        BY <1>0, <2>1, <2>2, <2>4 DEF InTurn
      <3> DEFINE n == i - 1
      <3>2. n \in Nat /\ (i + 1) - 1 + 1 = n + 2 /\ i - 1 + 0 = n
        OBVIOUS
      <3> HIDE DEF n
      <3>3. Half(n + 2) = Half(n) + 1 /\ Half(n) \in Nat
        BY <3>2, Halves
      <3> QED
        BY <1>0, <2>2, <2>3, <3>1, <3>2, <3>3
    <2>7. Due + Half(Sent) = Due' + Half(Sent')
      BY <1>0, <2>3, <2>5
    <2> HIDE DEF a
    <2> QED
      BY <1>0, <2>1, <2>4, <2>5, <2>6, <2>7 DEF InTurn
  <1>5. CASE ReadGarbage \/ GarbageEnds
    BY <1>0, <1>5 DEF ReadGarbage, GarbageEnds, Outstanding
  <1>6. CASE Timeout
    <2>1. /\ client = "awaitLen" /\ client' = "ready" /\ Return("timeout", 0)
          /\ UNCHANGED <<calls, conn, connOf, garbled, connected, toServer, toClient, server, reply>>
      <3>1. client' \in {"ready", "done"}
        BY <1>6 DEF Timeout, Return, After
      <3>2. garbled \in BOOLEAN
        BY <1>0 DEF Connections
      <3> QED
        BY <1>6, <3>1, <3>2 DEF Timeout, Waiting
    <2>2. Due' = Due
      BY <2>1, DueAfterReturn DEF Pending, Waiting
    <2>3. LenRead' = LenRead /\ Sent' = Sent /\ Handling' = Handling
      BY <2>1 DEF LenRead, Sent, Handling
    <2> QED
      BY <1>0, <2>1, <2>2, <2>3 DEF InTurn
  <1>7. CASE EndOfStream \/ Truncated
    <2>1. /\ client \in Pending /\ toClient' = <<>> /\ ~connected
          /\ UNCHANGED <<connOf, toServer, server, reply, calls>>
          /\ Return("lost", 0) \/ Return("garbage", 0)
          /\ \/ conn' = conn + 1 /\ Return("lost", 0)
             \/ connected' = connected
      BY <1>7 DEF EndOfStream, Truncated, Reconnect, Pending
    <2>2. client' = "ready" /\ toServer = <<>> /\ server = "recv"
      BY <1>0, <2>1, ReturnFacts DEF Connections
    <2>3. LenRead' = 0 /\ Sent' = 0 /\ Handling' = 0 /\ Half(Sent') = 0
      BY <2>1, <2>2, Halves DEF LenRead, Sent, Handling, Serving
    <2>4. CASE connected' = connected
      BY <1>a, <2>1, <2>2, <2>4 DEF InTurn, Serving
    <2>5. CASE conn' = conn + 1 /\ Return("lost", 0)
      <3>1. Due' = calls + 1
        BY <2>1, <2>2, <2>5, DueOnReconnect
      <3>2. Due' + Half(Sent') + Handling' + Len(toServer') = calls' + 1
        BY <1>0, <2>1, <2>2, <2>3, <3>1
      <3>3. ~ (Sent' % 2 = 1)
        BY <2>3
      <3> QED
        BY <1>a, <2>1, <2>2, <3>2, <3>3 DEF InTurn, Serving
    <2> QED
      BY <2>1, <2>4, <2>5
  <1>8. CASE Server \/ Exit
    <2>0. UNCHANGED <<calls, conn, connOf, result, client, garbled>> /\ Due' = Due /\ LenRead' = LenRead
      <3>1. UNCHANGED <<calls, conn, connOf, result, client, garbled>>
        BY <1>8 DEF Server, Recv, Handle, SendLen, SendData, SendPart, Exit
      <3> QED
        BY <3>1, DueUnchanged DEF LenRead
    <2>1. /\ \A i \in 1..Len(toClient) : toClient[i].answer.of = Due + Half(i - 1 + LenRead)
          /\ server \in Serving => reply.of = Due + Half(Sent)
          /\ \A j \in 1..Len(toServer) : toServer[j] = Due + Half(Sent) + Handling + j - 1
          /\ connected => /\ Due + Half(Sent) + Handling + Len(toServer) = calls + 1
                          /\ (Sent % 2 = 1) <=> server = "sendData"
      BY <1>0, <2>0 DEF InTurn
    <2>2. server # "recv" \/ toServer # <<>> => connected
      BY <1>0 DEF Connections
    <2>3. Half(Sent) \in Nat
      BY <1>0, Halves
    <2>4. CASE Recv
      <3>1. /\ server = "recv" /\ toServer # <<>> /\ toServer' = Tail(toServer)
            /\ server' = "handle" /\ reply'.of = Head(toServer)
            /\ UNCHANGED <<connected, toClient>>
        BY <2>4 DEF Recv
      <3>2. /\ 1 \in 1..Len(toServer) /\ Head(toServer) = toServer[1]
            /\ Len(toServer') = Len(toServer) - 1 /\ Len(toServer) \in Nat
            /\ \A j \in 1..Len(toServer') : j + 1 \in 1..Len(toServer) /\ toServer'[j] = toServer[j + 1]
        BY <1>0, <3>1
      <3>3. Sent' = Sent /\ Handling = 0 /\ Handling' = 1
        BY <2>0, <3>1 DEF Sent, Handling, Serving
      <3>4. reply'.of = Due + Half(Sent)
        BY <1>0, <2>1, <2>3, <3>1, <3>2, <3>3
      <3>5. \A j \in 1..Len(toServer') : toServer'[j] = Due + Half(Sent) + 1 + j - 1
        <4> SUFFICES ASSUME NEW j \in 1..Len(toServer')
                     PROVE  toServer'[j] = Due + Half(Sent) + 1 + j - 1
          OBVIOUS
        <4>1. toServer[j + 1] = Due + Half(Sent) + 0 + (j + 1) - 1
          BY <2>1, <3>2, <3>3
        <4> QED
          BY <1>0, <2>3, <3>2, <4>1
      <3>6. connected => /\ Due + Half(Sent) + 1 + Len(toServer') = calls + 1
                         /\ ~ (Sent % 2 = 1)
        BY <1>0, <2>1, <2>3, <3>1, <3>2, <3>3
      <3> QED
        BY <2>0, <2>1, <3>1, <3>3, <3>4, <3>5, <3>6 DEF InTurn
    <2>5. CASE Handle
      <3>1. /\ server = "handle" /\ server' = "sendLen" /\ reply'.of = reply.of
            /\ UNCHANGED <<connected, toServer, toClient>>
        BY <1>0, <2>5 DEF Handle, SessionInv, IInv, PipelineType, Answers, NoReply
      <3>2. Sent' = Sent /\ Handling' = Handling
        BY <2>0, <3>1 DEF Sent, Handling, Serving
      <3> QED
        BY <2>0, <2>1, <3>1, <3>2 DEF InTurn, Serving
    <2>6. CASE SendLen \/ SendData
      <3>1. PICK part \in {"len", "data"} :
               /\ \/ server = "sendLen" /\ server' = "sendData"
                  \/ server = "sendData" /\ server' = "recv"
               /\ toClient' = Append(toClient, Part(part, reply))
               /\ UNCHANGED <<connected, toServer, reply>>
        BY <2>6 DEF SendLen, SendData, SendPart
      <3> DEFINE m == Part(part, reply)
      <3>2. m \in Message /\ m.answer = reply /\ toClient' = Append(toClient, m)
        BY <1>0, <3>1 DEF Part, Message, SessionInv, AnswersType
      <3> HIDE DEF m
      <3>3. /\ Len(toClient') = Len(toClient) + 1 /\ Len(toClient) \in Nat
            /\ \A i \in 1..Len(toClient) : toClient'[i] = toClient[i]
            /\ toClient'[Len(toClient) + 1] = m
        BY <1>0, <3>2
      <3>4. Sent' = Sent + 1
        BY <2>0, <3>3 DEF Sent, LenRead
      <3>5. connected /\ reply.of = Due + Half(Sent) /\ Handling = 1
        BY <2>1, <2>2, <3>1 DEF Handling, Serving
      <3>6. \A i \in 1..Len(toClient') : toClient'[i].answer.of = Due + Half(i - 1 + LenRead)
        <4> SUFFICES ASSUME NEW i \in 1..Len(toClient')
                     PROVE  toClient'[i].answer.of = Due + Half(i - 1 + LenRead)
          OBVIOUS
        <4>1. CASE i \in 1..Len(toClient)
          BY <2>1, <3>3, <4>1
        <4>2. CASE i = Len(toClient) + 1
          <5>1. i - 1 + LenRead = Sent
            BY <1>0, <3>3, <4>2 DEF Sent
          <5> QED
            BY <3>2, <3>3, <3>5, <4>2, <5>1
        <4> QED
          BY <3>3, <4>1, <4>2
      <3>7. CASE server = "sendLen" /\ server' = "sendData"
        <4>1. Sent % 2 = 0
          BY <1>0, <2>1, <3>5, <3>7, Halves
        <4>2. Half(Sent') = Half(Sent) /\ Sent' % 2 = 1 /\ Handling' = Handling
          BY <1>0, <3>4, <3>5, <3>7, <4>1, Halves DEF Handling, Serving
        <4> QED
          BY <2>0, <2>1, <3>1, <3>5, <3>6, <3>7, <4>2 DEF InTurn
      <3>8. CASE server = "sendData" /\ server' = "recv"
        <4>1. Sent % 2 = 1
          BY <2>1, <3>5, <3>8
        <4>2. Half(Sent') = Half(Sent) + 1 /\ Sent' % 2 = 0 /\ Handling' = 0
          BY <1>0, <3>4, <3>8, <4>1, Halves DEF Handling, Serving
        <4>3. Due + Half(Sent') + Handling' = Due + Half(Sent) + Handling
          BY <1>0, <2>3, <3>5, <4>2
        <4>4. \A j \in 1..Len(toServer) : toServer[j] = Due + Half(Sent') + Handling' + j - 1
          BY <2>1, <4>3
        <4>5. Due + Half(Sent') + Handling' + Len(toServer) = calls + 1
          BY <2>1, <3>5, <4>3
        <4> QED
          BY <2>0, <3>1, <3>6, <3>8, <4>2, <4>4, <4>5 DEF InTurn, Serving
      <3> QED
        BY <3>1, <3>7, <3>8
    <2>7. CASE Exit
      <3>1. /\ connected' = FALSE /\ toServer' = <<>> /\ server' = "recv"
            /\ UNCHANGED toClient
        BY <2>7 DEF Exit
      <3> QED
        BY <1>a, <2>0, <2>1, <3>1 DEF InTurn, Serving
    <2> QED
      BY <1>8, <2>4, <2>5, <2>6, <2>7 DEF Server
  <1>9. CASE Arrive \/ Start \/ UNCHANGED vars
    BY <1>1, <1>9 DEF Arrive, Start, vars
  <1> QED
    BY <1>2, <1>3, <1>4, <1>5, <1>6, <1>7, <1>8, <1>9 DEF Next, Client

\* An answer that was returned stays where it was: what it is compared with lies behind it.
LEMMA OldAnswer ==
    ASSUME Lagging, NEW c \in Calls, Answered(c),
           \A b \in 1..c : connOf'[b] = connOf[b] /\ result'[b] = result[b]
    PROVE  /\ result'[c].of \in Calls
           /\ result'[c].of = c - Cardinality(TimedOutBefore(c)')
           /\ connOf'[result'[c].of] = connOf'[c]
  <1>0. c \in Nat \ {0} /\ c \in 1..c
    BY DEF Calls
  <1>1. TimedOutBefore(c)' = TimedOutBefore(c)
    <2>1. \A b \in 1..(c - 1) : b \in 1..c
      BY <1>0
    <2> QED
      BY <1>0, <2>1 DEF TimedOutBefore
  <1>2. result[c].of \in 1..c
    <2>1. TimedOutBefore(c) \subseteq 1..(c - 1) /\ IsFiniteSet(1..(c - 1))
      BY <1>0, FS_Interval DEF TimedOutBefore
    <2>2. Cardinality(TimedOutBefore(c)) \in Nat
      BY <2>1, FS_Subset, FS_CardinalityType
    <2> QED
      BY <1>0, <2>2 DEF Lagging, Calls
  <1> QED
    BY <1>0, <1>1, <1>2 DEF Lagging

LEMMA NextLagging == LagInv /\ [Next]_vars => Lagging'
  <1> SUFFICES ASSUME LagInv, [Next]_vars PROVE Lagging'
    OBVIOUS
  <1> USE DEF clientVars, serverVars
  <1>0. /\ SessionInv /\ Connections /\ Outstanding /\ InTurn /\ Lagging
        /\ calls \in Nat /\ result \in [Calls -> Outcome] /\ connOf \in [Calls -> Nat]
    BY DEF LagInv, SessionInv, IInv, PipelineType, CheckedFirst, Connections
  <1>1. ASSUME UNCHANGED <<result, connOf>> PROVE Lagging'
    BY <1>0, <1>1 DEF Lagging, Answered, TimedOutBefore
  <1>2. ASSUME NEW c \in Calls, Answered(c)
        PROVE  c <= calls /\ (client \in Pending => c # calls)
    BY <1>0, <1>2 DEF Outstanding, Answered, Replies, Calls
  <1>3. ASSUME NEW c \in Calls, NEW b \in 1..c PROVE b \in Calls /\ b <= c
    BY <1>3, BoundsAssumption DEF Calls
  <1>4. CASE Send
    <2>1. /\ calls' = calls + 1 /\ connOf' = [connOf EXCEPT ![calls'] = conn]
          /\ \/ UNCHANGED result
             \/ result' = [result EXCEPT ![calls'] = [outcome |-> "raised", of |-> 0]]
      BY <1>4 DEF Send
    <2>2. \A b \in Calls : b <= calls => connOf'[b] = connOf[b] /\ result'[b] = result[b]
      <3> SUFFICES ASSUME NEW b \in Calls, b <= calls
                   PROVE  connOf'[b] = connOf[b] /\ result'[b] = result[b]
        OBVIOUS
      <3>1. b # calls'
        BY <1>0, <2>1 DEF Calls
      <3> QED
        BY <1>0, <2>1, <3>1
    <2>3. \A c \in Calls : Answered(c)' => Answered(c)
      BY <1>0, <2>1 DEF Answered, Replies
    <2> SUFFICES ASSUME NEW c \in Calls, Answered(c)
                 PROVE  /\ result'[c].of \in Calls
                        /\ result'[c].of = c - Cardinality(TimedOutBefore(c)')
                        /\ connOf'[result'[c].of] = connOf'[c]
      BY <2>3 DEF Lagging
    <2>4. \A b \in 1..c : b \in Calls /\ b <= calls
      BY <1>0, <1>2, <1>3 DEF Calls
    <2>5. \A b \in 1..c : connOf'[b] = connOf[b] /\ result'[b] = result[b]
      BY <2>2, <2>4
    <2> QED
      BY <1>0, <2>5, OldAnswer
  <1>5. ASSUME client \in Pending, UNCHANGED <<calls, connOf>>, NEW outcome, NEW of,
               Return(outcome, of),
               outcome \in Replies => /\ of \in Calls
                                      /\ of = calls - Cardinality(Late)
                                      /\ connOf[of] = conn
        PROVE  Lagging'
    <2>1. /\ calls \in Calls
          /\ result'[calls] = [outcome |-> outcome, of |-> of]
          /\ \A c \in Calls \ {calls} : result'[c] = result[c]
      BY <1>0, <1>5, ReturnFacts
    <2>2. connOf[calls] = conn /\ result[calls].outcome = "none"
      BY <1>0, <1>5, <2>1 DEF Connections, Outstanding
    <2> SUFFICES ASSUME NEW c \in Calls, Answered(c)'
                 PROVE  /\ result'[c].of \in Calls
                        /\ result'[c].of = c - Cardinality(TimedOutBefore(c)')
                        /\ connOf'[result'[c].of] = connOf'[c]
      BY DEF Lagging
    <2>3. CASE c = calls
      <3>1. result'[c].of = of /\ outcome \in Replies
        BY <2>1, <2>3 DEF Answered
      <3>2. TimedOutBefore(c)' = Late
        <4>1. \A b \in 1..calls : b # calls => b \in 1..(calls - 1)
          BY <1>0
        <4>2. \A b \in 1..(calls - 1) : b \in 1..calls /\ b \in Calls /\ b # calls
          BY <1>0, <1>3, <2>1
        <4>3. TimedOutBefore(c)' = {b \in 1..(calls - 1) : connOf[b] = conn /\ result[b].outcome = "timeout"}
          BY <1>5, <2>1, <2>2, <2>3, <4>2 DEF TimedOutBefore
        <4>4. calls \notin Late
          BY <2>2 DEF Late
        <4> QED
          BY <4>1, <4>2, <4>3, <4>4 DEF Late
      <3> QED
        BY <1>5, <2>2, <2>3, <3>1, <3>2
    <2>4. CASE c # calls
      <3>1. Answered(c)
        BY <2>1, <2>4 DEF Answered
      <3>2. \A b \in 1..c : b \in Calls /\ b # calls
        BY <1>0, <1>2, <1>3, <1>5, <3>1 DEF Calls
      <3>3. \A b \in 1..c : connOf'[b] = connOf[b] /\ result'[b] = result[b]
        BY <1>5, <2>1, <3>2
      <3> QED
        BY <1>0, <3>1, <3>3, OldAnswer
    <2> QED
      BY <2>3, <2>4
  <1>6. CASE ReadData
    <2> DEFINE a == Head(toClient).answer
    <2>1. /\ client = "awaitData" /\ toClient # <<>> /\ Return(a.reply, a.of)
          /\ UNCHANGED <<calls, connOf>>
      BY <1>6 DEF ReadData
    <2>2. /\ toClient \in Seq(Message) /\ 1 \in 1..Len(toClient) /\ Head(toClient) = toClient[1]
          /\ toClient[1] \in Message
      BY <1>0, <2>1 DEF SessionInv, AnswersType
    <2>3. ~garbled
      BY <1>0, <2>1 DEF Outstanding
    <2>4. a.of \in Calls /\ connOf[a.of] = conn
      BY <1>0, <2>2 DEF Connections, Message, Answers
    <2>5. a.of = calls - Cardinality(Late)
      <3>1. a.of = Due + Half(1 - 1 + LenRead)
        BY <1>0, <2>1, <2>2, <2>3 DEF InTurn
      <3>2. Half(1 - 1 + LenRead) = 0
        BY <2>1, Halves DEF LenRead
      <3>3. Due = calls - Cardinality(Late) /\ Due \in Int
        BY <1>0, <2>1, LateFinite DEF Due
      <3> HIDE DEF a
      <3> QED
        BY <3>1, <3>2, <3>3
    <2> HIDE DEF a
    <2> QED
      BY <1>5, <2>1, <2>4, <2>5 DEF Pending, Waiting
  <1>7. CASE GarbageEnds \/ Timeout \/ EndOfStream \/ Truncated
    <2>1. client \in Pending /\ UNCHANGED <<calls, connOf>>
      BY <1>7 DEF GarbageEnds, Timeout, EndOfStream, Truncated, Pending, Waiting
    <2>2. \E outcome \in {"garbage", "timeout", "lost"} : Return(outcome, 0)
      BY <1>7 DEF GarbageEnds, Timeout, EndOfStream, Truncated
    <2> QED
      BY <1>5, <2>1, <2>2 DEF Replies
  <1>8. CASE ReadLen \/ ReadGarbage \/ Arrive \/ Server \/ Exit \/ Start \/ UNCHANGED vars
    BY <1>1, <1>8 DEF ReadLen, ReadGarbage, Arrive, Server, Recv, Handle, SendLen, SendData, SendPart,
                      Exit, Start, vars
  <1> QED
    BY <1>4, <1>6, <1>7, <1>8 DEF Next, Client

\* The answer a call returns is to a call of the same connection, as many calls back as have
\* timed out on it, however timeouts, exits of the daemon and reconnections follow on each other:
\* a client that times out is never given its answers right again on that connection.
THEOREM AnswersLag == Spec => []AnswersLagByTimeouts
  <1>1. LagInv => AnswersLagByTimeouts
    BY DEF LagInv, Lagging, AnswersLagByTimeouts
  <1>2. LagInv /\ [Next]_vars => LagInv'
    BY NextSession, NextConnections, NextOutstanding, NextInTurn, NextLagging DEF LagInv
  <1> QED
    BY <1>1, <1>2, InitLag, PTL DEF Spec

-----------------------------------------------------------------------------
(* From the page to the application *)

\* A request that was made.
MadeRequest ==
    [made : {TRUE}, faults : SUBSET Faults, hasStatusOption : BOOLEAN, status : Nat,
     readyState : 0..4, complete : BOOLEAN, listening : BOOLEAN, loading : BOOLEAN,
     sent : BOOLEAN, calls : Seq(Names)]

Handlers == [q : MadeRequest, count : Int, watched : Int, thrown : BOOLEAN]

Unranked == {"Loading", "Exception"}

\* The calls that have a rank come in the order of their ranks, up to one.
EventsOrdered(heard, top) ==
    /\ \A i \in DOMAIN heard : heard[i] \notin Unranked => Rank(heard[i]) <= top
    /\ \A i, j \in DOMAIN heard :
          i < j /\ heard[i] \notin Unranked /\ heard[j] \notin Unranked =>
             \/ Rank(heard[i]) < Rank(heard[j])
             \/ heard[i] = "Interactive" /\ heard[j] = "Interactive"

LoadingOnce(heard) ==
    \A i, j \in DOMAIN heard : heard[i] = "Loading" /\ heard[j] = "Loading" => i = j

-----------------------------------------------------------------------------

\* The names of the events are these nine.
LEMMA NamesKnown ==
    Names = {"Create", "Exception", "Status", "Success", "Failure",
             "Loading", "Loaded", "Interactive", "Complete"}
<1>1. DOMAIN Events = 1..4 /\ Events[1] = "Loading" /\ Events[2] = "Loaded"
      /\ Events[3] = "Interactive" /\ Events[4] = "Complete"
  BY DEF Events
<1>2. ToSet(Events) = {Events[i] : i \in 1..4}
  BY <1>1 DEF ToSet
<1> QED BY <1>1, <1>2 DEF Names

\* Only an Interactive has the rank 2, and every outcome has the rank 3.
LEMMA Ranks ==
    /\ \A name \in Names : Rank(name) \in 0..4
    /\ \A name \in Names : Rank(name) = 2 <=> name = "Interactive"
    /\ \A name \in OutcomeEvents : name \in Names /\ Rank(name) = 3 /\ name \notin Unranked
    /\ Rank("Create") = 0 /\ Rank("Loaded") = 1 /\ Rank("Interactive") = 2
    /\ Rank("Complete") = 4
  BY NamesKnown DEF Rank, OutcomeEvents, Unranked

\* A call appended to a request's calls.
LEMMA Appended ==
    ASSUME NEW heard \in Seq(Names), NEW name \in Names
    PROVE  /\ Append(heard, name) \in Seq(Names)
           /\ DOMAIN Append(heard, name) = 1..(Len(heard) + 1)
           /\ DOMAIN heard = 1..Len(heard) /\ Len(heard) \in Nat
           /\ \A i \in 1..Len(heard) : Append(heard, name)[i] = heard[i] /\ heard[i] \in Names
           /\ Append(heard, name)[Len(heard) + 1] = name
  OBVIOUS

\* The calls that were made, with one more.
LEMMA SetAppended ==
    ASSUME NEW heard \in Seq(Names), NEW name \in Names
    PROVE  ToSet(Append(heard, name)) = ToSet(heard) \union {name}
<1> DEFINE c == Append(heard, name)
           n == Len(heard)
<1>1. /\ DOMAIN c = 1..(n + 1) /\ DOMAIN heard = 1..n /\ n \in Nat
      /\ \A i \in 1..n : c[i] = heard[i]
      /\ c[n + 1] = name
  BY Appended
<1>2. \A i \in 1..n : i \in 1..(n + 1)
  BY <1>1
<1>3. n + 1 \in 1..(n + 1) /\ \A i \in 1..(n + 1) : i = n + 1 \/ i \in 1..n
  BY <1>1
<1> HIDE DEF c, n
<1>4. ToSet(c) = {c[i] : i \in 1..(n + 1)} /\ ToSet(heard) = {heard[i] : i \in 1..n}
  BY <1>1 DEF ToSet
<1> QED BY <1>1, <1>2, <1>3, <1>4 DEF c

LEMMA LoadingAppended ==
    ASSUME NEW heard \in Seq(Names), NEW name \in Names, LoadingOnce(heard),
           name = "Loading" => "Loading" \notin ToSet(heard)
    PROVE  LoadingOnce(Append(heard, name))
<1> DEFINE c == Append(heard, name)
           n == Len(heard)
<1>1. /\ DOMAIN c = 1..(n + 1) /\ DOMAIN heard = 1..n /\ n \in Nat
      /\ \A i \in 1..n : c[i] = heard[i]
      /\ c[n + 1] = name
  BY Appended
<1>3. \A i \in 1..(n + 1) : i = n + 1 \/ i \in 1..n
  BY <1>1
<1> HIDE DEF c, n
<1> QED BY <1>1, <1>3 DEF ToSet, LoadingOnce, c

\* Calls stay in order when one of a higher rank, or another Interactive, is appended.
LEMMA OrderedAppended ==
    ASSUME NEW heard \in Seq(Names), NEW name \in Names, NEW top \in Int, EventsOrdered(heard, top),
           name \notin Unranked => Rank(name) > top \/ (name = "Interactive" /\ top = 2)
    PROVE  EventsOrdered(Append(heard, name), IF name \in Unranked THEN top ELSE Rank(name))
<1> DEFINE c == Append(heard, name)
           n == Len(heard)
           t == IF name \in Unranked THEN top ELSE Rank(name)
<1>1. /\ DOMAIN c = 1..(n + 1) /\ DOMAIN heard = 1..n /\ n \in Nat
      /\ \A i \in 1..n : c[i] = heard[i] /\ heard[i] \in Names
      /\ c[n + 1] = name
  BY Appended
<1>2. t \in Int /\ top <= t
  BY Ranks
<1>3. \A i \in 1..(n + 1) : i = n + 1 \/ i \in 1..n
  BY <1>1
<1> HIDE DEF c, n
<1>4. ASSUME NEW i \in DOMAIN c, c[i] \notin Unranked PROVE Rank(c[i]) <= t
  <2>1. CASE i = n + 1
    BY <1>1, <1>4, <2>1, Ranks
  <2>2. CASE i \in 1..n
    <3>1. Rank(c[i]) <= top /\ Rank(c[i]) \in Int
      BY <1>1, <1>4, <2>2, Ranks DEF EventsOrdered
    <3> HIDE DEF t
    <3> QED BY <1>2, <3>1
  <2> QED BY <1>1, <1>3, <2>1, <2>2
<1>5. ASSUME NEW i \in DOMAIN c, NEW j \in DOMAIN c, i < j,
             c[i] \notin Unranked, c[j] \notin Unranked
      PROVE  \/ Rank(c[i]) < Rank(c[j])
             \/ c[i] = "Interactive" /\ c[j] = "Interactive"
  <2>1. i \in 1..n /\ (j = n + 1 \/ j \in 1..n)
    BY <1>1, <1>3, <1>5
  <2>2. CASE j \in 1..n
    BY <1>1, <1>5, <2>1, <2>2 DEF EventsOrdered
  <2>3. CASE j = n + 1
    <3>1. Rank(c[i]) <= top /\ Rank(c[i]) \in Int /\ c[i] \in Names
      BY <1>1, <1>5, <2>1, Ranks DEF EventsOrdered
    <3>2. c[j] = name /\ Rank(name) \in Int /\ (Rank(name) > top \/ (name = "Interactive" /\ top = 2))
      BY <1>1, <1>5, <2>3, Ranks
    <3>3. CASE Rank(name) > top
      BY <3>1, <3>2, <3>3
    <3>4. CASE name = "Interactive" /\ top = 2
      <4>1. Rank(c[i]) < 2 \/ Rank(c[i]) = 2
        BY <3>1, <3>4
      <4>2. Rank(c[j]) = 2 /\ c[j] = "Interactive"
        BY <3>2, <3>4, Ranks
      <4>3. Rank(c[i]) = 2 => c[i] = "Interactive"
        BY <3>1, Ranks
      <4> QED BY <4>1, <4>2, <4>3
    <3> QED BY <3>2, <3>3, <3>4
  <2> QED BY <2>1, <2>2, <2>3
<1> QED BY <1>4, <1>5 DEF EventsOrdered, c

\* Calls in order up to a rank are in order up to a higher one.
LEMMA OrderedHigher ==
    ASSUME NEW heard \in Seq(Names), NEW top \in Int, NEW higher \in Int, top <= higher,
           EventsOrdered(heard, top)
    PROVE  EventsOrdered(heard, higher)
<1>1. \A i \in DOMAIN heard : heard[i] \in Names
  OBVIOUS
<1>2. \A i \in DOMAIN heard : Rank(heard[i]) \in Int
  BY <1>1, Ranks
<1> QED BY <1>2 DEF EventsOrdered

\* The calls of a request, up to a rank.
Story(heard, top) == heard \in Seq(Names) /\ EventsOrdered(heard, top) /\ LoadingOnce(heard)

\* What is kept of the calls when one is made.
LEMMA StoryAppended ==
    ASSUME NEW heard, NEW name \in Names, NEW top \in Int, Story(heard, top),
           name = "Loading" => "Loading" \notin ToSet(heard),
           name \notin Unranked => Rank(name) > top \/ (name = "Interactive" /\ top = 2)
    PROVE  /\ Story(Append(heard, name), IF name \in Unranked THEN top ELSE Rank(name))
           /\ ToSet(Append(heard, name)) = ToSet(heard) \union {name}
  BY Appended, SetAppended, LoadingAppended, OrderedAppended DEF Story

\* The rank up to which calls were made may be taken higher.
LEMMA StoryHigher ==
    ASSUME NEW heard, NEW top \in Int, NEW higher \in Int, top <= higher, Story(heard, top)
    PROVE  Story(heard, higher)
  BY OrderedHigher DEF Story

-----------------------------------------------------------------------------
\* What no handler of a request changes.
Kept(q, p) ==
    /\ p.faults = q.faults /\ p.hasStatusOption = q.hasStatusOption /\ p.status = q.status
    /\ p.readyState = q.readyState /\ p.loading = q.loading /\ p.sent = q.sent

\* What a handler of a request leaves as it is, and what it leaves of the counters.
Same(s, t) == t \in Handlers /\ Kept(s.q, t.q) /\ t.q.listening = s.q.listening
SameCounts(s, t) == t.count = s.count /\ t.watched = s.watched

\* What two steps of a handler leave alone, both leave alone.
LEMMA SameTransitive ==
    ASSUME NEW s, NEW t, NEW u, Same(s, t), Same(t, u)
    PROVE  Same(s, u) /\ (SameCounts(s, t) /\ SameCounts(t, u) => SameCounts(s, u))
  BY DEF Same, SameCounts, Kept

\* A callback is called, and raises if it is among the request's faults.
LEMMA CallDoes ==
    ASSUME NEW s \in Handlers, NEW name \in Names, NEW fault
    PROVE  LET t == Call(s, name, fault)
           IN  /\ Same(s, t) /\ SameCounts(s, t)
               /\ t.q.complete = s.q.complete
               /\ t.q.calls = Append(s.q.calls, name)
               /\ t.thrown <=> fault \in s.q.faults
<1> DEFINE t == Call(s, name, fault)
<1>1. s.q \in MadeRequest /\ s.q.calls \in Seq(Names)
  BY DEF Handlers, MadeRequest
<1>2. Append(s.q.calls, name) \in Seq(Names)
  BY <1>1
<1>3. t = [s EXCEPT !.q = [s.q EXCEPT !.calls = Append(s.q.calls, name)],
                    !.thrown = (fault \in s.q.faults)]
  BY DEF Call, Handlers
<1>4. [s.q EXCEPT !.calls = Append(s.q.calls, name)] \in MadeRequest
  BY <1>1, <1>2 DEF MadeRequest
<1>5. (fault \in s.q.faults) \in BOOLEAN
  OBVIOUS
<1> HIDE DEF t
<1>6. t \in Handlers
  BY <1>3, <1>4, <1>5 DEF Handlers
<1>7. /\ t.q = [s.q EXCEPT !.calls = Append(s.q.calls, name)]
      /\ t.count = s.count /\ t.watched = s.watched
      /\ t.thrown <=> fault \in s.q.faults
  BY <1>3 DEF Handlers
<1>8. /\ Kept(s.q, t.q) /\ t.q.complete = s.q.complete /\ t.q.listening = s.q.listening
      /\ t.q.calls = Append(s.q.calls, name)
  BY <1>1, <1>7 DEF MadeRequest, Kept
<1> QED BY <1>6, <1>7, <1>8 DEF t, Same, SameCounts

\* An exception is told of, and goes on only if onException throws.
Excepted(s, t, fault) ==
    /\ Same(s, t) /\ SameCounts(s, t)
    /\ t.q.complete = s.q.complete
    /\ t.q.calls \in {s.q.calls, Append(s.q.calls, "Exception")}
    /\ t.thrown <=> {fault, "exception"} \subseteq s.q.faults

\* A handler that does nothing leaves everything alone.
LEMMA SameItself ==
    ASSUME NEW s \in Handlers
    PROVE  Same(s, s) /\ SameCounts(s, s)
  BY DEF Same, SameCounts, Kept

\* A fault is dispatched as an exception, which raises if its own callback does.
LEMMA FaultDoes ==
    ASSUME NEW s \in Handlers, ~ s.thrown, NEW fault
    PROVE  Excepted(s, Fault(s, fault), fault)
<1>1. CASE fault \in s.q.faults
  <2>1. Fault(s, fault) = Call(s, "Exception", "exception")
    BY <1>1 DEF Fault, DispatchException
  <2>2. "Exception" \in Names
    BY NamesKnown
  <2> DEFINE t == Call(s, "Exception", "exception")
  <2>3. /\ Same(s, t) /\ SameCounts(s, t)
        /\ t.q.complete = s.q.complete
        /\ t.q.calls = Append(s.q.calls, "Exception")
        /\ t.thrown <=> "exception" \in s.q.faults
    BY <2>2, CallDoes
  <2> HIDE DEF t
  <2> QED BY <1>1, <2>1, <2>3 DEF Excepted, t
<1>2. CASE fault \notin s.q.faults
  <2>1. Fault(s, fault) = s
    BY <1>2 DEF Fault
  <2> QED BY <1>2, <2>1, SameItself DEF Excepted
<1> QED BY <1>1, <1>2

\* What a callback raises is dispatched as an exception.
LEMMA CaughtDoes ==
    ASSUME NEW s \in Handlers, NEW fault, s.thrown <=> fault \in s.q.faults
    PROVE  Excepted(s, Caught(s), fault)
<1>1. CASE s.thrown
  <2>1. Caught(s) = Call(s, "Exception", "exception")
    BY <1>1 DEF Caught, DispatchException
  <2>2. "Exception" \in Names
    BY NamesKnown
  <2> DEFINE t == Call(s, "Exception", "exception")
  <2>3. /\ Same(s, t) /\ SameCounts(s, t)
        /\ t.q.complete = s.q.complete
        /\ t.q.calls = Append(s.q.calls, "Exception")
        /\ t.thrown <=> "exception" \in s.q.faults
    BY <2>2, CallDoes
  <2> HIDE DEF t
  <2> QED BY <1>1, <2>1, <2>3 DEF Excepted, t
<1>2. CASE ~ s.thrown
  <2>1. Caught(s) = s
    BY <1>2 DEF Caught
  <2> QED BY <1>2, <2>1, SameItself DEF Excepted
<1> QED BY <1>1, <1>2

\* Where a request's onComplete was called.
Completions(heard) == {i \in DOMAIN heard : heard[i] \in {"Complete"}}

\* No call but Complete is a completion.
LEMMA CompletionsAppended ==
    ASSUME NEW heard \in Seq(Names), NEW name \in Names, name # "Complete"
    PROVE  Completions(Append(heard, name)) = Completions(heard)
<1> DEFINE c == Append(heard, name)
           n == Len(heard)
<1>1. /\ DOMAIN c = 1..(n + 1) /\ DOMAIN heard = 1..n /\ n \in Nat
      /\ \A i \in 1..n : c[i] = heard[i]
      /\ c[n + 1] = name
  BY Appended
<1>2. \A i \in 1..n : i \in 1..(n + 1)
  BY <1>1
<1>3. \A i \in 1..(n + 1) : i = n + 1 \/ i \in 1..n
  BY <1>1
<1> HIDE DEF c, n
<1> QED BY <1>1, <1>2, <1>3 DEF Completions, c

\* What was called, exceptions left out.
Seen(s) == ToSet(s.q.calls) \ {"Exception"}

\* A call of onException has no place in the order of the others.
LEMMA ExceptedStory ==
    ASSUME NEW s \in Handlers, NEW t, NEW fault, Excepted(s, t, fault), NEW top \in Int,
           Story(s.q.calls, top)
    PROVE  Story(t.q.calls, top) /\ Seen(t) = Seen(s)
<1>1. "Exception" \in Names /\ "Exception" \in Unranked
  BY NamesKnown DEF Unranked
<1>2. /\ Story(Append(s.q.calls, "Exception"), top)
      /\ ToSet(Append(s.q.calls, "Exception")) = ToSet(s.q.calls) \union {"Exception"}
  BY <1>1, StoryAppended
<1> QED BY <1>2 DEF Excepted, Seen

\* A callback that is called has its place in the order.
LEMMA CallStory ==
    ASSUME NEW s \in Handlers, NEW name \in Names, NEW fault, NEW top \in Int,
           Story(s.q.calls, top), name # "Exception",
           name = "Loading" => "Loading" \notin Seen(s),
           name # "Loading" => Rank(name) > top \/ (name = "Interactive" /\ top = 2)
    PROVE  LET t == Call(s, name, fault)
           IN  /\ Story(t.q.calls, IF name = "Loading" THEN top ELSE Rank(name))
               /\ Seen(t) = Seen(s) \union {name}
<1> DEFINE t == Call(s, name, fault)
<1>1. t.q.calls = Append(s.q.calls, name)
  BY CallDoes
<1>2. (name \in Unranked <=> name = "Loading") /\ ("Loading" \notin Seen(s) => "Loading" \notin ToSet(s.q.calls))
  BY DEF Unranked, Seen
<1>3. /\ Story(Append(s.q.calls, name), IF name = "Loading" THEN top ELSE Rank(name))
      /\ ToSet(Append(s.q.calls, name)) = ToSet(s.q.calls) \union {name}
  <2> HIDE DEF t
  <2> QED BY <1>2, StoryAppended
<1> HIDE DEF t
<1> QED BY <1>1, <1>3 DEF t, Seen

-----------------------------------------------------------------------------

\* The response of a request whose answer is there may throw once, when it is evaluated.
LEMMA ResponseDoes ==
    ASSUME NEW s \in Handlers, ~ s.thrown
    PROVE  LET p == Response(s)
           IN  /\ Same(s, p) /\ SameCounts(s, p)
               /\ p.q.complete = s.q.complete
               /\ p.q.calls \in {s.q.calls, Append(s.q.calls, "Exception")}
               /\ p.thrown <=> s.q.readyState = 4 /\ {"json", "exception"} \subseteq s.q.faults
               /\ \A top \in Int : Story(s.q.calls, top) => Story(p.q.calls, top) /\ Seen(p) = Seen(s)
<1>1. CASE s.q.readyState = 4
  <2>1. Response(s) = Fault(s, "json")
    BY <1>1 DEF Response
  <2>2. Excepted(s, Fault(s, "json"), "json")
    BY FaultDoes
  <2> HIDE DEF Excepted
  <2>3. \A top \in Int : Story(s.q.calls, top) =>
          Story(Fault(s, "json").q.calls, top) /\ Seen(Fault(s, "json")) = Seen(s)
    BY <2>2, ExceptedStory
  <2> QED BY <1>1, <2>1, <2>2, <2>3 DEF Excepted
<1>2. CASE s.q.readyState # 4
  <2>1. Response(s) = s
    BY <1>2 DEF Response
  <2> QED BY <1>2, <2>1, SameItself
<1> QED BY <1>1, <1>2

\* A request whose answer is not there yet is told of what came.
LEMMA RespondPart ==
    ASSUME NEW s \in Handlers, ~ s.thrown, NEW n \in 1..3, NEW top \in Int, Story(s.q.calls, top),
           n = 1 => "Loading" \notin Seen(s),
           n > 1 => n - 1 > top \/ (n = 3 /\ top = 2)
    PROVE  LET t == Respond(s, n)
           IN  /\ Same(s, t) /\ SameCounts(s, t)
               /\ t.q.complete = s.q.complete
               /\ Story(t.q.calls, IF n = 1 THEN top ELSE n - 1)
               /\ Seen(t) \in {Seen(s), Seen(s) \union {Events[n]}}
               /\ Completions(t.q.calls) = Completions(s.q.calls)
<1> DEFINE p == Response(s)
           a == Then(p, LAMBDA t : IF n = 4 THEN Concluded(t) ELSE t)
           t == Then(a, LAMBDA x : Told(x, n, n = 4))
           c == Call(p, Events[n], "none")
<1>1. Respond(s, n) = IF t.thrown THEN t ELSE [t EXCEPT !.q.listening = @ /\ ~ (n = 4)]
  BY Zenon DEF Respond, Then
<1>2. a = p
  BY DEF Then
<1>3. t = IF p.thrown THEN p ELSE Told(p, n, n = 4)
  BY <1>2 DEF Then
<1>4. Told(p, n, n = 4) = Caught(c)
  BY DEF Told, Then
<1>5. /\ Same(s, p) /\ SameCounts(s, p) /\ p.q.complete = s.q.complete
      /\ Story(p.q.calls, top) /\ Seen(p) = Seen(s)
  BY ResponseDoes
<1>6. Events[n] \in Names /\ Events[n] # "Exception" /\ (Events[n] = "Loading" <=> n = 1)
      /\ (n > 1 => Rank(Events[n]) = n - 1) /\ (n = 3 => Events[n] = "Interactive")
  BY NamesKnown DEF Events, Rank, OutcomeEvents
<1> HIDE DEF p, a, t, c
<1>7. p \in Handlers /\ "none" \notin p.q.faults
  BY <1>5 DEF Same, Handlers, MadeRequest, Faults
<1>8. /\ Same(p, c) /\ SameCounts(p, c) /\ c.q.complete = p.q.complete /\ ~ c.thrown
  BY <1>6, <1>7, CallDoes DEF c
<1>9. Story(c.q.calls, IF n = 1 THEN top ELSE n - 1) /\ Seen(c) = Seen(s) \union {Events[n]}
  BY <1>5, <1>6, <1>7, CallStory DEF c
<1>10. Caught(c) = c
  BY <1>8 DEF Caught
<1>11. t = p \/ t = c
  BY <1>3, <1>4, <1>10
<1>12. /\ Same(s, t) /\ SameCounts(s, t) /\ t.q.complete = s.q.complete
       /\ Story(t.q.calls, IF n = 1 THEN top ELSE n - 1)
       /\ Seen(t) \in {Seen(s), Seen(s) \union {Events[n]}}
       /\ Completions(t.q.calls) = Completions(s.q.calls)
  <2>0. s.q.calls \in Seq(Names) /\ p.q.calls \in Seq(Names)
    BY <1>7 DEF Handlers, MadeRequest
  <2>1. Same(s, c) /\ SameCounts(s, c)
    BY <1>5, <1>8, SameTransitive
  <2>2. Story(p.q.calls, IF n = 1 THEN top ELSE n - 1)
    BY <1>5, StoryHigher
  <2>3. Completions(p.q.calls) = Completions(s.q.calls)
    <3>1. p.q.calls \in {s.q.calls, Append(s.q.calls, "Exception")}
      BY ResponseDoes DEF p
    <3>2. "Exception" \in Names
      BY NamesKnown
    <3> QED BY <2>0, <3>1, <3>2, CompletionsAppended
  <2>4. Completions(c.q.calls) = Completions(p.q.calls)
    <3>1. c.q.calls = Append(p.q.calls, Events[n])
      BY <1>6, <1>7, CallDoes DEF c
    <3>2. Events[n] # "Complete"
      BY DEF Events
    <3> QED BY <1>6, <2>0, <3>1, <3>2, CompletionsAppended
  <2> QED BY <1>5, <1>8, <1>9, <1>11, <2>1, <2>2, <2>3, <2>4
<1>13. Respond(s, n) = t
  <2>1. t \in Handlers /\ t.q \in MadeRequest
    BY <1>12 DEF Same, Handlers
  <2>2. t.q.listening \in BOOLEAN
    BY <2>1 DEF MadeRequest
  <2>3. (t.q.listening /\ ~ (n = 4)) = t.q.listening
    BY <2>2
  <2>4. [t EXCEPT !.q.listening = t.q.listening] = t
    BY <2>1 DEF Handlers, MadeRequest
  <2> QED BY <1>1, <2>3, <2>4
<1> QED BY <1>12, <1>13

\* The outcome is told of, and a script evaluated: that may throw twice.
LEMMA AnsweredDoes ==
    ASSUME NEW s \in Handlers, ~ s.thrown, Story(s.q.calls, 2)
    PROVE  LET a == Concluded(s)
           IN  /\ Same(s, a) /\ SameCounts(s, a)
               /\ a.q.complete
               /\ Story(a.q.calls, 3)
               /\ Seen(a) = Seen(s) \union {OutcomeEvent(s.q)}
               /\ a.thrown <=> /\ "exception" \in s.q.faults
                               /\ s.q.faults \intersect {"outcome", "script"} # {}
<1> DEFINE b == [s EXCEPT !.q.complete = TRUE]
           told == Call(b, OutcomeEvent(s.q), "outcome")
           caught == Caught(told)
           script == Fault(caught, "script")
<1>1. Concluded(s) = IF caught.thrown THEN caught ELSE script
  BY DEF Concluded, Then, EvalResponse
<1>2. OutcomeEvent(s.q) \in OutcomeEvents
  BY DEF OutcomeEvent, OutcomeEvents
<1>3. OutcomeEvent(s.q) \in Names /\ OutcomeEvent(s.q) \notin Unranked /\ Rank(OutcomeEvent(s.q)) = 3
  BY <1>2, Ranks
<1>4. Same(s, b) /\ SameCounts(s, b) /\ b.q.complete /\ ~ b.thrown /\ b.q.calls = s.q.calls
  BY DEF Same, SameCounts, Kept, Handlers, MadeRequest
<1> HIDE DEF b, told, caught, script
<1>5. /\ Same(b, told) /\ SameCounts(b, told) /\ told.q.complete
      /\ told.thrown <=> "outcome" \in b.q.faults
  BY <1>3, <1>4, CallDoes DEF told, Same
<1>6. Story(told.q.calls, 3) /\ Seen(told) = Seen(b) \union {OutcomeEvent(s.q)}
  BY <1>3, <1>4, CallStory DEF told, Same, Unranked
<1>7. b \in Handlers /\ told \in Handlers /\ told.q.faults = b.q.faults
  BY <1>4, <1>5 DEF Same, Kept
<1>8. Excepted(told, caught, "outcome")
  BY <1>5, <1>7, CaughtDoes DEF caught
<1>9. Story(caught.q.calls, 3) /\ Seen(caught) = Seen(told)
  BY <1>6, <1>7, <1>8, ExceptedStory
<1>10. Same(s, caught) /\ SameCounts(s, caught) /\ caught.q.complete
  BY <1>4, <1>5, <1>8, SameTransitive DEF Excepted
<1>11. caught \in Handlers /\ caught.q.faults = s.q.faults
  BY <1>10 DEF Same, Kept
<1>12. caught.thrown <=> {"outcome", "exception"} \subseteq s.q.faults
  BY <1>4, <1>7, <1>8 DEF Excepted, Same, Kept
<1>13. Seen(b) = Seen(s)
  BY <1>4 DEF Seen
<1>14. CASE caught.thrown
  BY <1>1, <1>6, <1>9, <1>10, <1>12, <1>13, <1>14
<1>15. CASE ~ caught.thrown
  <2>1. Excepted(caught, script, "script")
    BY <1>11, <1>15, FaultDoes DEF script
  <2>2. Story(script.q.calls, 3) /\ Seen(script) = Seen(caught)
    BY <1>9, <1>11, <2>1, ExceptedStory
  <2>3. Same(s, script) /\ SameCounts(s, script) /\ script.q.complete
    BY <1>10, <2>1, SameTransitive DEF Excepted
  <2>4. script.thrown <=> {"script", "exception"} \subseteq s.q.faults
    BY <1>11, <2>1 DEF Excepted
  <2> QED BY <1>1, <1>6, <1>9, <1>12, <1>13, <1>15, <2>2, <2>3, <2>4
<1> QED BY <1>14, <1>15

\* What keeps a complete answer from being reported to the end.
Halted(q) == "exception" \in q.faults /\ q.faults \intersect {"json", "outcome", "script"} # {}

LEMMA DispatchDoes ==
    ASSUME NEW s \in Handlers, NEW change \in Int,
           Registrations("counter") \in Int, Registrations("page") \in Int
    PROVE  LET t == Dispatch(s, change)
           IN  /\ Same(s, t) /\ t.q = s.q /\ t.thrown = s.thrown
               /\ t.count = s.count + change * Registrations("counter")
               /\ t.watched = s.watched + change * Registrations("page")
<1> DEFINE x == change * Registrations("counter")
           y == change * Registrations("page")
<1>1. x \in Int /\ y \in Int
  OBVIOUS
<1>2. Dispatch(s, change) = [s EXCEPT !.count = s.count + x, !.watched = s.watched + y]
  BY DEF Dispatch
<1> HIDE DEF x, y
<1>3. s.count + x \in Int /\ s.watched + y \in Int
  BY <1>1 DEF Handlers
<1> QED BY <1>2, <1>3 DEF Same, Kept, Handlers, x, y

\* A complete answer is told of, and the responders are, as far as nothing throws.
LEMMA RespondComplete ==
    ASSUME NEW s \in Handlers, ~ s.thrown, s.q.readyState = 4, ~ s.q.complete,
           Story(s.q.calls, 2), Seen(s) \intersect (OutcomeEvents \union {"Complete"}) = {},
           Registrations("counter") \in Int, Registrations("page") \in Int
    PROVE  LET t == Respond(s, 4)
               reported == ~ (Halted(s.q) \/ "complete" \in s.q.faults)
           IN  /\ t.q \in MadeRequest /\ Kept(s.q, t.q)
               /\ t.q.complete <=> ~ ({"json", "exception"} \subseteq s.q.faults)
               /\ Story(t.q.calls, 4)
               /\ "Loading" \in Seen(t) <=> "Loading" \in Seen(s)
               /\ Seen(t) \intersect OutcomeEvents # {} <=> ~ ({"json", "exception"} \subseteq s.q.faults)
               /\ "Complete" \in Seen(t) <=> ~ Halted(s.q)
               /\ t.count = s.count - IF reported THEN Registrations("counter") ELSE 0
               /\ t.watched = s.watched - IF reported THEN Registrations("page") ELSE 0
<1> DEFINE p == Response(s)
           a == Then(p, LAMBDA t : IF 4 = 4 THEN Concluded(t) ELSE t)
           t == Then(a, LAMBDA x : Told(x, 4, 4 = 4))
           c == Call(a, "Complete", "complete")
           d == IF c.thrown THEN c ELSE Dispatch(c, -1)
           broken == {"json", "exception"} \subseteq s.q.faults
<1>1. Respond(s, 4) = IF t.thrown THEN t ELSE [t EXCEPT !.q.listening = @ /\ ~ (4 = 4)]
  BY Zenon DEF Respond, Then
<1>2. a = IF p.thrown THEN p ELSE Concluded(p)
  BY DEF Then
<1>3. t = IF a.thrown THEN a ELSE Told(a, 4, 4 = 4)
  BY DEF Then
<1>4. Told(a, 4, 4 = 4) = Caught(d)
  BY DEF Told, Then, Events
<1>5. /\ Same(s, p) /\ SameCounts(s, p) /\ p.q.complete = s.q.complete
      /\ Story(p.q.calls, 2) /\ Seen(p) = Seen(s)
      /\ p.thrown <=> broken
  BY ResponseDoes
<1> HIDE DEF p, a, t, c, d
<1>6. p \in Handlers /\ p.q.faults = s.q.faults
  BY <1>5 DEF Same, Kept
<1>7. /\ Same(s, a) /\ SameCounts(s, a)
      /\ a.q.complete <=> ~ broken
      /\ Story(a.q.calls, 3)
      /\ "Loading" \in Seen(a) <=> "Loading" \in Seen(s)
      /\ Seen(a) \intersect OutcomeEvents # {} <=> ~ broken
      /\ "Complete" \notin Seen(a)
      /\ a.thrown <=> Halted(s.q)
  <2>1. CASE p.thrown
    <3>1. Story(p.q.calls, 3)
      BY <1>5, StoryHigher
    <3> QED BY <1>2, <1>5, <2>1, <3>1 DEF Halted
  <2>2. CASE ~ p.thrown
    <3>1. /\ Same(p, a) /\ SameCounts(p, a) /\ a.q.complete
          /\ Story(a.q.calls, 3)
          /\ Seen(a) = Seen(p) \union {OutcomeEvent(p.q)}
          /\ a.thrown <=> /\ "exception" \in p.q.faults
                          /\ p.q.faults \intersect {"outcome", "script"} # {}
      BY <1>2, <1>5, <1>6, <2>2, AnsweredDoes
    <3>2. Same(s, a) /\ SameCounts(s, a)
      BY <1>5, <3>1, SameTransitive
    <3>3. OutcomeEvent(p.q) \in OutcomeEvents /\ OutcomeEvent(p.q) \notin {"Loading", "Complete"}
      BY DEF OutcomeEvent, OutcomeEvents
    <3> QED BY <1>5, <1>6, <2>2, <3>1, <3>2, <3>3 DEF Halted
  <2> QED BY <2>1, <2>2
<1>8. a \in Handlers /\ a.q.faults = s.q.faults /\ a.q \in MadeRequest /\ Kept(s.q, a.q)
  BY <1>7 DEF Same, Kept, Handlers
<1>9. CASE a.thrown
  <2>1. Respond(s, 4) = a
    BY <1>1, <1>3, <1>9
  <2>2. Story(a.q.calls, 4)
    BY <1>7, StoryHigher
  <2>3. a.count = s.count - 0 /\ a.watched = s.watched - 0
    BY <1>7 DEF SameCounts, Handlers
  <2> QED BY <1>7, <1>8, <1>9, <2>1, <2>2, <2>3
<1>10. CASE ~ a.thrown
  <2>1. "Complete" \in Names /\ Rank("Complete") = 4
    BY NamesKnown, Ranks
  <2>2. /\ Same(a, c) /\ SameCounts(a, c) /\ c.q.complete = a.q.complete
        /\ c.thrown <=> "complete" \in s.q.faults
    BY <1>8, <2>1, CallDoes DEF c
  <2>3. Story(c.q.calls, 4) /\ Seen(c) = Seen(a) \union {"Complete"}
    BY <1>7, <1>8, <2>1, CallStory DEF c
  <2>4. c \in Handlers
    BY <2>2 DEF Same
  <2>5. /\ Same(c, d) /\ d.q = c.q /\ d.thrown = c.thrown
        /\ d.count = c.count - (IF c.thrown THEN 0 ELSE Registrations("counter"))
        /\ d.watched = c.watched - (IF c.thrown THEN 0 ELSE Registrations("page"))
    <3>1. CASE c.thrown
      <4>1. c.count - 0 = c.count /\ c.watched - 0 = c.watched
        BY <2>4 DEF Handlers
      <4> QED BY <2>4, <3>1, <4>1, SameItself DEF d
    <3>2. CASE ~ c.thrown
      <4>1. /\ Same(c, d) /\ d.q = c.q /\ d.thrown = c.thrown
            /\ d.count = c.count + (-1) * Registrations("counter")
            /\ d.watched = c.watched + (-1) * Registrations("page")
        BY <2>4, <3>2, DispatchDoes DEF d
      <4>2. c.count \in Int /\ c.watched \in Int
        BY <2>4 DEF Handlers
      <4> QED BY <3>2, <4>1, <4>2
    <3> QED BY <3>1, <3>2
  <2>6. d \in Handlers /\ d.q.faults = s.q.faults /\ (d.thrown <=> "complete" \in d.q.faults)
    BY <1>8, <2>2, <2>5 DEF Same, Kept
  <2>7. Excepted(d, Caught(d), "complete")
    BY <2>6, CaughtDoes
  <2>8. Story(d.q.calls, 4) /\ Seen(d) = Seen(a) \union {"Complete"}
    BY <2>3, <2>5 DEF Seen
  <2>9. Story(Caught(d).q.calls, 4) /\ Seen(Caught(d)) = Seen(a) \union {"Complete"}
    BY <2>6, <2>7, <2>8, ExceptedStory
  <2>10. t = Caught(d)
    BY <1>3, <1>4, <1>10
  <2>11. Same(s, t) /\ t.count = d.count /\ t.watched = d.watched
    BY <1>7, <2>2, <2>5, <2>7, <2>10, SameTransitive DEF Excepted, SameCounts
  <2>12. t.q.complete = a.q.complete
    BY <2>2, <2>5, <2>7, <2>10 DEF Excepted
  <2>13. t \in Handlers /\ t.q \in MadeRequest /\ Kept(s.q, t.q)
    BY <2>11 DEF Same, Handlers
  <2> DEFINE u == [t EXCEPT !.q.listening = t.q.listening /\ ~ (4 = 4)]
  <2>14. u = [t EXCEPT !.q = [t.q EXCEPT !.listening = FALSE]]
    OBVIOUS
  <2>15. /\ u.q \in MadeRequest /\ Kept(s.q, u.q) /\ u.q.complete = t.q.complete
         /\ u.q.calls = t.q.calls /\ u.count = t.count /\ u.watched = t.watched
    <3> HIDE DEF u
    <3> QED BY <2>13, <2>14 DEF Handlers, MadeRequest, Kept
  <2> DEFINE v == Respond(s, 4)
  <2>16. v \in {t, u}
    BY <1>1
  <2> HIDE DEF u, v
  <2>17. /\ v.q \in MadeRequest /\ Kept(s.q, v.q) /\ v.q.complete = t.q.complete
         /\ v.q.calls = t.q.calls /\ v.count = t.count /\ v.watched = t.watched
    BY <2>13, <2>15, <2>16
  <2>18. Seen(v) = Seen(a) \union {"Complete"} /\ Story(v.q.calls, 4)
    BY <2>9, <2>10, <2>17 DEF Seen
  <2>19. "Complete" \notin OutcomeEvents
    BY DEF OutcomeEvents
  <2>20. c.count = s.count /\ c.watched = s.watched
    BY <1>7, <2>2 DEF SameCounts
  <2>21. ~ Halted(s.q)
    BY <1>7, <1>10
  <2>22. /\ v.count = s.count - (IF "complete" \in s.q.faults THEN 0 ELSE Registrations("counter"))
         /\ v.watched = s.watched - (IF "complete" \in s.q.faults THEN 0 ELSE Registrations("page"))
    BY <2>2, <2>5, <2>11, <2>17, <2>20
  <2> QED BY <1>7, <2>12, <2>17, <2>18, <2>19, <2>21, <2>22 DEF v
<1> QED BY <1>9, <1>10

-----------------------------------------------------------------------------
(* Steps over an array *)

\* A set of numbers that is not empty has a least one.
LEMMA LeastNumber ==
    ASSUME NEW T \in SUBSET Nat, T # {}
    PROVE  \E x \in T : \A y \in T : x <= y
<1> DEFINE R == OpToRel(<, Nat)
<1>1. IsWellFoundedOn(R, Nat)
  BY NatLessThanWellFounded
<1>2. \A x, y \in Nat : <<y, x>> \in R <=> y < x
  BY DEF OpToRel
<1> HIDE DEF R
<1>3. PICK x \in T : \A y \in T : ~ (<<y, x>> \in R)
  BY <1>1, WFMin
<1>4. \A y \in T : ~ (y < x)
  BY <1>2, <1>3
<1> QED
  BY <1>3, <1>4

\* A set of numbers up to n that has 0, and with each number the next one, has them all.
LEMMA Reached ==
    ASSUME NEW n \in Nat, NEW P \in SUBSET (0..n), 0 \in P,
           \A i \in 1..n : i - 1 \in P => i \in P
    PROVE  P = 0..n
<1> DEFINE T == (0..n) \ P
<1>1. SUFFICES ASSUME T # {} PROVE FALSE
  OBVIOUS
<1>2. T \in SUBSET Nat
  OBVIOUS
<1>3. PICK x \in T : \A y \in T : x <= y
  BY <1>1, <1>2, LeastNumber
<1>4. x \in 1..n /\ x - 1 \in 0..n
  BY <1>3
<1>5. x - 1 \in P
  BY <1>3, <1>4
<1> QED
  BY <1>3, <1>4, <1>5

\* Functions on S can be applied one after the other.
Chains(k, n, S, base, f) ==
    {g \in [0..n -> S] : g[0] = base /\ \A i \in 1..k : g[i] = f[i][g[i - 1]]}

\* However many of them there are.
LEMMA Iterated ==
    ASSUME NEW n \in Nat, NEW S, NEW base \in S, NEW f \in [1..n -> [S -> S]]
    PROVE  Chains(n, n, S, base, f) # {}
<1> DEFINE P == {k \in 0..n : Chains(k, n, S, base, f) # {}}
<1>1. 0 \in P
  <2> DEFINE g == [i \in 0..n |-> base]
  <2>1. g \in Chains(0, n, S, base, f)
    BY DEF Chains
  <2> QED BY <2>1
<1>2. ASSUME NEW k \in 1..n, k - 1 \in P PROVE k \in P
  <2>1. PICK g : g \in Chains(k - 1, n, S, base, f)
    BY <1>2
  <2>2. g \in [0..n -> S] /\ g[0] = base /\ \A i \in 1..(k - 1) : g[i] = f[i][g[i - 1]]
    BY <2>1 DEF Chains
  <2> DEFINE h == [g EXCEPT ![k] = f[k][g[k - 1]]]
  <2>3. k \in 0..n /\ k - 1 \in 0..n /\ f[k][g[k - 1]] \in S
    BY <2>2
  <2>4. h \in [0..n -> S]
    BY <2>2, <2>3
  <2>5. \A i \in 0..n : h[i] = IF i = k THEN f[k][g[k - 1]] ELSE g[i]
    BY <2>2
  <2>6. h[0] = base
    BY <2>2, <2>5
  <2> HIDE DEF h
  <2>7. ASSUME NEW i \in 1..k PROVE h[i] = f[i][h[i - 1]]
    <3>1. i \in 0..n /\ i - 1 \in 0..n /\ i - 1 # k /\ (i # k => i \in 1..(k - 1))
      OBVIOUS
    <3>2. h[i - 1] = g[i - 1]
      BY <2>5, <3>1
    <3> QED BY <2>2, <2>5, <3>1, <3>2
  <2>8. h \in Chains(k, n, S, base, f)
    BY <2>4, <2>6, <2>7 DEF Chains
  <2> QED BY <2>3, <2>8
<1>3. P = 0..n
  <2> HIDE DEF P
  <2>1. P \in SUBSET (0..n)
    BY DEF P
  <2> QED BY <1>1, <1>2, <2>1, Reached
<1> QED
  BY <1>3

\* What is of a set at first, and remains of it with each step, is of it in the end.
LEMMA StaysIn ==
    ASSUME NEW n \in Nat, NEW R, NEW g, g[0] \in R, \A i \in 1..n : g[i - 1] \in R => g[i] \in R
    PROVE  \A i \in 0..n : g[i] \in R
<1> DEFINE P == {i \in 0..n : g[i] \in R}
<1>1. P \in SUBSET (0..n) /\ 0 \in P /\ \A i \in 1..n : i - 1 \in P => i \in P
  OBVIOUS
<1> HIDE DEF P
<1>2. P = 0..n
  BY <1>1, Reached
<1> QED BY <1>2 DEF P

\* What findAll has kept after each value of the array.
LEMMA FindAllSteps ==
    ASSUME NEW S, NEW s \in Seq(S), NEW test
    PROVE  \E c \in [0..Len(s) -> Seq(S)] :
              /\ FindAll(test, s) = c[Len(s)]
              /\ c[0] = <<>>
              /\ \A i \in 1..Len(s) : c[i] = Pushed(c[i - 1], s[i], s[i] \in test)
<1> DEFINE N == Len(s)
           R == Seq(S)
           f == [i \in 1..N |-> [r \in R |-> Pushed(r, s[i], s[i] \in test)]]
           Body(g) == [n \in 0..N |-> IF n = 0 THEN <<>> ELSE Pushed(g[n - 1], s[n], s[n] \in test)]
           given == CHOOSE g : g = Body(g)
<1>1. N \in Nat /\ <<>> \in R
  OBVIOUS
<1>2. \A i \in 1..N, r \in R : Pushed(r, s[i], s[i] \in test) \in R
  BY DEF Pushed
<1>3. f \in [1..N -> [R -> R]]
  <2> HIDE DEF N, R
  <2> QED BY <1>2
<1>4. PICK g : g \in [0..N -> R] /\ g[0] = <<>> /\ \A i \in 1..N : g[i] = f[i][g[i - 1]]
  <2> HIDE DEF f, N, R
  <2>1. PICK g : g \in Chains(N, N, R, <<>>, f)
    BY <1>1, <1>3, Iterated
  <2> QED BY <2>1 DEF Chains
<1>5. \A i \in 1..N : g[i] = Pushed(g[i - 1], s[i], s[i] \in test)
  <2> SUFFICES ASSUME NEW i \in 1..N PROVE g[i] = Pushed(g[i - 1], s[i], s[i] \in test)
    OBVIOUS
  <2>1. f[i] = [r \in R |-> Pushed(r, s[i], s[i] \in test)]
    OBVIOUS
  <2>2. i - 1 \in 0..N
    BY <1>1
  <2> HIDE DEF f, N, R
  <2>3. g[i] = f[i][g[i - 1]] /\ g[i - 1] \in R
    BY <1>4, <2>2
  <2> QED BY <2>1, <2>3
<1>6. g = Body(g)
  <2>1. \A n \in 0..N : n = 0 \/ n \in 1..N
    BY <1>1
  <2> HIDE DEF N, R
  <2>2. \A n \in 0..N : g[n] = IF n = 0 THEN <<>> ELSE Pushed(g[n - 1], s[n], s[n] \in test)
    BY <1>4, <1>5, <2>1
  <2> QED BY <1>4, <2>2
<1>7. given = Body(given)
  <2> HIDE DEF Body
  <2> QED BY <1>6
<1>8. FindAll(test, s) = given[N]
  BY DEF FindAll, Inject
<1> HIDE DEF given, R
<1>9. given[0] = <<>> /\ \A i \in 1..N : given[i] = Pushed(given[i - 1], s[i], s[i] \in test)
  <2>1. 0 \in 0..N /\ \A i \in 1..N : i \in 0..N /\ i # 0
    BY <1>1
  <2> HIDE DEF N
  <2> QED BY <1>7, <2>1
<1>10. \A i \in 0..N : given[i] \in R
  <2> HIDE DEF N
  <2> QED BY <1>1, <1>2, <1>9, StaysIn
<1>11. given \in [0..N -> R]
  <2>1. given = [n \in 0..N |-> given[n]]
    BY <1>7
  <2> HIDE DEF N
  <2> QED BY <1>10, <2>1
<1> QED BY <1>8, <1>9, <1>11 DEF R

-----------------------------------------------------------------------------
(* Responders *)

\* The page's responder is among the responders exactly after it was registered.
LEMMA IncludePage ==
    /\ ~ Include(<<"counter">>, "page")
    /\ Include(<<"counter", "page">>, "page")
<1>1. ~ LooselyEqual("counter", "page")
  BY RequestsAssumption DEF LooselyEqual
<1>2. IndexOf(<<"counter">>, "page", 0) = -1
  BY DEF IndexOf, StartIndex
<1>3. LooselyEqual("page", "page")
  BY DEF LooselyEqual
<1> QED BY <1>1, <1>2, <1>3 DEF Include

\* Responders are told apart by identity.
LEMMA IncludeCounter ==
    /\ ~ Include(<<"page">>, "counter")
    /\ Include(<<"page">>, "page")
<1>1. ~ LooselyEqual("page", "counter")
  BY RequestsAssumption DEF LooselyEqual
<1>2. IndexOf(<<"page">>, "counter", 0) = -1
  BY DEF IndexOf, StartIndex
<1>3. LooselyEqual("page", "page")
  BY DEF LooselyEqual
<1> QED BY <1>1, <1>2, <1>3 DEF Include

\* What is left of the responders without the page's: of one.
LEMMA FilterOne ==
    FindAll({"counter"}, <<"counter">>) = <<"counter">>
<1> DEFINE s == <<"counter">>
<1>1. s \in Seq({"counter"}) /\ Len(s) = 1 /\ s[1] = "counter"
  OBVIOUS
<1> HIDE DEF s
<1> DEFINE S == {"counter"}
<1>2. PICK c \in [0..Len(s) -> Seq(S)] :
         /\ FindAll(S, s) = c[Len(s)]
         /\ c[0] = <<>>
         /\ \A i \in 1..Len(s) : c[i] = Pushed(c[i - 1], s[i], s[i] \in S)
  <2>1. s \in Seq(S)
    BY <1>1
  <2> HIDE DEF S
  <2> QED BY <2>1, FindAllSteps
<1>3. c[1] = Pushed(c[0], s[1], s[1] \in {"counter"})
  BY <1>1, <1>2
<1>4. c[1] = Append(<<>>, "counter")
  BY <1>1, <1>2, <1>3 DEF Pushed
<1>5. Append(<<>>, "counter") = <<"counter">>
  OBVIOUS
<1> QED BY <1>1, <1>2, <1>4, <1>5 DEF s

\* Of both.
LEMMA FilterTwo ==
    FindAll({"counter"}, <<"counter", "page">>) = <<"counter">>
<1> DEFINE s == <<"counter", "page">>
           S == {"counter", "page"}
<1>1. s \in Seq(S) /\ Len(s) = 2 /\ s[1] = "counter" /\ s[2] = "page"
  OBVIOUS
<1> HIDE DEF s, S
<1> DEFINE test == {"counter"}
<1>2. PICK c \in [0..Len(s) -> Seq(S)] :
         /\ FindAll(test, s) = c[Len(s)]
         /\ c[0] = <<>>
         /\ \A i \in 1..Len(s) : c[i] = Pushed(c[i - 1], s[i], s[i] \in test)
  <2>1. s \in Seq(S)
    BY <1>1
  <2> HIDE DEF test
  <2> QED BY <2>1, FindAllSteps
<1>3. /\ c[1] = Pushed(c[0], s[1], s[1] \in {"counter"})
      /\ c[2] = Pushed(c[1], s[2], s[2] \in {"counter"})
  BY <1>1, <1>2
<1>4. c[1] = Append(<<>>, "counter") /\ c[2] = c[1]
  BY <1>1, <1>2, <1>3 DEF Pushed
<1>5. Append(<<>>, "counter") = <<"counter">>
  OBVIOUS
<1> QED BY <1>1, <1>2, <1>4, <1>5 DEF s

\* Unregistering the page's responder leaves the library's own one.
LEMMA WithoutPage ==
    /\ Without(<<"counter">>, <<"page">>) = <<"counter">>
    /\ Without(<<"counter", "page">>, <<"page">>) = <<"counter">>
<1>1. {v \in ToSet(<<"counter">>) : ~ Include(<<"page">>, v)} = {"counter"}
  <2>1. ToSet(<<"counter">>) = {"counter"}
    BY DEF ToSet
  <2> QED BY <2>1, IncludeCounter
<1>2. {v \in ToSet(<<"counter", "page">>) : ~ Include(<<"page">>, v)} = {"counter"}
  <2>1. ToSet(<<"counter", "page">>) = {"counter", "page"}
    BY DEF ToSet
  <2> QED BY <2>1, IncludeCounter
<1> QED BY <1>1, <1>2, FilterOne, FilterTwo DEF Without

-----------------------------------------------------------------------------
(* One request *)

Top(readyState) == IF readyState < 2 THEN 0 ELSE IF readyState = 4 THEN 4 ELSE readyState - 1

Broken(q) == {"json", "exception"} \subseteq q.faults
Told4(q) == ToSet(q.calls) \intersect OutcomeEvents # {}

\* What a request that was made is at any time.
RequestOK(q) ==
    /\ q \in MadeRequest
    /\ Story(q.calls, Top(q.readyState))
    /\ q.loading => "Loading" \notin ToSet(q.calls)
    /\ q.sent /\ q.readyState < 4 => q.listening /\ q.readyState > 0
    /\ q.readyState > 0 => "create" \notin q.faults
    /\ q.readyState < 4 =>
         ~ q.complete /\ ToSet(q.calls) \intersect (OutcomeEvents \union {"Complete"}) = {}
    /\ q.readyState = 4 => /\ Told4(q) <=> ~ Broken(q)
                           /\ q.complete <=> ~ Broken(q)
                           /\ "Complete" \in ToSet(q.calls) <=> ~ Halted(q)

Counted(q) == "create" \notin q.faults /\ (q.readyState < 4 \/ Unreported(q))
Adds(q) == IF Counted(q) THEN 1 ELSE 0

\* A completion is not reported if an exception stops the handler before it.
LEMMA UnreportedHalted ==
    ASSUME NEW q
    PROVE  Unreported(q) <=> Halted(q) \/ "complete" \in q.faults
  BY DEF Unreported, Halted

\* A handler begins with the request and both counters as they are.
LEMMA RunningDoes ==
    ASSUME NEW q \in MadeRequest, activeRequestCount \in Int, watched \in Int
    PROVE  /\ Running(q) \in Handlers /\ Running(q).q = q /\ ~ Running(q).thrown
           /\ Running(q).count = activeRequestCount /\ Running(q).watched = watched
  BY DEF Running, Handlers

\* How a request was made ends.
LEMMA Requested ==
    ASSUME NEW kind \in Kinds, activeRequestCount \in Int, watched \in Int,
           Registrations("counter") \in Int, Registrations("page") \in Int
    PROVE
      LET created   == Call(Running(NewRequest(kind)), "Create", "create")
          counted   == Then(created, LAMBDA s : Dispatch(s, 1))
          opened(s) == IF "open" \in kind.faults THEN [s EXCEPT !.thrown = TRUE]
                       ELSE [s EXCEPT !.q.readyState = 1, !.q.loading = TRUE, !.q.listening = TRUE]
          sent(s)   == IF "send" \in kind.faults THEN [s EXCEPT !.thrown = TRUE]
                       ELSE [s EXCEPT !.q.sent = TRUE]
          t         == Caught(Then(Then(counted, opened), sent))
      IN  /\ RequestOK(t.q) /\ t.q.faults = kind.faults /\ t.q.readyState < 4
          /\ t.q.sent <=> kind.faults \intersect {"create", "open", "send"} = {}
          /\ t.count = activeRequestCount + Adds(t.q) * Registrations("counter")
          /\ t.watched = watched + Adds(t.q) * Registrations("page")
<1> DEFINE q == NewRequest(kind)
           b == Running(q)
           c == Call(b, "Create", "create")
           d == IF c.thrown THEN c ELSE Dispatch(c, 1)
           o == IF d.thrown THEN d
                ELSE IF "open" \in kind.faults THEN [d EXCEPT !.thrown = TRUE]
                ELSE [d EXCEPT !.q.readyState = 1, !.q.loading = TRUE, !.q.listening = TRUE]
           e == IF o.thrown THEN o
                ELSE IF "send" \in kind.faults THEN [o EXCEPT !.thrown = TRUE]
                ELSE [o EXCEPT !.q.sent = TRUE]
           t == Caught(e)
<1>1. kind.faults \in SUBSET Faults /\ kind.hasStatusOption \in BOOLEAN
  BY KindsAssumption
<1>2. q \in MadeRequest /\ q.faults = kind.faults /\ q.readyState = 0 /\ q.calls = <<>>
      /\ ~ q.complete /\ ~ q.loading /\ ~ q.sent /\ ~ q.listening
  BY <1>1 DEF NewRequest, MadeRequest
<1> HIDE DEF q
<1>3. b \in Handlers /\ b.q = q /\ ~ b.thrown /\ b.count = activeRequestCount /\ b.watched = watched
  BY <1>2, RunningDoes
<1>4. "Create" \in Names /\ "Exception" \in Names
  BY NamesKnown
<1> HIDE DEF b, c, d, o, e, t
<1>5. /\ Same(b, c) /\ SameCounts(b, c) /\ c.q.complete = b.q.complete
      /\ c.q.calls = Append(b.q.calls, "Create")
      /\ c.thrown <=> "create" \in kind.faults
  BY <1>2, <1>3, <1>4, CallDoes DEF c
<1>6. /\ c \in Handlers /\ c.q.calls = <<"Create">> /\ c.q.faults = kind.faults
      /\ c.q.readyState = 0 /\ ~ c.q.complete /\ ~ c.q.loading /\ ~ c.q.sent /\ ~ c.q.listening
      /\ c.count = activeRequestCount /\ c.watched = watched
  BY <1>2, <1>3, <1>5 DEF Same, SameCounts, Kept
<1> DEFINE n == IF "create" \in kind.faults THEN 0 ELSE 1
<1>7. /\ d \in Handlers /\ d.q = c.q /\ (d.thrown <=> "create" \in kind.faults)
      /\ d.count = activeRequestCount + n * Registrations("counter")
      /\ d.watched = watched + n * Registrations("page")
  <2>1. CASE c.thrown
    <3>1. 0 * Registrations("counter") = 0 /\ 0 * Registrations("page") = 0
      OBVIOUS
    <3> QED BY <1>5, <1>6, <2>1, <3>1 DEF d
  <2>2. CASE ~ c.thrown
    <3>1. /\ Same(c, d) /\ d.q = c.q /\ d.thrown = c.thrown
          /\ d.count = c.count + 1 * Registrations("counter")
          /\ d.watched = c.watched + 1 * Registrations("page")
      BY <1>6, <2>2, DispatchDoes DEF d
    <3>2. n = 1
      BY <1>5, <2>2
    <3> QED BY <1>5, <1>6, <2>2, <3>1, <3>2 DEF Same
  <2> QED BY <2>1, <2>2
<1> HIDE DEF n
<1>8. /\ o \in Handlers /\ o.count = d.count /\ o.watched = d.watched
      /\ o.q.calls = <<"Create">> /\ o.q.faults = kind.faults /\ ~ o.q.complete /\ ~ o.q.sent
      /\ o.q.readyState \in {0, 1} /\ (o.q.listening <=> o.q.readyState = 1)
      /\ o.q.readyState = 1 <=> kind.faults \intersect {"create", "open"} = {}
      /\ o.thrown <=> kind.faults \intersect {"create", "open"} # {}
  <2>0. d.q \in MadeRequest
    BY <1>7 DEF Handlers
  <2>1. CASE d.thrown
    <3>1. o = d
      BY <2>1 DEF o
    <3> QED BY <1>6, <1>7, <2>1, <3>1
  <2>2. CASE ~ d.thrown /\ "open" \in kind.faults
    <3>1. o = [d EXCEPT !.thrown = TRUE]
      BY <2>2 DEF o
    <3>2. o \in Handlers /\ o.q = d.q /\ o.count = d.count /\ o.watched = d.watched /\ o.thrown
      BY <1>7, <3>1 DEF Handlers
    <3> QED BY <1>6, <1>7, <2>2, <3>2
  <2>3. CASE ~ d.thrown /\ "open" \notin kind.faults
    <3> DEFINE p == [d.q EXCEPT !.readyState = 1, !.loading = TRUE, !.listening = TRUE]
    <3>1. o = [d EXCEPT !.q = p]
      BY <1>7, <2>3 DEF o, Handlers
    <3>2. /\ p \in MadeRequest /\ p.calls = d.q.calls /\ p.faults = d.q.faults
          /\ p.complete = d.q.complete /\ p.sent = d.q.sent /\ p.readyState = 1 /\ p.listening = TRUE
      <4>1. 1 \in 0..4
        OBVIOUS
      <4> QED BY <2>0, <4>1 DEF MadeRequest
    <3> HIDE DEF p
    <3>3. o \in Handlers /\ o.q = p /\ o.count = d.count /\ o.watched = d.watched /\ ~ o.thrown
      BY <1>7, <2>3, <3>1, <3>2 DEF Handlers
    <3> QED BY <1>6, <1>7, <2>3, <3>2, <3>3
  <2> QED BY <2>1, <2>2, <2>3
<1>9. /\ e \in Handlers /\ e.count = d.count /\ e.watched = d.watched
      /\ e.q.calls = <<"Create">> /\ e.q.faults = kind.faults /\ ~ e.q.complete
      /\ e.q.readyState = o.q.readyState /\ e.q.listening = o.q.listening
      /\ e.q.sent <=> kind.faults \intersect {"create", "open", "send"} = {}
      /\ e.thrown <=> kind.faults \intersect {"create", "open", "send"} # {}
  <2>0. o.q \in MadeRequest
    BY <1>8 DEF Handlers
  <2>1. CASE o.thrown
    BY <1>8, <2>1 DEF e
  <2>2. CASE ~ o.thrown /\ "send" \in kind.faults
    <3>1. e = [o EXCEPT !.thrown = TRUE]
      BY <2>2 DEF e
    <3>2. e \in Handlers /\ e.q = o.q /\ e.count = o.count /\ e.watched = o.watched /\ e.thrown
      BY <1>8, <3>1 DEF Handlers
    <3> QED BY <1>8, <2>2, <3>2
  <2>3. CASE ~ o.thrown /\ "send" \notin kind.faults
    <3> DEFINE p == [o.q EXCEPT !.sent = TRUE]
    <3>1. e = [o EXCEPT !.q = p]
      BY <1>8, <2>3 DEF e, Handlers
    <3>2. /\ p \in MadeRequest /\ p.calls = o.q.calls /\ p.faults = o.q.faults
          /\ p.complete = o.q.complete /\ p.sent = TRUE /\ p.readyState = o.q.readyState
          /\ p.listening = o.q.listening
      BY <2>0 DEF MadeRequest
    <3> HIDE DEF p
    <3>3. e \in Handlers /\ e.q = p /\ e.count = o.count /\ e.watched = o.watched /\ ~ e.thrown
      BY <1>8, <2>3, <3>1, <3>2 DEF Handlers
    <3> QED BY <1>8, <2>3, <3>2, <3>3
  <2> QED BY <2>1, <2>2, <2>3
<1>10. Story(<<"Create">>, 0) /\ ToSet(<<"Create">>) = {"Create"}
  BY <1>4, Ranks DEF Story, EventsOrdered, LoadingOnce, ToSet
<1>11. /\ t.q.calls \in {<<"Create">>, Append(<<"Create">>, "Exception")}
       /\ Same(e, t) /\ SameCounts(e, t) /\ t.q.complete = e.q.complete
  <2>1. CASE e.thrown
    <3>1. t = Call(e, "Exception", "exception")
      BY <2>1 DEF t, Caught, DispatchException
    <3> DEFINE u == Call(e, "Exception", "exception")
    <3>2. /\ Same(e, u) /\ SameCounts(e, u) /\ u.q.complete = e.q.complete
          /\ u.q.calls = Append(e.q.calls, "Exception")
      BY <1>4, <1>9, CallDoes
    <3> HIDE DEF u
    <3> QED BY <1>9, <3>1, <3>2 DEF u
  <2>2. CASE ~ e.thrown
    <3>1. t = e
      BY <2>2 DEF t, Caught
    <3> QED BY <1>9, <3>1, SameItself
  <2> QED BY <2>1, <2>2
<1>12. Story(t.q.calls, 0) /\ ToSet(t.q.calls) \subseteq {"Create", "Exception"}
  <2>1. "Exception" \in Unranked
    BY DEF Unranked
  <2>2. /\ Story(Append(<<"Create">>, "Exception"), 0)
        /\ ToSet(Append(<<"Create">>, "Exception")) = {"Create"} \union {"Exception"}
    BY <1>4, <1>10, <2>1, StoryAppended
  <2> QED BY <1>10, <1>11, <2>2
<1>13. t.q \in MadeRequest /\ t.q.faults = kind.faults /\ t.q.readyState = o.q.readyState
       /\ t.q.listening = o.q.listening /\ t.q.sent = e.q.sent /\ ~ t.q.complete
  BY <1>9, <1>11 DEF Same, Kept, Handlers
<1>14. RequestOK(t.q)
  <2>1. Top(t.q.readyState) = 0 /\ t.q.readyState \in {0, 1}
    BY <1>8, <1>13 DEF Top
  <2>2. /\ ToSet(t.q.calls) \intersect (OutcomeEvents \union {"Complete"}) = {}
        /\ "Loading" \notin ToSet(t.q.calls)
    BY <1>12 DEF OutcomeEvents
  <2>3. t.q.sent => t.q.listening /\ t.q.readyState = 1
    BY <1>8, <1>9, <1>13
  <2>4. t.q.readyState > 0 => "create" \notin t.q.faults
    BY <1>8, <1>13
  <2>5. Story(t.q.calls, Top(t.q.readyState))
    BY <1>12, <2>1
  <2> QED BY <1>13, <2>1, <2>2, <2>3, <2>4, <2>5 DEF RequestOK
<1>15. Adds(t.q) = n
  BY <1>8, <1>13 DEF Adds, Counted, n
<1>16. t.count = d.count /\ t.watched = d.watched
  BY <1>9, <1>11 DEF SameCounts
<1>17. /\ RequestOK(t.q) /\ t.q.faults = kind.faults /\ t.q.readyState < 4
       /\ t.q.sent <=> kind.faults \intersect {"create", "open", "send"} = {}
       /\ t.count = activeRequestCount + Adds(t.q) * Registrations("counter")
       /\ t.watched = watched + Adds(t.q) * Registrations("page")
  BY <1>7, <1>8, <1>9, <1>13, <1>14, <1>15, <1>16
<1> QED BY <1>17 DEF t, e, o, d, c, b, q, Then

\* What was put off is told of, whatever the request is by then.
LEMMA LoadingDoes ==
    ASSUME NEW q, RequestOK(q), q.loading, activeRequestCount \in Int, watched \in Int
    PROVE  LET t == Respond(Running([q EXCEPT !.loading = FALSE]), 1)
           IN  /\ RequestOK(t.q) /\ t.q.faults = q.faults
               /\ t.q.sent = q.sent /\ t.q.readyState = q.readyState
               /\ t.count = activeRequestCount /\ t.watched = watched
               /\ Completions(t.q.calls) = Completions(q.calls)
<1> DEFINE p == [q EXCEPT !.loading = FALSE]
           s == Running(p)
           t == Respond(s, 1)
           top == Top(q.readyState)
<1>1. /\ p \in MadeRequest /\ p.calls = q.calls /\ p.faults = q.faults /\ p.sent = q.sent
      /\ p.readyState = q.readyState /\ p.complete = q.complete /\ p.listening = q.listening
      /\ ~ p.loading /\ q.readyState \in 0..4
  BY DEF RequestOK, MadeRequest
<1> HIDE DEF p
<1>2. /\ s \in Handlers /\ s.q = p /\ ~ s.thrown
      /\ s.count = activeRequestCount /\ s.watched = watched
  BY <1>1, RunningDoes
<1> HIDE DEF s
<1>3. top \in Int /\ Story(s.q.calls, top)
  BY <1>1, <1>2 DEF Top, RequestOK
<1>4. "Loading" \notin Seen(s)
  BY <1>1, <1>2 DEF RequestOK, Seen
<1> HIDE DEF t, top
<1>5. /\ Same(s, t) /\ SameCounts(s, t) /\ t.q.complete = s.q.complete
      /\ Story(t.q.calls, top)
      /\ Seen(t) \in {Seen(s), Seen(s) \union {Events[1]}}
      /\ Completions(t.q.calls) = Completions(s.q.calls)
  BY <1>2, <1>3, <1>4, RespondPart DEF t
<1>6. /\ t.q \in MadeRequest /\ t.q.faults = q.faults /\ t.q.sent = q.sent
      /\ t.q.readyState = q.readyState /\ ~ t.q.loading
      /\ t.q.complete = q.complete /\ t.q.listening = q.listening
      /\ t.count = activeRequestCount /\ t.watched = watched
      /\ Completions(t.q.calls) = Completions(q.calls)
  BY <1>1, <1>2, <1>5 DEF Same, Kept, SameCounts, Handlers
<1>7. ToSet(t.q.calls) \ {"Exception", "Loading"} = ToSet(q.calls) \ {"Exception", "Loading"}
  BY <1>1, <1>2, <1>5 DEF Seen, Events
<1>8. /\ ToSet(t.q.calls) \intersect OutcomeEvents = ToSet(q.calls) \intersect OutcomeEvents
      /\ "Complete" \in ToSet(t.q.calls) <=> "Complete" \in ToSet(q.calls)
      /\ ToSet(t.q.calls) \intersect (OutcomeEvents \union {"Complete"})
           = ToSet(q.calls) \intersect (OutcomeEvents \union {"Complete"})
  <2>1. OutcomeEvents \intersect {"Exception", "Loading"} = {}
    BY DEF OutcomeEvents
  <2> QED BY <1>7, <2>1
<1>9. RequestOK(t.q)
  <2>1. Broken(t.q) = Broken(q) /\ Halted(t.q) = Halted(q) /\ Told4(t.q) = Told4(q)
    BY <1>6, <1>8 DEF Broken, Halted, Told4
  <2> QED BY <1>5, <1>6, <1>8, <2>1 DEF RequestOK, top
<1> QED BY <1>6, <1>9 DEF t, s, p

\* What a change of the transport's state does.
LEMMA ChangeDoes ==
    ASSUME NEW q, RequestOK(q), q.sent, NEW n \in 2..4, NEW status \in Nat,
           \/ n = q.readyState + 1
           \/ n = 3 /\ q.readyState = 3
           \/ n = 4 /\ q.readyState \in {1, 2},
           activeRequestCount \in Int, watched \in Int,
           Registrations("counter") \in Int, Registrations("page") \in Int
    PROVE  LET p == [q EXCEPT !.readyState = n, !.status = status]
               t == IF p.listening THEN OnStateChange(Running(p)) ELSE Running(p)
           IN  /\ RequestOK(t.q) /\ t.q.faults = q.faults
               /\ t.q.sent = q.sent /\ t.q.readyState = n
               /\ q.readyState < 4 /\ Adds(q) = 1
               /\ t.count = activeRequestCount - (1 - Adds(t.q)) * Registrations("counter")
               /\ t.watched = watched - (1 - Adds(t.q)) * Registrations("page")
               /\ n < 4 => Completions(t.q.calls) = Completions(q.calls)
               /\ n = 4 /\ q.faults = {} => Completions(t.q.calls) # Completions(q.calls)
<1> DEFINE p == [q EXCEPT !.readyState = n, !.status = status]
           s == Running(p)
           t == Respond(s, n)
           top == Top(q.readyState)
           answer == IF p.listening THEN OnStateChange(Running(p)) ELSE Running(p)
           Changed(u) ==
             /\ RequestOK(u.q) /\ u.q.faults = q.faults
             /\ u.q.sent = q.sent /\ u.q.readyState = n
             /\ q.readyState < 4 /\ Adds(q) = 1
             /\ u.count = activeRequestCount - (1 - Adds(u.q)) * Registrations("counter")
             /\ u.watched = watched - (1 - Adds(u.q)) * Registrations("page")
             /\ n < 4 => Completions(u.q.calls) = Completions(q.calls)
             /\ n = 4 /\ q.faults = {} => Completions(u.q.calls) # Completions(q.calls)
<1>0. SUFFICES Changed(answer)
  OBVIOUS
<1>1. q.readyState \in 1..3 /\ q.listening /\ ~ q.complete /\ "create" \notin q.faults
  BY DEF RequestOK, MadeRequest
<1>2. /\ p \in MadeRequest /\ p.calls = q.calls /\ p.faults = q.faults /\ p.sent = q.sent
      /\ p.readyState = n /\ ~ p.complete /\ p.listening /\ p.loading = q.loading
  <2>1. n \in 0..4
    OBVIOUS
  <2> QED BY <1>1, <2>1 DEF RequestOK, MadeRequest
<1> HIDE DEF p, answer
<1>3. /\ s \in Handlers /\ s.q = p /\ ~ s.thrown
      /\ s.count = activeRequestCount /\ s.watched = watched
  BY <1>2, RunningDoes
<1>4. answer = t
  BY <1>2, <1>3 DEF OnStateChange, answer
<1> HIDE DEF s, t
<1>5. top \in 0..2 /\ Story(s.q.calls, top)
  BY <1>1, <1>2, <1>3 DEF Top, RequestOK
<1>6. /\ ToSet(q.calls) \intersect (OutcomeEvents \union {"Complete"}) = {}
      /\ q.loading => "Loading" \notin ToSet(q.calls)
      /\ s.q.calls = q.calls
  BY <1>1, <1>2, <1>3 DEF RequestOK
<1>7. Adds(q) = 1
  BY <1>1 DEF Adds, Counted
<1>8. ASSUME n < 4 PROVE Changed(t)
  <2>1. n \in 1..3 /\ n # 1 /\ (n - 1 > top \/ (n = 3 /\ top = 2))
    BY <1>1, <1>8 DEF Top
  <2> HIDE DEF top
  <2>2. /\ Same(s, t) /\ SameCounts(s, t) /\ t.q.complete = s.q.complete
        /\ Story(t.q.calls, n - 1)
        /\ Seen(t) \in {Seen(s), Seen(s) \union {Events[n]}}
        /\ Completions(t.q.calls) = Completions(s.q.calls)
    BY <1>3, <1>5, <2>1, RespondPart DEF t
  <2>3. /\ t.q \in MadeRequest /\ t.q.faults = q.faults /\ t.q.sent = q.sent
        /\ t.q.readyState = n /\ t.q.loading = q.loading
        /\ ~ t.q.complete /\ t.q.listening
        /\ t.count = activeRequestCount /\ t.watched = watched
        /\ Completions(t.q.calls) = Completions(q.calls)
    BY <1>2, <1>3, <1>6, <2>2 DEF Same, Kept, SameCounts, Handlers
  <2>4. ToSet(t.q.calls) \subseteq ToSet(q.calls) \union {"Exception", Events[n]}
    BY <1>6, <2>2 DEF Seen
  <2>5. Events[n] \notin OutcomeEvents \union {"Complete", "Loading"} /\ "Exception" \notin OutcomeEvents
    BY <2>1 DEF Events, OutcomeEvents
  <2>6. /\ ToSet(t.q.calls) \intersect (OutcomeEvents \union {"Complete"}) = {}
        /\ t.q.loading => "Loading" \notin ToSet(t.q.calls)
    BY <1>6, <2>3, <2>4, <2>5
  <2>7. RequestOK(t.q)
    <3>1. Top(t.q.readyState) = n - 1
      BY <2>1, <2>3 DEF Top
    <3> QED BY <1>1, <1>8, <2>1, <2>2, <2>3, <2>6, <3>1 DEF RequestOK
  <2>8. Adds(t.q) = 1
    BY <1>1, <1>8, <2>3 DEF Adds, Counted
  <2>9. /\ activeRequestCount = activeRequestCount - (1 - 1) * Registrations("counter")
        /\ watched = watched - (1 - 1) * Registrations("page")
    OBVIOUS
  <2> QED BY <1>1, <1>7, <1>8, <2>3, <2>7, <2>8, <2>9
<1>9. ASSUME n = 4 PROVE Changed(t)
  <2>1. Story(s.q.calls, 2)
    BY <1>5, StoryHigher
  <2>2. Seen(s) \intersect (OutcomeEvents \union {"Complete"}) = {}
    BY <1>6 DEF Seen
  <2> DEFINE reported == ~ (Halted(s.q) \/ "complete" \in s.q.faults)
  <2>3. /\ t.q \in MadeRequest /\ Kept(s.q, t.q)
        /\ t.q.complete <=> ~ ({"json", "exception"} \subseteq s.q.faults)
        /\ Story(t.q.calls, 4)
        /\ "Loading" \in Seen(t) <=> "Loading" \in Seen(s)
        /\ Seen(t) \intersect OutcomeEvents # {} <=> ~ ({"json", "exception"} \subseteq s.q.faults)
        /\ "Complete" \in Seen(t) <=> ~ Halted(s.q)
        /\ t.count = s.count - IF reported THEN Registrations("counter") ELSE 0
        /\ t.watched = s.watched - IF reported THEN Registrations("page") ELSE 0
    BY <1>2, <1>3, <1>9, <2>1, <2>2, RespondComplete DEF t
  <2>4. /\ t.q.faults = q.faults /\ t.q.sent = q.sent /\ t.q.readyState = 4
        /\ t.q.loading = q.loading
    BY <1>2, <1>3, <1>9, <2>3 DEF Kept
  <2>5. s.q.faults = q.faults
    BY <1>2, <1>3
  <2>6. "Exception" \notin OutcomeEvents
    BY DEF OutcomeEvents
  <2>7. /\ "Loading" \in ToSet(t.q.calls) <=> "Loading" \in ToSet(q.calls)
        /\ "Complete" \in ToSet(t.q.calls) <=> ~ Halted(t.q)
        /\ ToSet(t.q.calls) \intersect OutcomeEvents # {} <=> ~ Broken(t.q)
    BY <1>6, <2>3, <2>4, <2>5, <2>6 DEF Seen, Broken, Halted
  <2>8. RequestOK(t.q)
    <3>1. Top(t.q.readyState) = 4
      BY <2>4 DEF Top
    <3>2. t.q.complete <=> ~ Broken(t.q)
      BY <2>3, <2>4, <2>5 DEF Broken
    <3>3. t.q.loading => "Loading" \notin ToSet(t.q.calls)
      BY <1>6, <2>4, <2>7
    <3> QED BY <1>1, <2>3, <2>4, <2>7, <3>1, <3>2, <3>3 DEF RequestOK, Told4
  <2>9. reported <=> Adds(t.q) = 0
    BY <1>1, <2>4, <2>5, UnreportedHalted DEF Adds, Counted, Halted
  <2>10. /\ t.count = activeRequestCount - (1 - Adds(t.q)) * Registrations("counter")
         /\ t.watched = watched - (1 - Adds(t.q)) * Registrations("page")
    <3>1. Adds(t.q) \in {0, 1}
      BY DEF Adds
    <3> HIDE DEF reported
    <3>2. CASE Adds(t.q) = 0
      BY <1>3, <2>3, <2>9, <3>2
    <3>3. CASE Adds(t.q) = 1
      BY <1>3, <2>3, <2>9, <3>3
    <3> QED BY <3>1, <3>2, <3>3
  <2>11. ASSUME q.faults = {} PROVE Completions(t.q.calls) # Completions(q.calls)
    <3>1. ~ Halted(t.q)
      BY <2>4, <2>11 DEF Halted
    <3>2. "Complete" \in ToSet(t.q.calls) /\ "Complete" \notin ToSet(q.calls)
      BY <1>6, <2>7, <3>1
    <3>3. /\ \E i \in DOMAIN t.q.calls : t.q.calls[i] = "Complete"
          /\ ~ \E i \in DOMAIN q.calls : q.calls[i] = "Complete"
      BY <3>2 DEF ToSet
    <3> QED BY <3>3 DEF Completions
  <2> QED BY <1>1, <1>7, <1>9, <2>4, <2>8, <2>10, <2>11
<1> HIDE DEF Changed
<1> QED BY <1>4, <1>8, <1>9

-----------------------------------------------------------------------------
(* All requests, and the counters *)

RequestsInv ==
    /\ requests \in [Requests -> MadeRequest \union {NotMade}]
    /\ \A r \in Made : RequestOK(requests[r])

CountedRequests == {r \in Made : Counted(requests[r])}

CountersInv ==
    /\ responders \in {<<"counter">>, <<"counter", "page">>}
    /\ activeRequestCount \in Int /\ watched \in Int /\ countBefore \in Int
    /\ activeRequestCount = Cardinality(CountedRequests)
    /\ RespondersAgree

\* No responder is registered twice.
LEMMA RegistrationsKnown ==
    ASSUME responders \in {<<"counter">>, <<"counter", "page">>}
    PROVE  /\ Registrations("counter") = 1
           /\ Registrations("page") = IF Include(responders, "page") THEN 1 ELSE 0
<1>1. CASE responders = <<"counter">>
  <2>1. {i \in DOMAIN responders : responders[i] = "counter"} = {1}
    BY <1>1
  <2>2. {i \in DOMAIN responders : responders[i] = "page"} = {}
    BY <1>1
  <2> QED BY <1>1, <2>1, <2>2, IncludePage, FS_Singleton, FS_EmptySet DEF Registrations
<1>2. CASE responders = <<"counter", "page">>
  <2>1. {i \in DOMAIN responders : responders[i] = "counter"} = {1}
    BY <1>2
  <2>2. {i \in DOMAIN responders : responders[i] = "page"} = {2}
    BY <1>2
  <2> QED BY <1>2, <2>1, <2>2, IncludePage, FS_Singleton DEF Registrations
<1> QED BY <1>1, <1>2

\* There are finitely many requests to count.
LEMMA CountedFinite ==
    IsFiniteSet(CountedRequests) /\ Cardinality(CountedRequests) \in Nat
<1>1. CountedRequests \subseteq Requests
  BY DEF CountedRequests, Made
<1> QED BY <1>1, RequestsAssumption, FS_Subset, FS_CardinalityType

\* One request changes: the number of counted ones does as this one's does.
LEMMA Recounted ==
    ASSUME RequestsInv, NEW r \in Requests, NEW p, RequestOK(p),
           requests' = [requests EXCEPT ![r] = p]
    PROVE  /\ RequestsInv'
           /\ Made' = Made \union {r}
           /\ requests'[r] = p /\ \A x \in Requests : x # r => requests'[x] = requests[x]
           /\ Cardinality(CountedRequests)' =
                Cardinality(CountedRequests)
                  + Adds(p) - (IF r \in Made THEN Adds(requests[r]) ELSE 0)
<1>1. requests'[r] = p /\ \A x \in Requests : x # r => requests'[x] = requests[x]
  BY DEF RequestsInv
<1>2. p \in MadeRequest /\ p.made
  BY DEF RequestOK, MadeRequest
<1>3. Made' = Made \union {r}
  BY <1>1, <1>2 DEF Made
<1>4. RequestsInv'
  <2>1. requests' \in [Requests -> MadeRequest \union {NotMade}]
    BY <1>2 DEF RequestsInv
  <2>2. \A x \in Made' : RequestOK(requests'[x])
    BY <1>1, <1>3 DEF RequestsInv, Made
  <2> QED BY <2>1, <2>2 DEF RequestsInv
<1>5. \A x \in Requests : x # r => (x \in CountedRequests' <=> x \in CountedRequests)
  BY <1>1, <1>3 DEF CountedRequests
<1>6. r \in CountedRequests' <=> Counted(p)
  BY <1>1, <1>3 DEF CountedRequests
<1>7. r \in CountedRequests <=> r \in Made /\ Counted(requests[r])
  BY DEF CountedRequests
<1> DEFINE C == CountedRequests
           D == CountedRequests'
<1>8. C \subseteq Requests /\ D \subseteq Requests
  BY DEF CountedRequests, Made
<1>9. IsFiniteSet(C) /\ Cardinality(C) \in Nat
  BY CountedFinite
<1>10. Cardinality(D) = Cardinality(C) + (IF r \in D THEN 1 ELSE 0) - (IF r \in C THEN 1 ELSE 0)
  <2> HIDE DEF C, D
  <2>1. CASE (r \in C) = (r \in D)
    <3>1. C = D
      BY <1>5, <1>8, <2>1 DEF C, D
    <3> QED BY <1>9, <3>1
  <2>2. CASE r \in C /\ r \notin D
    <3>1. D = C \ {r}
      BY <1>5, <1>8, <2>2 DEF C, D
    <3>2. Cardinality(C \ {r}) = Cardinality(C) - 1
      BY <1>9, <2>2, FS_RemoveElement
    <3> QED BY <1>9, <2>2, <3>1, <3>2
  <2>3. CASE r \notin C /\ r \in D
    <3>1. D = C \union {r}
      BY <1>5, <1>8, <2>3 DEF C, D
    <3>2. Cardinality(C \union {r}) = Cardinality(C) + 1
      BY <1>9, <2>3, FS_AddElement
    <3> QED BY <1>9, <2>3, <3>1, <3>2
  <2> QED BY <2>1, <2>2, <2>3
<1>11. (IF r \in D THEN 1 ELSE 0) = Adds(p)
  BY <1>6 DEF Adds
<1>12. (IF r \in C THEN 1 ELSE 0) = IF r \in Made THEN Adds(requests[r]) ELSE 0
  BY <1>7 DEF Adds
<1>13. Cardinality(CountedRequests)' = Cardinality(D)
  OBVIOUS
<1> HIDE DEF C, D
<1>14. Cardinality(D) =
         Cardinality(C) + Adds(p) - (IF r \in Made THEN Adds(requests[r]) ELSE 0)
  BY <1>10, <1>11, <1>12
<1> QED BY <1>1, <1>3, <1>4, <1>13, <1>14 DEF C

\* The responders are told of what is counted.
LEMMA CountersFollow ==
    ASSUME CountersInv, NEW k \in Int,
           activeRequestCount' = activeRequestCount + k * Registrations("counter"),
           watched' = watched + k * Registrations("page"),
           Cardinality(CountedRequests)' = Cardinality(CountedRequests) + k,
           responders' = responders, countBefore' = countBefore
    PROVE  CountersInv'
<1>1. k * 1 = k /\ k * 0 = 0
  OBVIOUS
<1>2. /\ responders \in {<<"counter">>, <<"counter", "page">>}
      /\ activeRequestCount \in Int /\ watched \in Int /\ countBefore \in Int
      /\ activeRequestCount = Cardinality(CountedRequests)
      /\ Include(responders, "page") => watched = activeRequestCount - countBefore
  BY DEF CountersInv, RespondersAgree
<1>3. activeRequestCount' = activeRequestCount + k
  BY <1>1, <1>2, RegistrationsKnown
<1>4. watched' = IF Include(responders, "page") THEN watched + k ELSE watched
  BY <1>1, <1>2, RegistrationsKnown
<1>5. Include(responders', "page") = Include(responders, "page")
  OBVIOUS
<1>6. Include(responders', "page") => watched' = activeRequestCount' - countBefore'
  BY <1>2, <1>3, <1>4, <1>5
<1> QED BY <1>2, <1>3, <1>4, <1>6 DEF CountersInv, RespondersAgree

\* A request is made: the counters follow, and no other request changes.
LEMMA RequestStep ==
    ASSUME RequestsInv, CountersInv, NEW r \in Requests, Request(r)
    PROVE  /\ RequestsInv' /\ CountersInv'
           /\ r \notin Made /\ Made' = Made \union {r}
           /\ \A x \in Requests : x # r => requests'[x] = requests[x]
           /\ LET q == requests'[r]
              IN  q.readyState < 4 /\ (q.sent <=> q.faults \intersect {"create", "open", "send"} = {})
<1>1. PICK kind \in Kinds :
         LET created   == Call(Running(NewRequest(kind)), "Create", "create")
             counted   == Then(created, LAMBDA s : Dispatch(s, 1))
             opened(s) == IF "open" \in kind.faults THEN [s EXCEPT !.thrown = TRUE]
                          ELSE [s EXCEPT !.q.readyState = 1, !.q.loading = TRUE, !.q.listening = TRUE]
             sent(s)   == IF "send" \in kind.faults THEN [s EXCEPT !.thrown = TRUE]
                          ELSE [s EXCEPT !.q.sent = TRUE]
         IN  Ran(r, Caught(Then(Then(counted, opened), sent)))
  BY DEF Request
<1> DEFINE created   == Call(Running(NewRequest(kind)), "Create", "create")
           counted   == Then(created, LAMBDA s : Dispatch(s, 1))
           opened(s) == IF "open" \in kind.faults THEN [s EXCEPT !.thrown = TRUE]
                        ELSE [s EXCEPT !.q.readyState = 1, !.q.loading = TRUE, !.q.listening = TRUE]
           sent(s)   == IF "send" \in kind.faults THEN [s EXCEPT !.thrown = TRUE]
                        ELSE [s EXCEPT !.q.sent = TRUE]
           t         == Caught(Then(Then(counted, opened), sent))
<1>2. Ran(r, t)
  BY <1>1
<1>3. /\ activeRequestCount \in Int /\ watched \in Int
      /\ Registrations("counter") \in Int /\ Registrations("page") \in Int
  BY RegistrationsKnown DEF CountersInv
<1>4. /\ RequestOK(t.q) /\ t.q.faults = kind.faults /\ t.q.readyState < 4
      /\ t.q.sent <=> kind.faults \intersect {"create", "open", "send"} = {}
      /\ t.count = activeRequestCount + Adds(t.q) * Registrations("counter")
      /\ t.watched = watched + Adds(t.q) * Registrations("page")
  BY <1>3, Requested
<1> HIDE DEF t
<1>5. r \notin Made
  BY DEF Request, Made
<1>6. requests' = [requests EXCEPT ![r] = t.q] /\ activeRequestCount' = t.count /\ watched' = t.watched
  BY <1>2 DEF Ran
<1>7. /\ RequestsInv' /\ Made' = Made \union {r} /\ requests'[r] = t.q
      /\ \A x \in Requests : x # r => requests'[x] = requests[x]
      /\ Cardinality(CountedRequests)' = Cardinality(CountedRequests) + Adds(t.q) - 0
  BY <1>4, <1>5, <1>6, Recounted
<1>8. Adds(t.q) \in Int /\ Cardinality(CountedRequests) \in Int
  BY CountedFinite DEF Adds
<1>9. CountersInv'
  <2>1. Cardinality(CountedRequests)' = Cardinality(CountedRequests) + Adds(t.q)
    BY <1>7, <1>8
  <2>2. responders' = responders /\ countBefore' = countBefore
    BY DEF Request
  <2> QED BY <1>4, <1>6, <1>8, <2>1, <2>2, CountersFollow
<1> QED BY <1>4, <1>5, <1>7, <1>9

\* What was put off of a request is told: the counters follow.
LEMMA LoadingStep ==
    ASSUME RequestsInv, CountersInv, NEW r \in Requests, Loading(r)
    PROVE  /\ RequestsInv' /\ CountersInv' /\ Made' = Made
           /\ \A x \in Requests : x # r => requests'[x] = requests[x]
           /\ requests'[r].faults = requests[r].faults
           /\ UnderWay(r)' = UnderWay(r)
           /\ ~ Completed(r)
<1> DEFINE q == requests[r]
           t == Respond(Running([q EXCEPT !.loading = FALSE]), 1)
<1>1. r \in Made /\ RequestOK(q) /\ q.loading
  BY DEF Loading, Made, RequestsInv
<1>2. /\ activeRequestCount \in Int /\ watched \in Int
      /\ Registrations("counter") \in Int /\ Registrations("page") \in Int
  BY RegistrationsKnown DEF CountersInv
<1>3. /\ requests' = [requests EXCEPT ![r] = t.q]
      /\ activeRequestCount' = t.count /\ watched' = t.watched
      /\ responders' = responders /\ countBefore' = countBefore
  BY DEF Loading, Ran
<1> HIDE DEF q
<1>4. /\ RequestOK(t.q) /\ t.q.faults = q.faults
      /\ t.q.sent = q.sent /\ t.q.readyState = q.readyState
      /\ t.count = activeRequestCount /\ t.watched = watched
      /\ Completions(t.q.calls) = Completions(q.calls)
  BY <1>1, <1>2, LoadingDoes
<1> HIDE DEF t
<1>5. Adds(t.q) = Adds(q)
  BY <1>4 DEF Adds, Counted, Unreported
<1>6. /\ RequestsInv' /\ Made' = Made \union {r} /\ requests'[r] = t.q
      /\ \A x \in Requests : x # r => requests'[x] = requests[x]
      /\ Cardinality(CountedRequests)' = Cardinality(CountedRequests) + Adds(t.q) - Adds(q)
  BY <1>1, <1>3, <1>4, Recounted DEF q
<1>7. Adds(q) \in Int /\ Cardinality(CountedRequests) \in Int
  BY CountedFinite DEF Adds
<1>8. CountersInv'
  <2>1. Cardinality(CountedRequests)' = Cardinality(CountedRequests) + 0
    BY <1>5, <1>6, <1>7
  <2>2. activeRequestCount' = activeRequestCount + 0 * Registrations("counter")
        /\ watched' = watched + 0 * Registrations("page")
    BY <1>2, <1>3, <1>4
  <2> QED BY <1>3, <2>1, <2>2, CountersFollow
<1>9. UnderWay(r)' = UnderWay(r)
  BY <1>4, <1>6 DEF UnderWay, q
<1>10. ~ Completed(r)
  BY <1>4, <1>6 DEF Completed, Completions, Occurrences, q
<1> QED BY <1>1, <1>4, <1>6, <1>8, <1>9, <1>10 DEF q

\* The state of a request's transport changes: the counters follow.
LEMMA ChangeStep ==
    ASSUME RequestsInv, CountersInv, NEW r \in Requests, ReadyStateChange(r)
    PROVE  /\ RequestsInv' /\ CountersInv' /\ Made' = Made
           /\ \A x \in Requests : x # r => requests'[x] = requests[x]
           /\ requests'[r].faults = requests[r].faults
           /\ UnderWay(r)
           /\ Completed(r) => ~ UnderWay(r)'
           /\ requests[r].faults = {} /\ ~ Completed(r) => UnderWay(r)'
<1> DEFINE q == requests[r]
<1>1. r \in Made /\ RequestOK(q) /\ q.sent
  BY DEF ReadyStateChange, Made, RequestsInv
<1>2. /\ activeRequestCount \in Int /\ watched \in Int
      /\ Registrations("counter") \in Int /\ Registrations("page") \in Int
  BY RegistrationsKnown DEF CountersInv
<1>3. responders' = responders /\ countBefore' = countBefore
  BY DEF ReadyStateChange
<1>4. PICK n \in 2..4, status \in Statuses :
        LET p == [q EXCEPT !.readyState = n, !.status = IF n = 4 THEN status ELSE 0]
        IN  /\ \/ n = q.readyState + 1
               \/ n = 3 /\ q.readyState = 3
               \/ n = 4 /\ q.readyState \in {1, 2}
            /\ Ran(r, IF p.listening THEN OnStateChange(Running(p)) ELSE Running(p))
  BY DEF ReadyStateChange
<1> DEFINE st == IF n = 4 THEN status ELSE 0
           p == [q EXCEPT !.readyState = n, !.status = st]
           t == IF p.listening THEN OnStateChange(Running(p)) ELSE Running(p)
<1>5. st \in Nat
  BY StatusesAssumption
<1>6. Ran(r, t)
  BY <1>4
<1> HIDE DEF q, st
<1>7. /\ RequestOK(t.q) /\ t.q.faults = q.faults
      /\ t.q.sent = q.sent /\ t.q.readyState = n
      /\ q.readyState < 4 /\ Adds(q) = 1
      /\ t.count = activeRequestCount - (1 - Adds(t.q)) * Registrations("counter")
      /\ t.watched = watched - (1 - Adds(t.q)) * Registrations("page")
      /\ n < 4 => Completions(t.q.calls) = Completions(q.calls)
      /\ n = 4 /\ q.faults = {} => Completions(t.q.calls) # Completions(q.calls)
  BY <1>1, <1>2, <1>4, <1>5, ChangeDoes
<1> HIDE DEF t
<1>8. requests' = [requests EXCEPT ![r] = t.q] /\ activeRequestCount' = t.count /\ watched' = t.watched
  BY <1>6 DEF Ran
<1>9. /\ RequestsInv' /\ Made' = Made \union {r} /\ requests'[r] = t.q
      /\ \A x \in Requests : x # r => requests'[x] = requests[x]
      /\ Cardinality(CountedRequests)' = Cardinality(CountedRequests) + Adds(t.q) - Adds(q)
  BY <1>1, <1>7, <1>8, Recounted DEF q
<1> DEFINE k == Adds(t.q) - 1
<1>10. Adds(t.q) \in {0, 1} /\ k \in {-1, 0} /\ Cardinality(CountedRequests) \in Int
  BY CountedFinite DEF Adds
<1>11. /\ t.count = activeRequestCount + k * Registrations("counter")
       /\ t.watched = watched + k * Registrations("page")
  <2>1. CASE Adds(t.q) = 0
    BY <1>2, <1>7, <2>1
  <2>2. CASE Adds(t.q) = 1
    BY <1>2, <1>7, <2>2
  <2> QED BY <1>10, <2>1, <2>2
<1>12. CountersInv'
  <2>1. Cardinality(CountedRequests)' = Cardinality(CountedRequests) + k
    BY <1>7, <1>9, <1>10
  <2> QED BY <1>3, <1>8, <1>10, <1>11, <2>1, CountersFollow
<1>13. UnderWay(r) /\ (UnderWay(r)' <=> n < 4)
  BY <1>1, <1>7, <1>9 DEF UnderWay, q
<1>14. Completed(r) <=> /\ Completions(t.q.calls) # Completions(q.calls)
                        /\ "complete" \notin q.faults
  BY <1>9 DEF Completed, Completions, Occurrences, q
<1>15. /\ Completed(r) => ~ UnderWay(r)'
       /\ q.faults = {} /\ ~ Completed(r) => UnderWay(r)'
  BY <1>7, <1>13, <1>14
<1> QED BY <1>1, <1>7, <1>9, <1>12, <1>13, <1>15 DEF q

\* An updater that is stopped takes its request's onComplete away.
LEMMA StopStep ==
    ASSUME RequestsInv, CountersInv, updater \in Made, Stop
    PROVE  /\ RequestsInv' /\ CountersInv' /\ Made' = Made
           /\ \A x \in Requests : x # updater => requests'[x] = requests[x]
           /\ UnderWay(updater)' = UnderWay(updater)
<1> DEFINE q == requests[updater]
           p == [q EXCEPT !.faults = @ \ {"complete"}]
<1>1. updater \in Requests /\ RequestOK(q)
  BY DEF Made, RequestsInv
<1>2. /\ activeRequestCount' = activeRequestCount /\ watched' = watched
      /\ responders' = responders /\ countBefore' = countBefore /\ updater' = updater
  BY DEF Stop
<1>3. CASE q.complete
  <2>1. requests' = requests
    BY <1>3 DEF Stop
  <2>2. RequestsInv' /\ Made' = Made /\ CountedRequests' = CountedRequests
    BY <2>1 DEF RequestsInv, Made, CountedRequests
  <2>3. CountersInv'
    BY <1>2, <2>2 DEF CountersInv, RespondersAgree
  <2> QED BY <1>2, <2>1, <2>2, <2>3 DEF UnderWay
<1>4. CASE ~ q.complete
  <2>1. requests' = [requests EXCEPT ![updater] = p]
    BY <1>4 DEF Stop
  <2> HIDE DEF q
  <2>2. /\ p \in MadeRequest /\ p.calls = q.calls /\ p.readyState = q.readyState
        /\ p.sent = q.sent /\ p.loading = q.loading /\ p.listening = q.listening
        /\ p.complete = q.complete /\ p.faults = q.faults \ {"complete"}
    BY <1>1 DEF RequestOK, MadeRequest
  <2> HIDE DEF p
  <2>3. RequestOK(p)
    <3>1. Broken(p) = Broken(q) /\ Halted(p) = Halted(q) /\ Told4(p) = Told4(q)
      BY <2>2 DEF Broken, Halted, Told4
    <3> QED BY <1>1, <2>2, <3>1 DEF RequestOK
  <2>4. Adds(p) = Adds(q)
    <3>1. q.readyState < 4 \/ Broken(q)
      BY <1>1, <1>4 DEF RequestOK, MadeRequest
    <3>2. q.readyState = 4 \/ q.readyState < 4
      BY <1>1 DEF RequestOK, MadeRequest
    <3>3. Broken(q) => Unreported(q) /\ Unreported(p)
      BY <2>2 DEF Broken, Unreported
    <3> QED BY <2>2, <3>1, <3>2, <3>3 DEF Adds, Counted
  <2>5. /\ RequestsInv' /\ Made' = Made \union {updater} /\ requests'[updater] = p
        /\ \A x \in Requests : x # updater => requests'[x] = requests[x]
        /\ Cardinality(CountedRequests)' = Cardinality(CountedRequests) + Adds(p) - Adds(q)
    BY <1>1, <2>1, <2>3, Recounted DEF q
  <2>6. Adds(q) \in Int /\ Cardinality(CountedRequests) \in Int
    BY CountedFinite DEF Adds
  <2>7. Cardinality(CountedRequests)' = Cardinality(CountedRequests)
    BY <2>4, <2>5, <2>6
  <2>8. CountersInv'
    BY <1>2, <2>7 DEF CountersInv, RespondersAgree
  <2>9. UnderWay(updater)' = UnderWay(updater)
    BY <1>2, <2>2, <2>5 DEF UnderWay, q
  <2> QED BY <2>5, <2>8, <2>9
<1> QED BY <1>3, <1>4

\* An element appended to a sequence.
LEMMA AppendedTo ==
    ASSUME NEW S, NEW s \in Seq(S), NEW w \in S
    PROVE  /\ Append(s, w) \in Seq(S) /\ Len(Append(s, w)) = Len(s) + 1
           /\ \A i \in 1..Len(s) : Append(s, w)[i] = s[i]
           /\ Append(s, w)[Len(s) + 1] = w
  OBVIOUS

\* An element appended to a sequence of one.
LEMMA AppendedOne ==
    ASSUME NEW v, NEW w
    PROVE  Append(<<v>>, w) = <<v, w>>
<1> DEFINE s == <<v>>
           S == {v, w}
           a == Append(s, w)
<1>1. s \in Seq(S) /\ w \in S /\ Len(s) = 1 /\ s[1] = v
  OBVIOUS
<1> HIDE DEF s, S
<1>2. /\ a \in Seq(S) /\ Len(a) = Len(s) + 1
      /\ \A i \in 1..Len(s) : a[i] = s[i]
      /\ a[Len(s) + 1] = w
  BY <1>1, AppendedTo
<1> HIDE DEF a
<1>3. Len(a) = 2 /\ a[1] = v /\ a[2] = w
  BY <1>1, <1>2
<1>4. a \in [1..2 -> S]
  <2>1. a \in Seq(S) /\ Len(a) = 2
    BY <1>2, <1>3
  <2>2. a \in [1..Len(a) -> S]
    BY <2>1
  <2> QED BY <2>1, <2>2
<1>5. a = <<v, w>>
  <2> DEFINE b == <<v, w>>
  <2>1. b \in [1..2 -> S] /\ b[1] = v /\ b[2] = w
    BY DEF S
  <2> HIDE DEF b
  <2>2. \A i \in 1..2 : i = 1 \/ i = 2
    OBVIOUS
  <2>3. \A i \in 1..2 : a[i] = b[i]
    BY <1>3, <2>1, <2>2
  <2>4. a = b
    BY <1>4, <2>1, <2>3
  <2> QED BY <2>4 DEF b
<1> QED BY <1>5 DEF a, s

\* The page's responder is registered or unregistered: what it counts from is remembered.
LEMMA ResponderStep ==
    ASSUME RequestsInv, CountersInv, Register \/ Unregister
    PROVE  RequestsInv' /\ CountersInv' /\ requests' = requests
<1>1. requests' = requests /\ activeRequestCount' = activeRequestCount
  BY DEF Register, Unregister
<1>2. RequestsInv' /\ CountedRequests' = CountedRequests
  BY <1>1 DEF RequestsInv, Made, CountedRequests
<1>3. CASE Register
  <2>1. CASE Include(responders, "page")
    <3>1. responders' = responders /\ watched' = watched /\ countBefore' = countBefore
      BY <1>3, <2>1 DEF Register, Registered
    <3> QED BY <1>1, <1>2, <3>1 DEF CountersInv, RespondersAgree
  <2>2. CASE ~ Include(responders, "page")
    <3>1. /\ responders' = Append(responders, "page")
          /\ watched' = 0 /\ countBefore' = activeRequestCount
      BY <1>3, <2>2 DEF Register, Registered
    <3>2. responders = <<"counter">>
      BY <2>2, IncludePage DEF CountersInv
    <3>3. Append(<<"counter">>, "page") = <<"counter", "page">>
      BY AppendedOne
    <3>4. activeRequestCount \in Int /\ activeRequestCount - activeRequestCount = 0
      BY DEF CountersInv
    <3>5. watched' = activeRequestCount' - countBefore'
      BY <1>1, <3>1, <3>4
    <3> QED BY <1>1, <1>2, <3>1, <3>2, <3>3, <3>4, <3>5 DEF CountersInv, RespondersAgree
  <2> QED BY <2>1, <2>2
<1>4. CASE Unregister
  <2>1. responders' = <<"counter">>
    BY <1>4, WithoutPage DEF Unregister, CountersInv
  <2>2. watched' = watched /\ countBefore' = countBefore
    BY <1>4 DEF Unregister
  <2> QED BY <1>1, <1>2, <2>1, <2>2, IncludePage DEF CountersInv, RespondersAgree
<1> QED BY <1>1, <1>2, <1>3, <1>4

-----------------------------------------------------------------------------
(* The updater *)

UnderWays == {r \in updaters : UnderWay(r)}

\* At most one timer is to come or one request of the updater is under way.
UpdaterInv ==
    /\ updaters \subseteq Made
    /\ updater = Null \/ updater \in Made
    /\ running \in BOOLEAN /\ inside \in BOOLEAN
    /\ ~ inside =>
          /\ timers \subseteq {timer}
          /\ UnderWays \subseteq {updater}
          /\ timers = {} \/ UnderWays = {}
          /\ ~ running => timers = {} /\ UnderWays = {}
          /\ running /\ (\A r \in updaters : requests[r].faults = {}) =>
                timers # {} \/ UnderWays # {}

AjaxInv == RequestsInv /\ CountersInv /\ UpdaterInv

\* The updater makes a request when it has no other under way, and no timer is left.
LEMMA OnTimerEventStep ==
    ASSUME AjaxInv, NEW r \in Requests, OnTimerEvent(r),
           ~ inside => UnderWays = {} /\ timers' = {},
           inside' = inside, running'
    PROVE  UpdaterInv'
<1>1. Request(r)
  BY DEF OnTimerEvent
<1> DEFINE q == requests'[r]
<1>2. /\ r \notin Made /\ Made' = Made \union {r}
      /\ \A x \in Requests : x # r => requests'[x] = requests[x]
      /\ q.readyState < 4 /\ (q.sent <=> q.faults \intersect {"create", "open", "send"} = {})
  BY <1>1, RequestStep DEF AjaxInv
<1>3. updaters' = updaters \union {r}
  BY DEF OnTimerEvent
<1>4. updater' = IF "exception" \in q.faults /\ q.faults \intersect {"create", "open", "send"} # {}
                 THEN updater ELSE r
  BY DEF OnTimerEvent
<1>5. updaters \subseteq Requests
  BY DEF AjaxInv, UpdaterInv, Made
<1> HIDE DEF q
<1>6. UnderWay(r)' <=> q.faults \intersect {"create", "open", "send"} = {}
  BY <1>2 DEF UnderWay, q
<1>7. \A x \in updaters : x # r /\ (UnderWay(x)' <=> UnderWay(x))
  BY <1>2, <1>5 DEF UnderWay, AjaxInv, UpdaterInv
<1>8. UnderWays' = {x \in updaters' : UnderWay(x)'}
  BY DEF UnderWays
<1>9. ASSUME ~ inside PROVE UnderWays' = IF UnderWay(r)' THEN {r} ELSE {}
  <2>1. \A x \in updaters : ~ UnderWay(x)
    BY <1>9 DEF UnderWays
  <2> QED BY <1>3, <1>7, <1>8, <2>1
<1>10. /\ updaters' \subseteq Made' /\ (updater' = Null \/ updater' \in Made')
       /\ running' \in BOOLEAN /\ inside' \in BOOLEAN
  BY <1>2, <1>3, <1>4 DEF AjaxInv, UpdaterInv
<1>11. ASSUME ~ inside
       PROVE  /\ timers' = {} /\ UnderWays' \subseteq {updater'}
              /\ (\A x \in updaters' : requests'[x].faults = {}) => UnderWays' # {}
  <2>1. UnderWay(r)' => updater' = r
    BY <1>4, <1>6
  <2>2. q.faults = {} => UnderWay(r)'
    BY <1>6
  <2> QED BY <1>3, <1>9, <1>11, <2>1, <2>2 DEF q
<1> HIDE DEF UpdaterInv
<1> QED BY <1>10, <1>11 DEF UpdaterInv

\* Nothing of the updater's changes.
LEMMA UpdatingKept ==
    ASSUME UpdaterInv, RequestsInv, UNCHANGED updating, Made \subseteq Made',
           \A x \in updaters : /\ requests'[x].faults = requests[x].faults
                               /\ UnderWay(x)' = UnderWay(x)
    PROVE  UpdaterInv'
<1>1. /\ running' = running /\ timers' = timers /\ timer' = timer
      /\ updater' = updater /\ updaters' = updaters /\ inside' = inside
  BY DEF updating
<1>2. UnderWays' = UnderWays
  BY <1>1 DEF UnderWays
<1> QED BY <1>1, <1>2 DEF UpdaterInv

LEMMA UpdateCompleteStep ==
    ASSUME AjaxInv, NEW r \in Requests, UpdateComplete(r)
    PROVE  AjaxInv'
<1>1. /\ running' = running /\ updater' = updater /\ updaters' = updaters /\ inside' = inside
      /\ IF r \in updaters /\ Completed(r) THEN timers' = timers \union {r} /\ timer' = r
         ELSE UNCHANGED <<timers, timer>>
  BY DEF UpdateComplete
<1>2. CASE Loading(r)
  <2>1. /\ RequestsInv' /\ CountersInv' /\ Made' = Made
        /\ \A x \in Requests : x # r => requests'[x] = requests[x]
        /\ requests'[r].faults = requests[r].faults
        /\ UnderWay(r)' = UnderWay(r)
        /\ ~ Completed(r)
    BY <1>2, LoadingStep DEF AjaxInv
  <2>2. UNCHANGED updating
    BY <1>1, <2>1 DEF updating
  <2>3. \A x \in updaters : /\ requests'[x].faults = requests[x].faults
                            /\ UnderWay(x)' = UnderWay(x)
    BY <2>1 DEF UnderWay, AjaxInv, UpdaterInv, Made
  <2>4. UpdaterInv'
    BY <2>1, <2>2, <2>3, UpdatingKept DEF AjaxInv
  <2> QED BY <2>1, <2>4 DEF AjaxInv
<1>3. CASE ReadyStateChange(r)
  <2>1. /\ RequestsInv' /\ CountersInv' /\ Made' = Made
        /\ \A x \in Requests : x # r => requests'[x] = requests[x]
        /\ requests'[r].faults = requests[r].faults
        /\ UnderWay(r)
        /\ Completed(r) => ~ UnderWay(r)'
        /\ requests[r].faults = {} /\ ~ Completed(r) => UnderWay(r)'
    BY <1>3, ChangeStep DEF AjaxInv
  <2>2. \A x \in updaters : x # r => UnderWay(x)' = UnderWay(x)
    BY <2>1 DEF UnderWay, AjaxInv, UpdaterInv, Made
  <2>3. \A x \in updaters : requests'[x].faults = requests[x].faults
    BY <2>1 DEF AjaxInv, UpdaterInv, Made
  <2>4. CASE r \notin updaters
    <3>1. UNCHANGED updating
      BY <1>1, <2>4 DEF updating
    <3>2. UpdaterInv'
      BY <2>1, <2>2, <2>3, <2>4, <3>1, UpdatingKept DEF AjaxInv
    <3> QED BY <2>1, <3>2 DEF AjaxInv
  <2>5. CASE r \in updaters
    <3>1. UnderWays' = IF UnderWay(r)' THEN UnderWays ELSE UnderWays \ {r}
      BY <1>1, <2>1, <2>2, <2>5 DEF UnderWays
    <3>2. r \in UnderWays
      BY <2>1, <2>5 DEF UnderWays
    <3>3. /\ updaters' \subseteq Made' /\ (updater' = Null \/ updater' \in Made')
          /\ running' \in BOOLEAN /\ inside' \in BOOLEAN
      BY <1>1, <2>1 DEF AjaxInv, UpdaterInv
    <3>4. ASSUME ~ inside
          PROVE  /\ timers' \subseteq {timer'}
                 /\ UnderWays' \subseteq {updater'}
                 /\ timers' = {} \/ UnderWays' = {}
                 /\ running'
                 /\ (\A x \in updaters' : requests'[x].faults = {}) =>
                       timers' # {} \/ UnderWays' # {}
      <4>1. running /\ timers = {} /\ UnderWays = {r} /\ updater = r
        BY <3>2, <3>4 DEF AjaxInv, UpdaterInv
      <4>2. CASE Completed(r)
        <5>1. timers' = {r} /\ timer' = r
          BY <1>1, <2>5, <4>1, <4>2
        <5>2. UnderWays' = {}
          BY <2>1, <3>1, <4>1, <4>2
        <5> QED BY <1>1, <4>1, <5>1, <5>2
      <4>3. CASE ~ Completed(r)
        <5>1. timers' = {}
          BY <1>1, <4>1, <4>3
        <5>2. UnderWays' \subseteq {r} /\ (requests[r].faults = {} => UnderWays' # {})
          BY <2>1, <3>1, <4>1, <4>3
        <5> QED BY <1>1, <2>3, <2>5, <4>1, <5>1, <5>2
      <4> QED BY <4>2, <4>3
    <3>5. UpdaterInv'
      BY <1>1, <3>3, <3>4 DEF UpdaterInv
    <3> QED BY <2>1, <3>5 DEF AjaxInv
  <2> QED BY <2>4, <2>5
<1> QED BY <1>2, <1>3 DEF UpdateComplete

\* The invariant holds before any request is made.
LEMMA InitAjaxInv == ASSUME UpdaterInit PROVE AjaxInv
<1>1. Made = {} /\ CountedRequests = {}
  BY DEF UpdaterInit, AjaxInit, Made, CountedRequests, NotMade
<1>2. RequestsInv
  BY <1>1 DEF UpdaterInit, AjaxInit, RequestsInv
<1>3. CountersInv
  BY <1>1, IncludePage, FS_EmptySet DEF UpdaterInit, AjaxInit, CountersInv, RespondersAgree
<1>4. UpdaterInv
  BY DEF UpdaterInit, UpdaterInv, UnderWays
<1> QED BY <1>2, <1>3, <1>4 DEF AjaxInv

\* Every step keeps the invariant.
LEMMA NextAjaxInv ==
    ASSUME AjaxInv, [UpdaterNext]_<<ajaxVars, updating>>
    PROVE  AjaxInv'
<1>1. ASSUME NEW r \in Requests, Request(r), UNCHANGED updating PROVE AjaxInv'
  <2>1. /\ RequestsInv' /\ CountersInv' /\ r \notin Made /\ Made' = Made \union {r}
        /\ \A x \in Requests : x # r => requests'[x] = requests[x]
    BY <1>1, RequestStep DEF AjaxInv
  <2>2. \A x \in updaters : requests'[x] = requests[x]
    BY <2>1 DEF AjaxInv, UpdaterInv, Made
  <2>3. UpdaterInv'
    BY <1>1, <2>1, <2>2, UpdatingKept DEF AjaxInv, UnderWay
  <2> QED BY <2>1, <2>3 DEF AjaxInv
<1>2. ASSUME NEW r \in Requests, StartUpdater(r) PROVE AjaxInv'
  <2>1. Request(r) /\ OnTimerEvent(r)
    BY <1>2 DEF StartUpdater, OnTimerEvent
  <2>2. ~ inside => UnderWays = {} /\ timers' = {}
    BY <1>2 DEF StartUpdater, AjaxInv, UpdaterInv
  <2>3. UpdaterInv'
    BY <1>2, <2>1, <2>2, OnTimerEventStep DEF StartUpdater
  <2> QED BY <2>1, <2>3, RequestStep DEF AjaxInv
<1>3. ASSUME NEW r \in Requests, Timer(r) PROVE AjaxInv'
  <2>1. Request(r) /\ OnTimerEvent(r) /\ running' = running /\ inside' = inside
    BY <1>3 DEF Timer, OnTimerEvent
  <2>2. PICK set \in timers : timers' = timers \ {set}
    BY <1>3 DEF Timer
  <2>3. ~ inside => UnderWays = {} /\ timers' = {} /\ running
    BY <2>2 DEF AjaxInv, UpdaterInv
  <2>4. UpdaterInv'
    <3>1. CASE running
      BY <2>1, <2>3, <3>1, OnTimerEventStep
    <3>2. CASE ~ running
      <4>1. inside /\ inside'
        BY <2>1, <2>3, <3>2
      <4>2. /\ r \notin Made /\ Made' = Made \union {r}
        BY <2>1, RequestStep DEF AjaxInv
      <4>3. updaters' = updaters \union {r} /\ updater' \in {updater, r}
        BY <2>1 DEF OnTimerEvent
      <4> QED BY <2>1, <4>1, <4>2, <4>3 DEF AjaxInv, UpdaterInv
    <3> QED BY <3>1, <3>2
  <2> QED BY <2>1, <2>4, RequestStep DEF AjaxInv
<1>4. ASSUME NEW r \in Requests, StopInside(r) PROVE AjaxInv'
  <2>1. ReadyStateChange(r)
    BY <1>4 DEF StopInside
  <2>2. RequestsInv' /\ CountersInv' /\ Made' = Made
    BY <2>1, ChangeStep DEF AjaxInv
  <2>3. UpdaterInv'
    BY <1>4, <2>2 DEF StopInside, AjaxInv, UpdaterInv
  <2> QED BY <2>2, <2>3 DEF AjaxInv
<1>5. ASSUME Stop PROVE AjaxInv'
  <2>1. updater \in Made
    BY <1>5 DEF Stop, AjaxInv, UpdaterInv
  <2>2. /\ RequestsInv' /\ CountersInv' /\ Made' = Made
        /\ \A x \in Requests : x # updater => requests'[x] = requests[x]
        /\ UnderWay(updater)' = UnderWay(updater)
    BY <1>5, <2>1, StopStep DEF AjaxInv
  <2>3. /\ running' = FALSE /\ updaters' = updaters \ {updater}
        /\ timers' = timers \ {timer} /\ timer' = timer /\ updater' = updater /\ inside' = inside
    BY <1>5 DEF Stop
  <2>4. UnderWays' = UnderWays \ {updater}
    BY <2>2, <2>3 DEF UnderWays, UnderWay, AjaxInv, UpdaterInv, Made
  <2>5. UpdaterInv'
    BY <2>2, <2>3, <2>4 DEF AjaxInv, UpdaterInv
  <2> QED BY <2>2, <2>5 DEF AjaxInv
<1>6. ASSUME Register \/ Unregister, UNCHANGED updating PROVE AjaxInv'
  <2>1. RequestsInv' /\ CountersInv' /\ requests' = requests
    BY <1>6, ResponderStep DEF AjaxInv
  <2>2. Made' = Made
    BY <2>1 DEF Made
  <2>3. UpdaterInv'
    BY <1>6, <2>1, <2>2, UpdatingKept DEF AjaxInv, UnderWay
  <2> QED BY <2>1, <2>3 DEF AjaxInv
<1>7. CASE UNCHANGED <<ajaxVars, updating>>
  <2>1. RequestsInv' /\ CountersInv' /\ Made' = Made
    BY <1>7 DEF ajaxVars, AjaxInv, RequestsInv, CountersInv, RespondersAgree, CountedRequests, Made
  <2>2. UpdaterInv'
    BY <1>7, <2>1, UpdatingKept DEF ajaxVars, AjaxInv, UnderWay
  <2> QED BY <2>1, <2>2 DEF AjaxInv
<1> QED BY <1>1, <1>2, <1>3, <1>4, <1>5, <1>6, <1>7, UpdateCompleteStep DEF UpdaterNext

-----------------------------------------------------------------------------

\* The invariant is one of the page with its updater.
LEMMA AjaxInvHolds == UpdaterSpec => []AjaxInv
  BY InitAjaxInv, NextAjaxInv, PTL DEF UpdaterSpec

\* Ajax.activeRequestCount is the number of the requests that are under way and of those whose
\* completion an exception kept from the responders, for any number of requests and any faults.
THEOREM RequestsAreCounted == UpdaterSpec => []ActiveCount
<1>1. ASSUME AjaxInv PROVE ActiveCount
  BY <1>1 DEF AjaxInv, CountersInv, CountedRequests, Counted, ActiveCount
<1> QED BY <1>1, AjaxInvHolds, PTL

\* A responder of the page counts what Ajax's own one counts from when it was registered.
THEOREM RespondersAreTold == UpdaterSpec => []RespondersAgree
<1>1. ASSUME AjaxInv PROVE RespondersAgree
  BY <1>1 DEF AjaxInv, CountersInv
<1> QED BY <1>1, AjaxInvHolds, PTL

\* A PeriodicalUpdater never has both a timer and a request under way, nor two of either; one
\* that runs has one of them as long as none of its requests broke, a stopped one has none.
THEOREM UpdatersGoOn == UpdaterSpec => []UpdaterGoesOn
<1>1. ASSUME AjaxInv PROVE UpdaterGoesOn
  <2> SUFFICES ASSUME ~ inside
               PROVE  LET pending == Cardinality(timers) + Cardinality(UnderWays)
                      IN  /\ pending <= 1
                          /\ running /\ (\A r \in updaters : requests[r].faults = {}) => pending = 1
                          /\ ~ running => pending = 0
    BY DEF UpdaterGoesOn, UnderWays
  <2>1. /\ timers \in {{}, {timer}} /\ UnderWays \in {{}, {updater}}
        /\ timers = {} \/ UnderWays = {}
        /\ ~ running => timers = {} /\ UnderWays = {}
        /\ running /\ (\A r \in updaters : requests[r].faults = {}) =>
             timers # {} \/ UnderWays # {}
    BY <1>1 DEF AjaxInv, UpdaterInv
  <2>2. Cardinality({}) = 0 /\ Cardinality({timer}) = 1 /\ Cardinality({updater}) = 1
    BY FS_EmptySet, FS_Singleton
  <2> QED BY <2>1, <2>2
<1> QED BY <1>1, AjaxInvHolds, PTL

\* A set whose elements are all equal has one at most.
LEMMA AtMostOne ==
    ASSUME NEW S, \A x, y \in S : x = y
    PROVE  Cardinality(S) <= 1
<1>1. CASE S = {}
  BY <1>1, FS_EmptySet
<1>2. CASE S # {}
  <2>1. PICK x : S = {x}
    BY <1>2
  <2> QED BY <2>1, FS_Singleton
<1> QED BY <1>1, <1>2

\* A request's callbacks come in the order of its events, whatever throws and whenever what was
\* put off is told; its completion comes with its outcome, which only a broken answer leaves out.
THEOREM CallbacksComeInOrder == UpdaterSpec => []CallbacksInOrder
<1>1. ASSUME AjaxInv PROVE CallbacksInOrder
  <2> SUFFICES ASSUME NEW r \in Made
               PROVE
                 LET q == requests[r]
                     ranked == {i \in DOMAIN q.calls : q.calls[i] \notin {"Loading", "Exception"}}
                 IN  /\ \A i, j \in ranked : i < j =>
                          \/ Rank(q.calls[i]) < Rank(q.calls[j])
                          \/ q.calls[i] = "Interactive" /\ q.calls[j] = "Interactive"
                     /\ Cardinality(Occurrences(q, {"Loading"})) <= 1
                     /\ q.readyState = 4 =>
                          (Occurrences(q, OutcomeEvents) = {} <=> {"json", "exception"} \subseteq q.faults)
                     /\ Occurrences(q, {"Complete"}) # {} => Occurrences(q, OutcomeEvents) # {}
    BY DEF CallbacksInOrder
  <2> DEFINE q == requests[r]
  <2>1. RequestOK(q)
    BY <1>1 DEF AjaxInv, RequestsInv
  <2> HIDE DEF q
  <2>2. /\ EventsOrdered(q.calls, Top(q.readyState)) /\ LoadingOnce(q.calls) /\ q.readyState \in 0..4
    BY <2>1 DEF RequestOK, Story, MadeRequest
  <2>3. Cardinality(Occurrences(q, {"Loading"})) <= 1
    <3>1. \A x, y \in Occurrences(q, {"Loading"}) : x = y
      BY <2>2 DEF LoadingOnce, Occurrences
    <3> QED BY <3>1, AtMostOne
  <2>4. \A names : Occurrences(q, names) = {} <=> ToSet(q.calls) \intersect names = {}
    BY DEF Occurrences, ToSet
  <2>5. q.readyState = 4 =>
          (Occurrences(q, OutcomeEvents) = {} <=> {"json", "exception"} \subseteq q.faults)
    BY <2>1, <2>4 DEF RequestOK, Told4, Broken
  <2>6. Occurrences(q, {"Complete"}) # {} => Occurrences(q, OutcomeEvents) # {}
    <3> SUFFICES ASSUME "Complete" \in ToSet(q.calls) PROVE ToSet(q.calls) \intersect OutcomeEvents # {}
      BY <2>4
    <3>1. q.readyState = 4
      BY <2>1, <2>2 DEF RequestOK
    <3>2. ~ Broken(q)
      BY <2>1, <3>1 DEF RequestOK, Halted, Broken
    <3> QED BY <2>1, <3>1, <3>2 DEF RequestOK, Told4
  <2> QED BY <2>2, <2>3, <2>5, <2>6 DEF q, EventsOrdered, Unranked
<1> QED BY <1>1, AjaxInvHolds, PTL

-----------------------------------------------------------------------------
(* Hashes *)

\* The value of a key, and one pair for a key.
Holds(h, k, v) == \E i \in 1..Len(h) : h[i].key = k /\ h[i].value = v
Distinct(h) == \A i, j \in 1..Len(h) : h[i].key = h[j].key => i = j

PairsOf(K, V) == [key : K, value : V]
Hashes(K, V) == {h \in Seq(PairsOf(K, V)) : Distinct(h)}

\* set gives one key a value, and keeps those of the others.
LEMMA HashSetDoes ==
    ASSUME NEW K, NEW V, NEW h \in Seq(PairsOf(K, V)), Distinct(h), NEW k \in K, NEW v \in V
    PROVE  /\ HashSet(h, k, v) \in Seq(PairsOf(K, V))
           /\ Distinct(HashSet(h, k, v))
           /\ \A l, w : Holds(HashSet(h, k, v), l, w) <=> IF l = k THEN w = v ELSE Holds(h, l, w)
<1> DEFINE g == HashSet(h, k, v)
           pair == [key |-> k, value |-> v]
<1>0. pair \in PairsOf(K, V) /\ pair.key = k /\ pair.value = v
  BY DEF PairsOf
<1>1. DOMAIN h = 1..Len(h) /\ Len(h) \in Nat /\ \A i \in 1..Len(h) : h[i] \in PairsOf(K, V)
  OBVIOUS
<1>2. CASE \E i \in DOMAIN h : h[i].key = k
  <2>1. g = [i \in DOMAIN h |-> IF h[i].key = k THEN pair ELSE h[i]]
    BY <1>2 DEF HashSet
  <2>2. \A i \in 1..Len(h) : g[i] = IF h[i].key = k THEN pair ELSE h[i]
    BY <1>1, <2>1
  <2> HIDE DEF g, pair
  <2>3. g \in [1..Len(h) -> PairsOf(K, V)]
    BY <1>0, <1>1, <2>1
  <2>4. g \in Seq(PairsOf(K, V)) /\ Len(g) = Len(h)
    BY <1>1, <2>3
  <2>5. \A i \in 1..Len(h) : g[i].key = h[i].key
    BY <1>0, <2>2
  <2>6. Distinct(g)
    BY <2>4, <2>5 DEF Distinct
  <2>7. \A l, w : Holds(g, l, w) <=> IF l = k THEN w = v ELSE Holds(h, l, w)
    BY <1>0, <1>1, <1>2, <2>2, <2>4, <2>5 DEF Holds
  <2> QED BY <2>4, <2>6, <2>7 DEF g
<1>3. CASE ~ \E i \in DOMAIN h : h[i].key = k
  <2>1. g = Append(h, pair)
    BY <1>3 DEF HashSet
  <2> HIDE DEF g, pair
  <2>2. /\ g \in Seq(PairsOf(K, V)) /\ Len(g) = Len(h) + 1
        /\ \A i \in 1..Len(h) : g[i] = h[i]
        /\ g[Len(h) + 1] = pair
    BY <1>0, <1>1, <2>1
  <2>3. \A i \in 1..Len(g) : i \in 1..Len(h) \/ i = Len(h) + 1
    BY <1>1, <2>2
  <2>4. Distinct(g)
    BY <1>0, <1>1, <1>3, <2>2, <2>3 DEF Distinct
  <2>5. ASSUME NEW l, NEW w PROVE Holds(g, l, w) <=> IF l = k THEN w = v ELSE Holds(h, l, w)
    <3>1. Holds(g, l, w) <=> Holds(h, l, w) \/ (l = k /\ w = v)
      <4>1. Len(h) + 1 \in 1..Len(g) /\ \A i \in 1..Len(h) : i \in 1..Len(g)
        BY <1>1, <2>2
      <4> QED BY <1>0, <2>2, <2>3, <4>1 DEF Holds
    <3>2. ~ Holds(h, k, w)
      BY <1>1, <1>3 DEF Holds
    <3> QED BY <3>1, <3>2
  <2> QED BY <2>2, <2>4, <2>5 DEF g
<1> QED BY <1>2, <1>3

\* findAll keeps of a hash the pairs that pass the test.
LEMMA FindAllDoes ==
    ASSUME NEW K, NEW V, NEW s \in Seq(PairsOf(K, V)), Distinct(s), NEW test
    PROVE  /\ FindAll(test, s) \in Seq(PairsOf(K, V))
           /\ Distinct(FindAll(test, s))
           /\ \A x : (\E m \in 1..Len(FindAll(test, s)) : FindAll(test, s)[m] = x)
                       <=> (x \in test /\ \E j \in 1..Len(s) : s[j] = x)
<1> DEFINE S == PairsOf(K, V)
<1>1. PICK c \in [0..Len(s) -> Seq(S)] :
         /\ FindAll(test, s) = c[Len(s)]
         /\ c[0] = <<>>
         /\ \A i \in 1..Len(s) : c[i] = Pushed(c[i - 1], s[i], s[i] \in test)
  BY FindAllSteps
<1> HIDE DEF S
<1> DEFINE Filtered(r, n) ==
             /\ r \in Seq(S) /\ Distinct(r)
             /\ \A x : (\E m \in 1..Len(r) : r[m] = x)
                         <=> (x \in test /\ \E j \in 1..n : s[j] = x)
           N == Len(s)
           P == {n \in 0..N : Filtered(c[n], n)}
<1>2. N \in Nat
  OBVIOUS
<1>3. 0 \in P
  BY <1>1 DEF Distinct
<1>4. ASSUME NEW n \in 1..N, n - 1 \in P PROVE n \in P
  <2> DEFINE r == c[n - 1]
             q == c[n]
  <2>1. Filtered(r, n - 1) /\ n \in 0..N /\ n - 1 \in Nat
    BY <1>2, <1>4
  <2>2. q = Pushed(r, s[n], s[n] \in test)
    BY <1>1
  <2>3. s[n] \in S /\ \A j \in 1..n : j = n \/ j \in 1..(n - 1)
    BY <1>2 DEF S
  <2>4. \A j \in 1..(n - 1) : s[j].key # s[n].key
    BY <1>2 DEF Distinct
  <2> HIDE DEF r, q, N
  <2>5. CASE s[n] \notin test
    <3>1. q = r
      BY <2>2, <2>5 DEF Pushed
    <3>2. \A x : (x \in test /\ \E j \in 1..n : s[j] = x)
                 <=> (x \in test /\ \E j \in 1..(n - 1) : s[j] = x)
      BY <2>1, <2>3, <2>5
    <3>3. Filtered(q, n)
      BY <2>1, <3>1, <3>2
    <3> QED BY <2>1, <3>3 DEF q
  <2>6. CASE s[n] \in test
    <3>1. q = Append(r, s[n])
      BY <2>2, <2>6 DEF Pushed
    <3>2. r \in Seq(S)
      BY <2>1
    <3>3. /\ q \in Seq(S) /\ Len(q) = Len(r) + 1 /\ Len(r) \in Nat
          /\ \A m \in 1..Len(r) : q[m] = r[m]
          /\ q[Len(r) + 1] = s[n]
      BY <2>3, <3>1, <3>2
    <3>4. \A m \in 1..Len(q) : m \in 1..Len(r) \/ m = Len(r) + 1
      BY <3>3
    <3>5. \A m \in 1..Len(r) : r[m].key # s[n].key
      BY <2>1, <2>4
    <3>6. Distinct(q)
      BY <2>1, <3>3, <3>4, <3>5 DEF Distinct
    <3>7. ASSUME NEW x
          PROVE  (\E m \in 1..Len(q) : q[m] = x) <=> (x \in test /\ \E j \in 1..n : s[j] = x)
      <4>1. (\E m \in 1..Len(q) : q[m] = x) <=> (\E m \in 1..Len(r) : r[m] = x) \/ x = s[n]
        <5>1. Len(r) + 1 \in 1..Len(q) /\ \A m \in 1..Len(r) : m \in 1..Len(q)
          BY <3>3
        <5> QED BY <3>3, <3>4, <5>1
      <4>2. (\E j \in 1..n : s[j] = x) <=> (\E j \in 1..(n - 1) : s[j] = x) \/ x = s[n]
        <5>1. n \in 1..n /\ \A j \in 1..(n - 1) : j \in 1..n
          BY <2>1
        <5> QED BY <2>3, <5>1
      <4> QED BY <2>1, <2>6, <4>1, <4>2
    <3>8. Filtered(q, n)
      BY <3>3, <3>6, <3>7
    <3> QED BY <2>1, <3>8 DEF q
  <2> QED BY <2>5, <2>6
<1>5. P = 0..N
  <2>1. P \in SUBSET (0..N)
    OBVIOUS
  <2> HIDE DEF P, N
  <2> QED BY <1>2, <1>3, <1>4, <2>1, Reached
<1>6. Filtered(c[N], N)
  <2>1. N \in 0..N
    BY <1>2
  <2>2. N \in P
    BY <1>5, <2>1
  <2> HIDE DEF Filtered
  <2> QED BY <2>2
<1> QED BY <1>1, <1>6 DEF S

\* The keys of a hash.
LEMMA HashKeysAre ==
    ASSUME NEW K, NEW V, NEW h \in Seq(PairsOf(K, V)), NEW k
    PROVE  k \in ToSet(HashKeys(h)) <=> \E i \in 1..Len(h) : h[i].key = k
<1> DEFINE f == [x \in ToSet(h) |-> x["key"]]
<1>1. HashKeys(h) = [i \in DOMAIN h |-> f[h[i]]]
  BY DEF HashKeys, Pluck, Collect
<1>2. DOMAIN h = 1..Len(h) /\ ToSet(h) = {h[i] : i \in 1..Len(h)}
  BY DEF ToSet
<1>3. \A i \in 1..Len(h) : f[h[i]] = h[i].key
  BY <1>2
<1>4. ToSet(HashKeys(h)) = {HashKeys(h)[i] : i \in DOMAIN HashKeys(h)}
  BY DEF ToSet
<1> HIDE DEF f
<1>5. DOMAIN HashKeys(h) = 1..Len(h) /\ \A i \in 1..Len(h) : HashKeys(h)[i] = h[i].key
  BY <1>1, <1>2, <1>3
<1> QED BY <1>4, <1>5

\* Its values.
LEMMA HashValuesAre ==
    ASSUME NEW K, NEW V, NEW h \in Seq(PairsOf(K, V)), NEW v
    PROVE  v \in ToSet(HashValues(h)) <=> \E i \in 1..Len(h) : h[i].value = v
<1> DEFINE f == [x \in ToSet(h) |-> x["value"]]
<1>1. HashValues(h) = [i \in DOMAIN h |-> f[h[i]]]
  BY DEF HashValues, Pluck, Collect
<1>2. DOMAIN h = 1..Len(h) /\ ToSet(h) = {h[i] : i \in 1..Len(h)}
  BY DEF ToSet
<1>3. \A i \in 1..Len(h) : f[h[i]] = h[i].value
  BY <1>2
<1>4. ToSet(HashValues(h)) = {HashValues(h)[i] : i \in DOMAIN HashValues(h)}
  BY DEF ToSet
<1> HIDE DEF f
<1>5. DOMAIN HashValues(h) = 1..Len(h) /\ \A i \in 1..Len(h) : HashValues(h)[i] = h[i].value
  BY <1>1, <1>2, <1>3
<1> QED BY <1>4, <1>5

\* get gives the value of the key.
LEMMA HashGetGives ==
    ASSUME NEW K, NEW V, NEW h \in Hashes(K, V), NEW k, NEW v, Holds(h, k, v)
    PROVE  HashGet(h, k) = v
<1>1. PICK i \in 1..Len(h) : h[i].key = k /\ h[i].value = v
  BY DEF Holds
<1>2. DOMAIN h = 1..Len(h)
  BY DEF Hashes
<1> DEFINE at == {j \in DOMAIN h : h[j].key = k}
<1>3. at = {i}
  BY <1>1, <1>2 DEF Hashes, Distinct
<1> QED BY <1>1, <1>3 DEF HashGet

\* unset removes the pair of one key, and keeps the others.
LEMMA HashUnsetDoes ==
    ASSUME NEW K, NEW V, NEW h \in Hashes(K, V), NEW k
    PROVE  /\ HashUnset(h, k) \in Hashes(K, V)
           /\ \A l, w : Holds(HashUnset(h, k), l, w) <=> l # k /\ Holds(h, l, w)
<1> DEFINE test == {x \in ToSet(h) : x.key # k}
           g == FindAll(test, h)
<1>1. h \in Seq(PairsOf(K, V)) /\ Distinct(h) /\ ToSet(h) = {h[i] : i \in 1..Len(h)}
  BY DEF Hashes, ToSet
<1>2. HashUnset(h, k) = g
  BY DEF HashUnset
<1> HIDE DEF test
<1>0. g = FindAll(test, h)
  OBVIOUS
<1> HIDE DEF g
<1>3. /\ g \in Seq(PairsOf(K, V)) /\ Distinct(g)
      /\ \A x : (\E m \in 1..Len(g) : g[m] = x) <=> (x \in test /\ \E j \in 1..Len(h) : h[j] = x)
  BY <1>0, <1>1, FindAllDoes
<1>4. ASSUME NEW l, NEW w PROVE Holds(g, l, w) <=> l # k /\ Holds(h, l, w)
  <2>1. \A x \in ToSet(h) : x \in test <=> x.key # k
    BY DEF test
  <2>2. ASSUME Holds(g, l, w) PROVE l # k /\ Holds(h, l, w)
    <3>1. PICK m \in 1..Len(g) : g[m].key = l /\ g[m].value = w
      BY <2>2 DEF Holds
    <3>2. g[m] \in test /\ \E j \in 1..Len(h) : h[j] = g[m]
      BY <1>3
    <3> QED BY <1>1, <2>1, <3>1, <3>2 DEF Holds
  <2>3. ASSUME l # k, Holds(h, l, w) PROVE Holds(g, l, w)
    <3>1. PICK j \in 1..Len(h) : h[j].key = l /\ h[j].value = w
      BY <2>3 DEF Holds
    <3>2. h[j] \in test
      BY <1>1, <2>1, <2>3, <3>1
    <3>3. \E m \in 1..Len(g) : g[m] = h[j]
      BY <1>3, <3>2
    <3> QED BY <3>1, <3>3 DEF Holds
  <2> QED BY <2>2, <2>3
<1> QED BY <1>0, <1>2, <1>3, <1>4 DEF Hashes

\* index finds a key that has the value.
LEMMA HashIndexFinds ==
    ASSUME NEW K, NEW V, NEW h \in Hashes(K, V), NEW v, NEW k, Holds(h, k, v)
    PROVE  Holds(h, HashIndex(h, v), v)
<1> DEFINE test == {x \in ToSet(h) : x.value = v}
           g == FindAll(test, h)
<1>1. h \in Seq(PairsOf(K, V)) /\ Distinct(h) /\ ToSet(h) = {h[i] : i \in 1..Len(h)}
  BY DEF Hashes, ToSet
<1>2. HashIndex(h, v) = IF g = <<>> THEN Undefined ELSE g[1].key
  BY DEF HashIndex
<1>3. \A x \in ToSet(h) : x \in test <=> x.value = v
  OBVIOUS
<1> HIDE DEF test
<1>0. g = FindAll(test, h)
  OBVIOUS
<1> HIDE DEF g
<1>4. /\ g \in Seq(PairsOf(K, V))
      /\ \A x : (\E m \in 1..Len(g) : g[m] = x) <=> (x \in test /\ \E j \in 1..Len(h) : h[j] = x)
  BY <1>0, <1>1, FindAllDoes
<1>5. PICK i \in 1..Len(h) : h[i].key = k /\ h[i].value = v
  BY DEF Holds
<1>6. h[i] \in test
  BY <1>1, <1>3, <1>5
<1>7. PICK m \in 1..Len(g) : g[m] = h[i]
  BY <1>4, <1>6
<1>8. g # <<>> /\ 1 \in 1..Len(g)
  BY <1>4, <1>7
<1>9. g[1] \in test /\ \E j \in 1..Len(h) : h[j] = g[1]
  BY <1>4, <1>8
<1> QED BY <1>0, <1>1, <1>2, <1>3, <1>8, <1>9 DEF Holds

\* The hash after each pair of the other one is set.
LEMMA HashUpdateSteps ==
    ASSUME NEW K, NEW V, NEW h \in Hashes(K, V), NEW s \in Seq(PairsOf(K, V))
    PROVE  \E c \in [0..Len(s) -> Hashes(K, V)] :
              /\ HashUpdate(h, s) = c[Len(s)]
              /\ c[0] = h
              /\ \A i \in 1..Len(s) : c[i] = HashSet(c[i - 1], s[i].key, s[i].value)
<1> DEFINE N == Len(s)
           R == Hashes(K, V)
           f == [i \in 1..N |-> [r \in R |-> HashSet(r, s[i].key, s[i].value)]]
           Body(g) == [n \in 0..N |-> IF n = 0 THEN h ELSE HashSet(g[n - 1], s[n].key, s[n].value)]
           given == CHOOSE g : g = Body(g)
<1>1. N \in Nat /\ h \in R
  OBVIOUS
<1>2. \A i \in 1..N, r \in R : HashSet(r, s[i].key, s[i].value) \in R
  <2>0. \A i \in 1..N : s[i] \in PairsOf(K, V)
    OBVIOUS
  <2>1. \A i \in 1..N : s[i].key \in K /\ s[i].value \in V
    BY <2>0 DEF PairsOf
  <2> QED BY <2>1, HashSetDoes DEF Hashes
<1>3. f \in [1..N -> [R -> R]]
  <2> HIDE DEF N, R
  <2> QED BY <1>2
<1>4. PICK g : g \in [0..N -> R] /\ g[0] = h /\ \A i \in 1..N : g[i] = f[i][g[i - 1]]
  <2> HIDE DEF f, N, R
  <2>1. PICK g : g \in Chains(N, N, R, h, f)
    BY <1>1, <1>3, Iterated
  <2> QED BY <2>1 DEF Chains
<1>5. \A i \in 1..N : g[i] = HashSet(g[i - 1], s[i].key, s[i].value)
  <2> SUFFICES ASSUME NEW i \in 1..N PROVE g[i] = HashSet(g[i - 1], s[i].key, s[i].value)
    OBVIOUS
  <2>1. f[i] = [r \in R |-> HashSet(r, s[i].key, s[i].value)]
    OBVIOUS
  <2>2. i - 1 \in 0..N
    BY <1>1
  <2> HIDE DEF f, N, R
  <2>3. g[i] = f[i][g[i - 1]] /\ g[i - 1] \in R
    BY <1>4, <2>2
  <2> QED BY <2>1, <2>3
<1>6. g = Body(g)
  <2>1. \A n \in 0..N : n = 0 \/ n \in 1..N
    BY <1>1
  <2> HIDE DEF N, R
  <2>2. \A n \in 0..N : g[n] = IF n = 0 THEN h ELSE HashSet(g[n - 1], s[n].key, s[n].value)
    BY <1>4, <1>5, <2>1
  <2> QED BY <1>4, <2>2
<1>7. given = Body(given)
  <2> HIDE DEF Body
  <2> QED BY <1>6
<1>8. HashUpdate(h, s) = given[N]
  BY DEF HashUpdate, Inject
<1> HIDE DEF given, R
<1>9. given[0] = h /\ \A i \in 1..N : given[i] = HashSet(given[i - 1], s[i].key, s[i].value)
  <2>1. 0 \in 0..N /\ \A i \in 1..N : i \in 0..N /\ i # 0
    BY <1>1
  <2> HIDE DEF N
  <2> QED BY <1>7, <2>1
<1>10. \A i \in 0..N : given[i] \in R
  <2> HIDE DEF N
  <2> QED BY <1>1, <1>2, <1>9, StaysIn
<1>11. given \in [0..N -> R]
  <2>1. given = [n \in 0..N |-> given[n]]
    BY <1>7
  <2> HIDE DEF N
  <2> QED BY <1>10, <2>1
<1> QED BY <1>8, <1>9, <1>11 DEF R

\* update sets one pair after the other.
LEMMA HashUpdateDoes ==
    ASSUME NEW K, NEW V, NEW h \in Hashes(K, V), NEW k \in K, NEW l \in K, NEW v \in V
    PROVE  HashUpdate(h, <<[key |-> k, value |-> v], [key |-> l, value |-> v]>>)
              = HashSet(HashSet(h, k, v), l, v)
<1> DEFINE s == <<[key |-> k, value |-> v], [key |-> l, value |-> v]>>
<1>1. /\ s \in Seq(PairsOf(K, V)) /\ Len(s) = 2
      /\ s[1].key = k /\ s[1].value = v /\ s[2].key = l /\ s[2].value = v
  BY DEF PairsOf
<1> HIDE DEF s
<1>2. PICK c \in [0..Len(s) -> Hashes(K, V)] :
         /\ HashUpdate(h, s) = c[Len(s)]
         /\ c[0] = h
         /\ \A i \in 1..Len(s) : c[i] = HashSet(c[i - 1], s[i].key, s[i].value)
  BY <1>1, HashUpdateSteps
<1>3. c[1] = HashSet(c[0], k, v) /\ c[2] = HashSet(c[1], l, v)
  BY <1>1, <1>2
<1> QED BY <1>1, <1>2, <1>3 DEF s

-----------------------------------------------------------------------------
(* What was set *)

Hash == Hashes(Keys, Params)

\* The hash holds what was set in it.
HashInv ==
    /\ hash \in Hash
    /\ map \in [Keys -> Params \union {Absent}]
    /\ \A k \in Keys, v \in Params : Holds(hash, k, v) <=> map[k] = v

\* Nothing was set in an empty hash.
LEMMA InitHash == CollectionsInit => HashInv
<1> SUFFICES ASSUME CollectionsInit PROVE HashInv
  OBVIOUS
<1>1. hash = <<>> /\ map = [k \in Keys |-> Absent]
  BY DEF CollectionsInit
<1>2. hash \in Hash
  BY <1>1 DEF Hash, Hashes, Distinct
<1>3. \A k, v : ~ Holds(hash, k, v)
  <2>1. Len(hash) = 0 /\ ~ \E i \in 1..0 : TRUE
    BY <1>1
  <2> QED BY <2>1 DEF Holds
<1>4. /\ map \in [Keys -> Params \union {Absent}]
      /\ \A k \in Keys, v \in Params : map[k] # v
  <2>1. \A v \in Params : v # Absent
    BY AbsentAssumption
  <2> QED BY <1>1, <2>1
<1> QED BY <1>2, <1>3, <1>4 DEF HashInv

\* set, of the hash of Collections.
LEMMA SetKeepsHash ==
    ASSUME NEW h \in Hash, NEW k \in Keys, NEW v \in Params
    PROVE  /\ HashSet(h, k, v) \in Hash
           /\ \A l, w : Holds(HashSet(h, k, v), l, w) <=> IF l = k THEN w = v ELSE Holds(h, l, w)
  BY HashSetDoes DEF Hash, Hashes

\* Each call changes the hash as it changes what was set.
LEMMA NextHash == HashInv /\ [CollectionsNext]_collectionVars => HashInv'
<1> SUFFICES ASSUME HashInv, [CollectionsNext]_collectionVars PROVE HashInv'
  OBVIOUS
<1>1. \/ UNCHANGED <<hash, map>>
      \/ \E k \in Keys, v \in Params : Set(k, v)
      \/ \E k \in Keys : Unset(k)
      \/ \E k, l \in Keys, v \in Params : Update(k, l, v)
  BY DEF CollectionsNext, collectionVars, Enter, Able, ClearField, AbleAll, Push, Clear,
         ReverseInline, Filter
<1>2. CASE UNCHANGED <<hash, map>>
  BY <1>2 DEF HashInv
<1>3. ASSUME NEW k \in Keys, NEW v \in Params, Set(k, v) PROVE HashInv'
  <2>1. hash' = HashSet(hash, k, v) /\ map' = [map EXCEPT ![k] = v]
    BY <1>3 DEF Set
  <2>2. /\ hash' \in Hash
        /\ \A l, w : Holds(hash', l, w) <=> IF l = k THEN w = v ELSE Holds(hash, l, w)
    BY <2>1, SetKeepsHash DEF HashInv
  <2>3. /\ map' \in [Keys -> Params \union {Absent}]
        /\ \A l \in Keys : map'[l] = IF l = k THEN v ELSE map[l]
    BY <2>1 DEF HashInv
  <2>4. \A l \in Keys, w \in Params : Holds(hash, l, w) <=> map[l] = w
    BY DEF HashInv
  <2> QED BY <2>2, <2>3, <2>4 DEF HashInv
<1>4. ASSUME NEW k \in Keys, Unset(k) PROVE HashInv'
  <2>1. hash' = HashUnset(hash, k) /\ map' = [map EXCEPT ![k] = Absent]
    BY <1>4 DEF Unset
  <2>2. /\ hash' \in Hash
        /\ \A l, w : Holds(hash', l, w) <=> l # k /\ Holds(hash, l, w)
    BY <2>1, HashUnsetDoes DEF HashInv, Hash
  <2>3. /\ map' \in [Keys -> Params \union {Absent}]
        /\ \A l \in Keys : map'[l] = IF l = k THEN Absent ELSE map[l]
    BY <2>1 DEF HashInv
  <2>4. \A l \in Keys, w \in Params : Holds(hash, l, w) <=> map[l] = w
    BY DEF HashInv
  <2> QED BY <2>2, <2>3, <2>4, AbsentAssumption DEF HashInv
<1>5. ASSUME NEW k \in Keys, NEW l \in Keys, NEW v \in Params, Update(k, l, v) PROVE HashInv'
  <2> DEFINE h == HashSet(hash, k, v)
  <2>1. /\ k # l /\ map' = [map EXCEPT ![k] = v, ![l] = v]
        /\ hash' = HashUpdate(hash, <<[key |-> k, value |-> v], [key |-> l, value |-> v]>>)
    BY <1>5 DEF Update
  <2>2. hash' = HashSet(h, l, v)
    BY <2>1, HashUpdateDoes DEF HashInv, Hash
  <2>3. /\ h \in Hash
        /\ \A m, w : Holds(h, m, w) <=> IF m = k THEN w = v ELSE Holds(hash, m, w)
    BY SetKeepsHash DEF HashInv
  <2> HIDE DEF h
  <2>4. /\ hash' \in Hash
        /\ \A m, w : Holds(hash', m, w) <=> IF m = l THEN w = v ELSE Holds(h, m, w)
    BY <2>2, <2>3, SetKeepsHash
  <2>5. /\ map' \in [Keys -> Params \union {Absent}]
        /\ \A m \in Keys : map'[m] = IF m = l \/ m = k THEN v ELSE map[m]
    BY <2>1 DEF HashInv
  <2>6. \A m \in Keys, w \in Params : Holds(hash, m, w) <=> map[m] = w
    BY DEF HashInv
  <2> QED BY <2>3, <2>4, <2>5, <2>6 DEF HashInv
<1> QED BY <1>1, <1>2, <1>3, <1>4, <1>5

\* Keys, values and what is got under a key follow map.
LEMMA HashFollows == HashInv => FollowsMap
<1> SUFFICES ASSUME HashInv PROVE FollowsMap
  OBVIOUS
<1>1. /\ hash \in Hashes(Keys, Params) /\ hash \in Seq(PairsOf(Keys, Params))
      /\ Distinct(hash) /\ DOMAIN hash = 1..Len(hash)
  BY DEF HashInv, Hash, Hashes
<1>2. \A i \in 1..Len(hash) : hash[i].key \in Keys /\ hash[i].value \in Params
  <2>1. \A i \in 1..Len(hash) : hash[i] \in PairsOf(Keys, Params)
    BY <1>1
  <2> QED BY <2>1 DEF PairsOf
<1>3. \A k \in Keys, v \in Params : Holds(hash, k, v) <=> map[k] = v
  BY DEF HashInv
<1>4. \A k \in Keys : map[k] # Absent <=> k \in ToSet(HashKeys(hash))
  <2> SUFFICES ASSUME NEW k \in Keys PROVE map[k] # Absent <=> k \in ToSet(HashKeys(hash))
    OBVIOUS
  <2>1. k \in ToSet(HashKeys(hash)) <=> \E i \in 1..Len(hash) : hash[i].key = k
    BY <1>1, HashKeysAre
  <2>2. (\E i \in 1..Len(hash) : hash[i].key = k) <=> \E v \in Params : Holds(hash, k, v)
    BY <1>2 DEF Holds
  <2>3. map[k] \in Params \union {Absent}
    BY DEF HashInv
  <2> QED BY <1>3, <2>1, <2>2, <2>3, AbsentAssumption
<1>5. \A k \in Keys : map[k] # Absent => HashGet(hash, k) = map[k]
  <2> SUFFICES ASSUME NEW k \in Keys, map[k] # Absent PROVE HashGet(hash, k) = map[k]
    OBVIOUS
  <2>1. map[k] \in Params
    BY DEF HashInv
  <2>2. Holds(hash, k, map[k])
    BY <1>3, <2>1
  <2> QED BY <1>1, <2>2, HashGetGives
<1>6. \A i, j \in DOMAIN hash : hash[i].key = hash[j].key => i = j
  BY <1>1 DEF Distinct
<1>7. ASSUME NEW v \in ToSet(HashValues(hash)) PROVE map[HashIndex(hash, v)] = v
  <2>1. PICK i \in 1..Len(hash) : hash[i].value = v
    BY <1>1, HashValuesAre
  <2>2. Holds(hash, hash[i].key, v)
    BY <2>1 DEF Holds
  <2>3. Holds(hash, HashIndex(hash, v), v)
    BY <1>1, <2>2, HashIndexFinds
  <2>4. HashIndex(hash, v) \in Keys /\ v \in Params
    BY <1>2, <2>3 DEF Holds
  <2> QED BY <1>3, <2>3, <2>4
<1> QED BY <1>4, <1>5, <1>6, <1>7 DEF FollowsMap

-----------------------------------------------------------------------------
(* Through the query string *)

\* The values of parameters, and the texts they become.
Contents == Scalars \union Entered
Lists == [isArray : BOOLEAN, values : Seq(Contents)]

SentTexts == {Text(v) : v \in Contents}
SentPair == [key : Keys, text : SentTexts]
Arrived == [isArray : BOOLEAN, values : Seq(SentTexts)]
Parsings == Hashes(Keys, Arrived)

\* A sequence with one more element.
LEMMA AppendedIs ==
    ASSUME NEW S, NEW s \in Seq(S), NEW x \in S
    PROVE  /\ Append(s, x) \in Seq(S) /\ Len(Append(s, x)) = Len(s) + 1
           /\ Append(s, x)[Len(s) + 1] = x
           /\ \A i \in 1..Len(s) : Append(s, x)[i] = s[i]
  OBVIOUS

\* A parameter is a list of values.
LEMMA ParamIs == Params \subseteq Lists
<1>1. \A v \in Scalars : <<v>> \in Seq(Contents)
  BY DEF Contents
<1>2. \A v, w \in Texts : <<v>> \in Seq(Contents) /\ <<v, w>> \in Seq(Contents)
  BY DEF Contents, Scalars
<1>3. <<>> \in Seq(Contents)
  OBVIOUS
<1>4. ASSUME NEW p \in Params PROVE p \in Lists
  <2>1. CASE \E v \in Scalars : p = One(v)
    BY <1>1, <2>1 DEF One, Lists
  <2>2. CASE p = Many(<<>>)
    BY <1>3, <2>2 DEF Many, Lists
  <2>3. CASE \E v \in Texts : p = Many(<<v>>)
    BY <1>2, <2>3 DEF Many, Lists
  <2>4. CASE \E v, w \in Texts : p = Many(<<v, w>>)
    BY <1>2, <2>4 DEF Many, Lists
  <2> QED BY <2>1, <2>2, <2>3, <2>4 DEF Params
<1> QED BY <1>4

\* A pair of a hash becomes a pair of the query string for each of its values.
LEMMA QueryPairsAre ==
    ASSUME NEW p \in PairsOf(Keys, Lists)
    PROVE  /\ QueryPairs(p) \in Seq(SentPair)
           /\ Len(QueryPairs(p)) = Len(p.value.values)
           /\ \A i \in 1..Len(p.value.values) :
                 /\ QueryPairs(p)[i].key = p.key
                 /\ QueryPairs(p)[i].text = Text(p.value.values[i])
<1> DEFINE vs == p.value.values
<1>1. vs \in Seq(Contents) /\ p.key \in Keys
  BY DEF PairsOf, Lists
<1>2. QueryPairs(p) = [i \in DOMAIN vs |-> [key |-> p.key, text |-> Text(vs[i])]]
  BY DEF QueryPairs
<1> HIDE DEF vs
<1>3. DOMAIN vs = 1..Len(vs) /\ \A i \in 1..Len(vs) : vs[i] \in Contents
  BY <1>1
<1>4. \A i \in 1..Len(vs) : [key |-> p.key, text |-> Text(vs[i])] \in SentPair
  BY <1>1, <1>3 DEF SentPair, SentTexts
<1>5. QueryPairs(p) \in [1..Len(vs) -> SentPair]
  BY <1>2, <1>3, <1>4
<1>6. QueryPairs(p) \in Seq(SentPair) /\ Len(QueryPairs(p)) = Len(vs)
  BY <1>1, <1>5
<1>7. \A i \in 1..Len(vs) : /\ QueryPairs(p)[i].key = p.key
                            /\ QueryPairs(p)[i].text = Text(vs[i])
  BY <1>2, <1>3
<1> QED BY <1>1, <1>6, <1>7 DEF vs

\* What a pair of a query string does to the hash: nothing without a key; a new key gets the
\* text; a key that came before gets it after the texts it has.
LEMMA ParsedDoes ==
    ASSUME NEW h \in Parsings, NEW x \in SentPair
    PROVE  /\ Parsed(h, x) \in Parsings
           /\ x.key = EmptyKey => Parsed(h, x) = h
           /\ x.key # EmptyKey /\ (\A w : ~ Holds(h, x.key, w)) =>
                 \A k, w : Holds(Parsed(h, x), k, w)
                              <=> IF k = x.key THEN w = One(x.text) ELSE Holds(h, k, w)
           /\ \A v : x.key # EmptyKey /\ Holds(h, x.key, v) =>
                 \A k, w : Holds(Parsed(h, x), k, w)
                              <=> IF k = x.key THEN w = Many(Append(v.values, x.text))
                                  ELSE Holds(h, k, w)
<1>1. /\ h \in Seq(PairsOf(Keys, Arrived)) /\ Distinct(h) /\ DOMAIN h = 1..Len(h)
      /\ x.key \in Keys /\ x.text \in SentTexts
  BY DEF Parsings, Hashes, SentPair
<1>2. \A i \in 1..Len(h) : h[i].value \in Arrived
  <2>1. \A i \in 1..Len(h) : h[i] \in PairsOf(Keys, Arrived)
    BY <1>1
  <2> QED BY <2>1 DEF PairsOf
<1>3. CASE x.key = EmptyKey
  BY <1>3 DEF Parsed
<1>4. CASE x.key # EmptyKey /\ \E i \in DOMAIN h : h[i].key = x.key
  <2>1. PICK i \in 1..Len(h) : h[i].key = x.key
    BY <1>1, <1>4
  <2> DEFINE v == h[i].value
             y == Many(Append(v.values, x.text))
  <2>2. Holds(h, x.key, v)
    BY <2>1 DEF Holds
  <2>3. HashGet(h, x.key) = v
    BY <2>2, HashGetGives DEF Parsings
  <2>4. \A w : Holds(h, x.key, w) => w = v
    BY <1>1, <2>1 DEF Holds, Distinct
  <2>5. y \in Arrived
    <3>1. v.values \in Seq(SentTexts)
      BY <1>2 DEF Arrived
    <3>2. Append(v.values, x.text) \in Seq(SentTexts)
      BY <1>1, <3>1
    <3> QED BY <3>2 DEF Many, Arrived
  <2>6. Parsed(h, x) = HashSet(h, x.key, y)
    BY <1>4, <2>3 DEF Parsed
  <2>7. y = Many(Append(v.values, x.text))
    OBVIOUS
  <2> HIDE DEF v, y
  <2>8. /\ Parsed(h, x) \in Parsings
        /\ \A k, w : Holds(Parsed(h, x), k, w) <=> IF k = x.key THEN w = y ELSE Holds(h, k, w)
    BY <1>1, <2>5, <2>6, HashSetDoes DEF Parsings, Hashes
  <2> QED BY <1>4, <2>2, <2>4, <2>7, <2>8
<1>5. CASE x.key # EmptyKey /\ ~ \E i \in DOMAIN h : h[i].key = x.key
  <2>1. Parsed(h, x) = HashSet(h, x.key, One(x.text))
    BY <1>5 DEF Parsed
  <2>2. One(x.text) \in Arrived
    <3>1. <<x.text>> \in Seq(SentTexts)
      BY <1>1
    <3> QED BY <3>1 DEF One, Arrived
  <2>3. /\ Parsed(h, x) \in Parsings
        /\ \A k, w : Holds(Parsed(h, x), k, w) <=> IF k = x.key THEN w = One(x.text) ELSE Holds(h, k, w)
    BY <1>1, <2>1, <2>2, HashSetDoes DEF Parsings, Hashes
  <2>4. \A w : ~ Holds(h, x.key, w)
    BY <1>1, <1>5 DEF Holds
  <2> QED BY <1>5, <2>3, <2>4
<1> QED BY <1>3, <1>4, <1>5

\* The last of these.
LEMMA ParsedMore ==
    ASSUME NEW h \in Parsings, NEW x \in SentPair, NEW v, x.key # EmptyKey, Holds(h, x.key, v),
           NEW k, NEW w
    PROVE  Holds(Parsed(h, x), k, w)
              <=> IF k = x.key THEN w = Many(Append(v.values, x.text)) ELSE Holds(h, k, w)
  BY ParsedDoes

\* The query string after each pair of a hash.
LEMMA QueryStringSteps ==
    ASSUME NEW s \in Seq(PairsOf(Keys, Lists))
    PROVE  \E c \in [0..Len(s) -> Seq(SentPair)] :
              /\ ToQueryString(s) = c[Len(s)]
              /\ c[0] = <<>>
              /\ \A i \in 1..Len(s) : c[i] = Concat(c[i - 1], QueryPairs(s[i]))
<1> DEFINE N == Len(s)
           R == Seq(SentPair)
           f == [i \in 1..N |-> [r \in R |-> Concat(r, QueryPairs(s[i]))]]
           Body(g) == [n \in 0..N |-> IF n = 0 THEN <<>> ELSE Concat(g[n - 1], QueryPairs(s[n]))]
           given == CHOOSE g : g = Body(g)
<1>1. N \in Nat /\ <<>> \in R
  OBVIOUS
<1>2. \A i \in 1..N, r \in R : Concat(r, QueryPairs(s[i])) \in R
  BY QueryPairsAre DEF Concat
<1>3. f \in [1..N -> [R -> R]]
  <2> HIDE DEF N, R
  <2> QED BY <1>2
<1>4. PICK g : g \in [0..N -> R] /\ g[0] = <<>> /\ \A i \in 1..N : g[i] = f[i][g[i - 1]]
  <2> HIDE DEF f, N, R
  <2>1. PICK g : g \in Chains(N, N, R, <<>>, f)
    BY <1>1, <1>3, Iterated
  <2> QED BY <2>1 DEF Chains
<1>5. \A i \in 1..N : g[i] = Concat(g[i - 1], QueryPairs(s[i]))
  <2> SUFFICES ASSUME NEW i \in 1..N PROVE g[i] = Concat(g[i - 1], QueryPairs(s[i]))
    OBVIOUS
  <2>1. f[i] = [r \in R |-> Concat(r, QueryPairs(s[i]))]
    OBVIOUS
  <2>2. i - 1 \in 0..N
    BY <1>1
  <2> HIDE DEF f, N, R
  <2>3. g[i] = f[i][g[i - 1]] /\ g[i - 1] \in R
    BY <1>4, <2>2
  <2> QED BY <2>1, <2>3
<1>6. g = Body(g)
  <2>1. \A n \in 0..N : n = 0 \/ n \in 1..N
    BY <1>1
  <2> HIDE DEF N, R
  <2>2. \A n \in 0..N : g[n] = IF n = 0 THEN <<>> ELSE Concat(g[n - 1], QueryPairs(s[n]))
    BY <1>4, <1>5, <2>1
  <2> QED BY <1>4, <2>2
<1>7. given = Body(given)
  <2> HIDE DEF Body
  <2> QED BY <1>6
<1>8. ToQueryString(s) = given[N]
  BY DEF ToQueryString, Inject
<1> HIDE DEF given, R
<1>9. given[0] = <<>> /\ \A i \in 1..N : given[i] = Concat(given[i - 1], QueryPairs(s[i]))
  <2>1. 0 \in 0..N /\ \A i \in 1..N : i \in 0..N /\ i # 0
    BY <1>1
  <2> HIDE DEF N
  <2> QED BY <1>7, <2>1
<1>10. \A i \in 0..N : given[i] \in R
  <2> HIDE DEF N
  <2> QED BY <1>1, <1>2, <1>9, StaysIn
<1>11. given \in [0..N -> R]
  <2>1. given = [n \in 0..N |-> given[n]]
    BY <1>7
  <2> HIDE DEF N
  <2> QED BY <1>10, <2>1
<1> QED BY <1>8, <1>9, <1>11 DEF R

\* The hash after each pair of a query string.
LEMMA QueryParamsSteps ==
    ASSUME NEW s \in Seq(SentPair)
    PROVE  \E c \in [0..Len(s) -> Parsings] :
              /\ ToQueryParams(s) = c[Len(s)]
              /\ c[0] = <<>>
              /\ \A i \in 1..Len(s) : c[i] = Parsed(c[i - 1], s[i])
<1> DEFINE N == Len(s)
           R == Parsings
           f == [i \in 1..N |-> [r \in R |-> Parsed(r, s[i])]]
           Body(g) == [n \in 0..N |-> IF n = 0 THEN <<>> ELSE Parsed(g[n - 1], s[n])]
           given == CHOOSE g : g = Body(g)
<1>1. N \in Nat /\ <<>> \in R
  BY DEF Parsings, Hashes, Distinct
<1>2. \A i \in 1..N, r \in R : Parsed(r, s[i]) \in R
  BY ParsedDoes
<1>3. f \in [1..N -> [R -> R]]
  <2> HIDE DEF N, R
  <2> QED BY <1>2
<1>4. PICK g : g \in [0..N -> R] /\ g[0] = <<>> /\ \A i \in 1..N : g[i] = f[i][g[i - 1]]
  <2> HIDE DEF f, N, R
  <2>1. PICK g : g \in Chains(N, N, R, <<>>, f)
    BY <1>1, <1>3, Iterated
  <2> QED BY <2>1 DEF Chains
<1>5. \A i \in 1..N : g[i] = Parsed(g[i - 1], s[i])
  <2> SUFFICES ASSUME NEW i \in 1..N PROVE g[i] = Parsed(g[i - 1], s[i])
    OBVIOUS
  <2>1. f[i] = [r \in R |-> Parsed(r, s[i])]
    OBVIOUS
  <2>2. i - 1 \in 0..N
    BY <1>1
  <2> HIDE DEF f, N, R
  <2>3. g[i] = f[i][g[i - 1]] /\ g[i - 1] \in R
    BY <1>4, <2>2
  <2> QED BY <2>1, <2>3
<1>6. g = Body(g)
  <2>1. \A n \in 0..N : n = 0 \/ n \in 1..N
    BY <1>1
  <2> HIDE DEF N, R
  <2>2. \A n \in 0..N : g[n] = IF n = 0 THEN <<>> ELSE Parsed(g[n - 1], s[n])
    BY <1>4, <1>5, <2>1
  <2> QED BY <1>4, <2>2
<1>7. given = Body(given)
  <2> HIDE DEF Body
  <2> QED BY <1>6
<1>8. ToQueryParams(s) = given[N]
  BY DEF ToQueryParams, Inject
<1> HIDE DEF given, R
<1>9. given[0] = <<>> /\ \A i \in 1..N : given[i] = Parsed(given[i - 1], s[i])
  <2>1. 0 \in 0..N /\ \A i \in 1..N : i \in 0..N /\ i # 0
    BY <1>1
  <2> HIDE DEF N
  <2> QED BY <1>7, <2>1
<1>10. \A i \in 0..N : given[i] \in R
  <2> HIDE DEF N
  <2> QED BY <1>1, <1>2, <1>9, StaysIn
<1>11. given \in [0..N -> R]
  <2>1. given = [n \in 0..N |-> given[n]]
    BY <1>7
  <2> HIDE DEF N
  <2> QED BY <1>10, <2>1
<1> QED BY <1>8, <1>9, <1>11 DEF R

\* No pairs make an empty hash.
LEMMA ParamsOfNone == ToQueryParams(<<>>) = <<>>
<1> DEFINE s == <<>>
<1>1. s \in Seq(SentPair) /\ Len(s) = 0
  OBVIOUS
<1> HIDE DEF s
<1>2. ToQueryParams(s) = <<>>
  BY <1>1, QueryParamsSteps
<1> QED BY <1>2 DEF s

\* A query string after another goes on with the other's hash, pair by pair.
LEMMA ParamsContinued ==
    ASSUME NEW q \in Seq(SentPair), NEW t \in Seq(SentPair)
    PROVE  \E g \in [0..Len(t) -> Parsings] :
              /\ ToQueryParams(q \o t) = g[Len(t)]
              /\ g[0] = ToQueryParams(q)
              /\ \A i \in 1..Len(t) : g[i] = Parsed(g[i - 1], t[i])
<1> DEFINE s == q \o t
           M == Len(q)
           N == Len(t)
<1>1. /\ s \in Seq(SentPair) /\ M \in Nat /\ N \in Nat /\ Len(s) = M + N
      /\ \A i \in 1..M : s[i] = q[i]
      /\ \A i \in 1..N : s[M + i] = t[i]
  OBVIOUS
<1>2. PICK c \in [0..Len(q) -> Parsings] :
         /\ ToQueryParams(q) = c[Len(q)]
         /\ c[0] = <<>>
         /\ \A i \in 1..Len(q) : c[i] = Parsed(c[i - 1], q[i])
  BY QueryParamsSteps
<1> HIDE DEF s
<1>3. PICK d \in [0..Len(s) -> Parsings] :
         /\ ToQueryParams(s) = d[Len(s)]
         /\ d[0] = <<>>
         /\ \A i \in 1..Len(s) : d[i] = Parsed(d[i - 1], s[i])
  BY <1>1, QueryParamsSteps
<1>4. \A i \in 1..M : c[i] = Parsed(c[i - 1], q[i])
  BY <1>2
<1> HIDE DEF M, N
<1>5. \A i \in 0..M : c[i] = d[i]
  <2> DEFINE P == {i \in 0..M : c[i] = d[i]}
  <2>1. P \in SUBSET (0..M) /\ 0 \in P
    BY <1>1, <1>2, <1>3
  <2>2. ASSUME NEW i \in 1..M, i - 1 \in P PROVE i \in P
    <3>1. i \in 0..M /\ i \in 1..Len(s) /\ c[i - 1] = d[i - 1]
      BY <1>1, <2>2
    <3> QED BY <1>1, <1>3, <1>4, <3>1
  <2> HIDE DEF P
  <2>3. P = 0..M
    BY <1>1, <2>1, <2>2, Reached
  <2> QED BY <2>3 DEF P
<1> DEFINE g == [i \in 0..N |-> d[M + i]]
<1>6. g \in [0..N -> Parsings]
  BY <1>1, <1>3
<1>7. g[0] = ToQueryParams(q)
  <2>1. g[0] = d[M] /\ M \in 0..M
    BY <1>1
  <2> QED BY <1>2, <1>5, <2>1 DEF M
<1>8. ToQueryParams(s) = g[N]
  BY <1>1, <1>3
<1>9. \A i \in 1..N : g[i] = Parsed(g[i - 1], t[i])
  <2>1. \A i \in 1..N : /\ M + i \in 1..Len(s) /\ (M + i) - 1 = M + (i - 1)
                        /\ i \in 0..N /\ i - 1 \in 0..N
    BY <1>1
  <2> QED BY <1>1, <1>3, <2>1
<1> HIDE DEF g
<1> QED BY <1>6, <1>7, <1>8, <1>9 DEF s, N

\* A list with one more value.
LEMMA ListIs ==
    ASSUME NEW S, NEW f, NEW i \in Nat, \A j \in 1..i + 1 : f[j] \in S
    PROVE  Append([j \in 1..i |-> f[j]], f[i + 1]) = [j \in 1..i + 1 |-> f[j]]
<1> DEFINE s == [j \in 1..i |-> f[j]]
           t == [j \in 1..i + 1 |-> f[j]]
           u == Append(s, f[i + 1])
<1>1. /\ s \in [1..i -> S] /\ t \in [1..i + 1 -> S] /\ i + 1 \in Nat /\ f[i + 1] \in S
      /\ \A j \in 1..i : s[j] = f[j]
      /\ \A j \in 1..i + 1 : t[j] = f[j]
  OBVIOUS
<1> HIDE DEF s, t
<1>2. s \in Seq(S) /\ Len(s) = i /\ t \in Seq(S) /\ Len(t) = i + 1
  BY <1>1
<1>3. /\ u \in Seq(S) /\ Len(u) = i + 1 /\ u[i + 1] = f[i + 1]
      /\ \A j \in 1..i : u[j] = s[j]
  BY <1>1, <1>2, AppendedIs
<1> HIDE DEF u
<1>4. \A j \in 1..i + 1 : u[j] = t[j]
  <2>1. \A j \in 1..i + 1 : j \in 1..i \/ j = i + 1
    OBVIOUS
  <2> QED BY <1>1, <1>3, <2>1
<1>5. u = t
  BY <1>2, <1>3, <1>4
<1> QED BY <1>5 DEF s, t, u

\* A pair of the hash whose key has not come is carried by the pairs it becomes.
LEMMA PairCarried ==
    ASSUME NEW q \in Seq(SentPair), NEW p \in PairsOf(Keys, Lists),
           \A w : ~ Holds(ToQueryParams(q), p.key, w)
    PROVE  \A k, w : Holds(ToQueryParams(q \o QueryPairs(p)), k, w)
                        <=> IF k = p.key
                              THEN k # EmptyKey /\ p.value.values # <<>> /\ w = Received(p.value.values)
                              ELSE Holds(ToQueryParams(q), k, w)
<1> DEFINE vs == p.value.values
           t == QueryPairs(p)
           h == ToQueryParams(q)
           N == Len(vs)
           texts == [i \in 1..N |-> Text(vs[i])]
           first(i) == [j \in 1..i |-> texts[j]]
<1>1. /\ t \in Seq(SentPair) /\ Len(t) = N
      /\ \A i \in 1..N : t[i].key = p.key /\ t[i].text = texts[i]
  BY QueryPairsAre
<1>2. vs \in Seq(Contents) /\ N \in Nat /\ DOMAIN vs = 1..N /\ \A i \in 1..N : texts[i] \in SentTexts
  <2>1. vs \in Seq(Contents)
    BY DEF PairsOf, Lists
  <2> HIDE DEF vs
  <2>2. \A i \in 1..N : vs[i] \in Contents
    BY <2>1
  <2> QED BY <2>1, <2>2 DEF SentTexts
<1>3. N = 0 <=> vs = <<>>
  BY <1>2
<1>4. Received(vs) = IF N = 1 THEN One(texts[1]) ELSE Many(first(N))
  <2>1. [i \in DOMAIN vs |-> Text(vs[i])] = first(N)
    BY <1>2
  <2>2. Len(vs) = 1 => texts[1] = Text(vs[1])
    OBVIOUS
  <2> HIDE DEF first, texts
  <2>3. Received(vs) = IF Len(vs) = 1 THEN One(Text(vs[1])) ELSE Many(first(N))
    BY <2>1 DEF Received
  <2> QED BY <2>2, <2>3
<1>5. PICK g \in [0..N -> Parsings] :
         /\ ToQueryParams(q \o t) = g[N]
         /\ g[0] = h
         /\ \A i \in 1..N : g[i] = Parsed(g[i - 1], t[i])
  <2>1. t \in Seq(SentPair) /\ Len(t) = N
    BY <1>1
  <2> HIDE DEF t, N
  <2> QED BY <2>1, ParamsContinued
<1> HIDE DEF t, vs, h, N, texts
<1>6. \A i \in 1..N : t[i] \in SentPair /\ g[i - 1] \in Parsings
  BY <1>1, <1>2, <1>5
<1> SUFFICES \A k, w : Holds(g[N], k, w)
                         <=> IF k = p.key THEN k # EmptyKey /\ N # 0 /\ w = Received(vs)
                             ELSE Holds(h, k, w)
  BY <1>3, <1>5 DEF t, vs, h
<1>7. \A w : ~ Holds(h, p.key, w)
  BY DEF h
<1>8. CASE p.key = EmptyKey
  <2>1. \A i \in 1..N : g[i] = g[i - 1]
    BY <1>1, <1>5, <1>6, <1>8, ParsedDoes
  <2>2. \A i \in 0..N : g[i] \in {h}
    <3>1. g[0] \in {h} /\ \A i \in 1..N : g[i - 1] \in {h} => g[i] \in {h}
      BY <1>5, <2>1
    <3> DEFINE R == {h}
    <3>2. g[0] \in R /\ \A i \in 1..N : g[i - 1] \in R => g[i] \in R
      BY <3>1
    <3> HIDE DEF R
    <3>3. \A i \in 0..N : g[i] \in R
      BY <1>2, <3>2, StaysIn
    <3> QED BY <3>3 DEF R
  <2>4. N \in 0..N
    BY <1>2
  <2>5. g[N] = h
    BY <2>2, <2>4
  <2> QED BY <1>7, <1>8, <2>5
<1>9. CASE p.key # EmptyKey
  <2> DEFINE list(i) == IF i = 1 THEN One(texts[1]) ELSE Many(first(i))
             Carried(i) == \A k, w : Holds(g[i], k, w)
                                       <=> IF k = p.key THEN i # 0 /\ w = list(i) ELSE Holds(h, k, w)
             P == {i \in 0..N : Carried(i)}
  <2>1. 0 \in P
    BY <1>2, <1>5, <1>7
  <2>2. ASSUME NEW i \in 1..N, i - 1 \in P PROVE i \in P
    <3> DEFINE m == i - 1
    <3>1. m \in 0..N /\ i \in 0..N /\ Carried(m) /\ i = m + 1 /\ m \in Nat
      BY <1>2, <2>2
    <3>2. g[i] = Parsed(g[m], t[i]) /\ t[i] \in SentPair /\ g[m] \in Parsings
      BY <1>5, <1>6
    <3>3. t[i].key = p.key /\ t[i].text = texts[i] /\ texts[i] \in SentTexts
      BY <1>1, <1>2
    <3>4. CASE m = 0
      <4>1. \A w : ~ Holds(g[m], t[i].key, w)
        BY <1>5, <1>7, <3>3, <3>4
      <4>2. \A k, w : Holds(g[i], k, w) <=> IF k = t[i].key THEN w = One(t[i].text) ELSE Holds(g[m], k, w)
        BY <1>9, <3>2, <3>3, <4>1, ParsedDoes
      <4>3. i = 1 /\ g[m] = h
        BY <1>5, <3>1, <3>4
      <4>4. list(i) = One(texts[i])
        BY <4>3
      <4> HIDE DEF list, m
      <4>5. Carried(i)
        BY <3>3, <4>2, <4>3, <4>4
      <4> QED BY <3>1, <4>5
    <3>5. CASE m # 0
      <4>1. Holds(g[m], t[i].key, list(m))
        <5> HIDE DEF list, m
        <5> QED BY <3>1, <3>3, <3>5
      <4>2. list(m).values = first(m)
        <5>1. m = 1 => first(m) = <<texts[1]>>
          OBVIOUS
        <5> QED BY <5>1 DEF One, Many
      <4>3. list(i) = Many(Append(list(m).values, t[i].text))
        <5>1. Append(first(m), texts[m + 1]) = first(m + 1)
          <6>1. \A j \in 1..m + 1 : texts[j] \in SentTexts
            BY <1>2, <3>1
          <6> HIDE DEF m
          <6> QED BY <3>1, <6>1, ListIs
        <5>2. list(i) = Many(first(i))
          BY <3>1, <3>5
        <5> QED BY <3>1, <3>3, <4>2, <5>1, <5>2
      <4> HIDE DEF list, m
      <4>4. \A k, w : Holds(g[i], k, w) <=> IF k = t[i].key THEN w = list(i) ELSE Holds(g[m], k, w)
        <5> DEFINE v == list(m)
        <5>1. Holds(g[m], t[i].key, v) /\ t[i].key # EmptyKey /\ list(i) = Many(Append(v.values, t[i].text))
          BY <1>9, <3>3, <4>1, <4>3
        <5> HIDE DEF v
        <5> QED BY <3>2, <5>1, ParsedMore
      <4>5. \A k, w : k # p.key => (Holds(g[m], k, w) <=> Holds(h, k, w))
        BY <3>1
      <4>6. Carried(i)
        BY <3>1, <3>3, <4>4, <4>5
      <4> QED BY <3>1, <4>6
    <3> QED BY <3>4, <3>5
  <2>3. P = 0..N
    <3>1. P \in SUBSET (0..N)
      OBVIOUS
    <3> HIDE DEF P
    <3> QED BY <1>2, <2>1, <2>2, <3>1, Reached
  <2>4. Carried(N)
    <3>1. N \in P
      <4> HIDE DEF P
      <4> QED BY <1>2, <2>3
    <3> HIDE DEF Carried
    <3> QED BY <3>1
  <2>5. list(N) = Received(vs)
    BY <1>4
  <2> HIDE DEF list
  <2> QED BY <1>9, <2>4, <2>5
<1> QED BY <1>8, <1>9

\* The hash of a query string is one of arrays and texts.
LEMMA ParamsTyped ==
    ASSUME NEW q \in Seq(SentPair)
    PROVE  ToQueryParams(q) \in Parsings
<1>1. PICK c \in [0..Len(q) -> Parsings] : ToQueryParams(q) = c[Len(q)]
  BY QueryParamsSteps
<1>2. Len(q) \in 0..Len(q)
  OBVIOUS
<1> QED BY <1>1, <1>2

\* The pairs that have values are carried, but for the one with the empty key.
LEMMA HashCarried ==
    ASSUME NEW s \in Hashes(Keys, Lists)
    PROVE  /\ ToQueryParams(ToQueryString(s)) \in Parsings
           /\ \A k, w : Holds(ToQueryParams(ToQueryString(s)), k, w)
                 <=> /\ k # EmptyKey
                     /\ \E j \in 1..Len(s) : /\ s[j].key = k
                                                /\ s[j].value.values # <<>>
                                                /\ w = Received(s[j].value.values)
<1>1. /\ s \in Seq(PairsOf(Keys, Lists)) /\ Distinct(s) /\ Len(s) \in Nat
      /\ \A i \in 1..Len(s) : s[i] \in PairsOf(Keys, Lists)
  BY DEF Hashes
<1>2. PICK c \in [0..Len(s) -> Seq(SentPair)] :
         /\ ToQueryString(s) = c[Len(s)]
         /\ c[0] = <<>>
         /\ \A i \in 1..Len(s) : c[i] = Concat(c[i - 1], QueryPairs(s[i]))
  BY <1>1, QueryStringSteps
<1> DEFINE N == Len(s)
           h(n) == ToQueryParams(c[n])
           From(k, w, j) == /\ s[j].key = k
                            /\ s[j].value.values # <<>>
                            /\ w = Received(s[j].value.values)
           Carried(n) == \A k, w : Holds(h(n), k, w)
                                      <=> k # EmptyKey /\ \E j \in 1..n : From(k, w, j)
           P == {n \in 0..N : Carried(n)}
<1>3. 0 \in P
  <2>1. h(0) = <<>>
    BY <1>2, ParamsOfNone
  <2>2. \A k, w : ~ Holds(h(0), k, w)
    <3> HIDE DEF h
    <3>1. Len(h(0)) = 0
      BY <2>1
    <3>2. ~ \E i \in 1..0 : TRUE
      OBVIOUS
    <3> QED BY <3>1, <3>2 DEF Holds
  <2>3. ~ \E j \in 1..0 : TRUE
    OBVIOUS
  <2> HIDE DEF h, From
  <2>4. Carried(0)
    BY <2>2, <2>3
  <2> QED BY <1>1, <2>4
<1>4. ASSUME NEW n \in 1..N, n - 1 \in P PROVE n \in P
  <2> DEFINE p == s[n]
             q == c[n - 1]
  <2>1. n - 1 \in 0..N /\ n \in 0..N /\ Carried(n - 1) /\ n - 1 \in Nat
    <3>1. N \in Nat
      BY <1>1
    <3> HIDE DEF N, Carried
    <3>2. n - 1 \in P
      BY <1>4
    <3> QED BY <3>1, <3>2
  <2>2. p \in PairsOf(Keys, Lists)
    BY <1>1
  <2>3. q \in Seq(SentPair)
    BY <1>2, <2>1
  <2>4. c[n] = q \o QueryPairs(p)
    BY <1>2 DEF Concat
  <2>5. \A j \in 1..(n - 1) : s[j].key # p.key
    BY <1>1, <1>4 DEF Distinct
  <2>6. \A w : ~ Holds(ToQueryParams(q), p.key, w)
    <3>1. \A w : Holds(h(n - 1), p.key, w) => \E j \in 1..(n - 1) : s[j].key = p.key
      <4> HIDE DEF h
      <4> QED BY <2>1
    <3> QED BY <2>5, <3>1
  <2>7. \A k, w : Holds(h(n), k, w)
                     <=> IF k = p.key
                           THEN k # EmptyKey /\ p.value.values # <<>> /\ w = Received(p.value.values)
                           ELSE Holds(h(n - 1), k, w)
    <3> HIDE DEF p, q
    <3>1. \A k, w : Holds(ToQueryParams(q \o QueryPairs(p)), k, w)
                     <=> IF k = p.key
                           THEN k # EmptyKey /\ p.value.values # <<>> /\ w = Received(p.value.values)
                           ELSE Holds(ToQueryParams(q), k, w)
      BY <2>2, <2>3, <2>6, PairCarried
    <3> QED BY <2>4, <3>1 DEF q
  <2>8. \A k, w : From(k, w, n) <=> k = p.key /\ p.value.values # <<>> /\ w = Received(p.value.values)
    OBVIOUS
  <2>9. \A k, w : (\E j \in 1..n : From(k, w, j))
                     <=> (\E j \in 1..(n - 1) : From(k, w, j)) \/ From(k, w, n)
    <3>1. /\ \A j \in 1..n : j \in 1..(n - 1) \/ j = n
          /\ n \in 1..n /\ \A j \in 1..(n - 1) : j \in 1..n
      BY <2>1
    <3> HIDE DEF From
    <3> QED BY <3>1
  <2>10. \A w : ~ \E j \in 1..(n - 1) : From(p.key, w, j)
    BY <2>5
  <2>11. Carried(n)
    <3> SUFFICES ASSUME NEW k, NEW w
                 PROVE  Holds(h(n), k, w) <=> k # EmptyKey /\ \E j \in 1..n : From(k, w, j)
      OBVIOUS
    <3> HIDE DEF h, From, p
    <3>1. Holds(h(n - 1), k, w) <=> k # EmptyKey /\ \E j \in 1..(n - 1) : From(k, w, j)
      BY <2>1
    <3>2. CASE k = p.key
      BY <2>7, <2>8, <2>9, <2>10, <3>2
    <3>3. CASE k # p.key
      BY <2>7, <2>8, <2>9, <3>1, <3>3
    <3> QED BY <3>2, <3>3
  <2> QED BY <2>1, <2>11
<1>5. P = 0..N
  <2>1. P \in SUBSET (0..N)
    OBVIOUS
  <2> HIDE DEF P, N
  <2>2. N \in Nat
    BY <1>1 DEF N
  <2> QED BY <1>3, <1>4, <2>1, <2>2, Reached
<1>6. Carried(N)
  <2>1. N \in P
    <3>1. N \in Nat
      BY <1>1
    <3> HIDE DEF N, P
    <3>2. N \in 0..N
      BY <3>1
    <3> QED BY <1>5, <3>2
  <2> HIDE DEF Carried
  <2> QED BY <2>1
<1>7. ToQueryParams(ToQueryString(s)) \in Parsings
  <2>1. ToQueryString(s) \in Seq(SentPair)
    BY <1>1, <1>2
  <2> QED BY <2>1, ParamsTyped
<1> HIDE DEF h
<1>8. \A k, w : Holds(h(N), k, w) <=> k # EmptyKey /\ \E j \in 1..N : From(k, w, j)
  BY <1>6
<1>9. h(N) = ToQueryParams(ToQueryString(s))
  BY <1>2 DEF h
<1> QED BY <1>7, <1>8, <1>9

\* What was set is received, as it is received.
LEMMA QuerySurvived == HashInv => SurvivesQuery
<1> SUFFICES ASSUME HashInv PROVE SurvivesQuery
  OBVIOUS
<1> DEFINE params == ToQueryParams(ToQueryString(hash))
           Has(k) == k # EmptyKey /\ map[k] # Absent /\ map[k].values # <<>>
<1>1. \A i \in 1..Len(hash) : hash[i].key \in Keys /\ hash[i].value \in Params
  <2>1. \A i \in 1..Len(hash) : hash[i] \in PairsOf(Keys, Params)
    BY DEF HashInv, Hash, Hashes
  <2> QED BY <2>1 DEF PairsOf
<1>0. hash \in Hashes(Keys, Lists)
  <2>1. PairsOf(Keys, Params) \subseteq PairsOf(Keys, Lists)
    BY ParamIs DEF PairsOf
  <2> QED BY <2>1 DEF HashInv, Hash, Hashes
<1>2. params \in Parsings /\ params \in Seq(PairsOf(Keys, Arrived))
  BY <1>0, HashCarried DEF Parsings, Hashes
<1>3. \A k, w : Holds(params, k, w) <=> k \in Keys /\ Has(k) /\ w = Received(map[k].values)
  <2> SUFFICES ASSUME NEW k, NEW w
               PROVE  Holds(params, k, w) <=> k \in Keys /\ Has(k) /\ w = Received(map[k].values)
    OBVIOUS
  <2>1. Holds(params, k, w)
           <=> /\ k # EmptyKey
               /\ \E j \in 1..Len(hash) : /\ hash[j].key = k
                                          /\ hash[j].value.values # <<>>
                                          /\ w = Received(hash[j].value.values)
    BY <1>0, HashCarried
  <2>2. \A j \in 1..Len(hash) : map[hash[j].key] = hash[j].value
    <3>1. \A j \in 1..Len(hash) : Holds(hash, hash[j].key, hash[j].value)
      BY DEF Holds
    <3> QED BY <1>1, <3>1 DEF HashInv
  <2>3. ASSUME k \in Keys, map[k] # Absent
        PROVE  \E j \in 1..Len(hash) : hash[j].key = k /\ hash[j].value = map[k]
    <3>1. map[k] \in Params
      BY <2>3 DEF HashInv
    <3>2. Holds(hash, k, map[k])
      BY <2>3, <3>1 DEF HashInv
    <3> QED BY <3>2 DEF Holds
  <2>4. \A v \in Params : v # Absent
    BY AbsentAssumption
  <2> HIDE DEF params
  <2>5. ASSUME Holds(params, k, w) PROVE k \in Keys /\ Has(k) /\ w = Received(map[k].values)
    <3>1. PICK j \in 1..Len(hash) : /\ hash[j].key = k
                                    /\ hash[j].value.values # <<>>
                                    /\ w = Received(hash[j].value.values)
      BY <2>1, <2>5
    <3> QED BY <1>1, <2>1, <2>2, <2>4, <2>5, <3>1
  <2>6. ASSUME k \in Keys, Has(k), w = Received(map[k].values) PROVE Holds(params, k, w)
    <3>1. PICK j \in 1..Len(hash) : hash[j].key = k /\ hash[j].value = map[k]
      BY <2>3, <2>6
    <3> QED BY <2>1, <2>6, <3>1
  <2> QED BY <2>5, <2>6
<1> HIDE DEF params, Has
<1>4. \A k : k \in ToSet(HashKeys(params)) <=> \E w : Holds(params, k, w)
  <2> SUFFICES ASSUME NEW k PROVE k \in ToSet(HashKeys(params)) <=> \E w : Holds(params, k, w)
    OBVIOUS
  <2>1. k \in ToSet(HashKeys(params)) <=> \E i \in 1..Len(params) : params[i].key = k
    BY <1>2, HashKeysAre
  <2> QED BY <2>1 DEF Holds
<1>5. \A k : k \in ToSet(HashKeys(params)) <=> k \in Keys /\ Has(k)
  BY <1>3, <1>4
<1>6. ToSet(HashKeys(params)) = {k \in Keys \ {EmptyKey} : map[k] # Absent /\ map[k].values # <<>>}
  BY <1>5 DEF Has
<1>7. ASSUME NEW k \in ToSet(HashKeys(params)) PROVE HashGet(params, k) = Received(map[k].values)
  <2>1. Holds(params, k, Received(map[k].values))
    BY <1>3, <1>5
  <2> QED BY <1>2, <2>1, HashGetGives DEF Parsings
<1> QED BY <1>6, <1>7 DEF SurvivesQuery, params

\* However a hash was made, it holds what was set, and a query string made of it arrives
\* as the parameters that were set (Hash, toQueryString, toQueryParams).
THEOREM HashesHold == CollectionsSpec => []HashLaws
<1>1. HashInv => HashLaws
  BY HashFollows, QuerySurvived DEF HashLaws
<1> QED BY <1>1, InitHash, NextHash, PTL DEF CollectionsSpec

-----------------------------------------------------------------------------
(* What a control holds *)

\* What a control may hold, and what may come of it in a hash.
FormValues == {One(t) : t \in Entered} \union {Many(ts) : ts \in Seq(Entered)}
FormPair == PairsOf(Keys, FormValues)
Joined == [joined : Seq(Entered)]
Held == [isArray : BOOLEAN, values : Seq(Entered \union Joined)]

\* What is selected are the texts that are chosen; one at most, if one at most is chosen.
LEMMA SelectedIs ==
    ASSUME NEW e \in Controls
    PROVE  /\ Selected(e) \in Seq(Entered)
           /\ \A t : (\E m \in 1..Len(Selected(e)) : Selected(e)[m] = t)
                        <=> \E i \in e.chosen : e.texts[i] = t
           /\ (\A i, j \in e.chosen : i = j) => Len(Selected(e)) <= 1
<1> DEFINE s == Options(e)
           S == Entered \union {NoText}
           N == Len(e.texts)
           test == ToSet(e.texts)
<1>1. e.texts \in Seq(Entered) /\ e.chosen \subseteq 1..N /\ N \in Nat /\ DOMAIN e.texts = 1..N
  BY DEF Controls, Proper
<1>2. /\ s \in Seq(S) /\ Len(s) = N
      /\ \A i \in 1..N : s[i] = IF i \in e.chosen THEN e.texts[i] ELSE NoText
  <2>1. s = [i \in 1..N |-> IF i \in e.chosen THEN e.texts[i] ELSE NoText]
    BY <1>1 DEF Options
  <2>2. \A i \in 1..N : e.texts[i] \in Entered
    BY <1>1
  <2> HIDE DEF s, N
  <2>3. s \in [1..N -> S]
    BY <2>1, <2>2
  <2>4. s \in Seq(S) /\ Len(s) = N
    BY <1>1, <2>3
  <2> QED BY <2>1, <2>4
<1>3. \A i \in 1..N : s[i] \in test <=> i \in e.chosen
  <2>1. \A t : t \in test <=> \E i \in 1..N : e.texts[i] = t
    BY <1>1 DEF ToSet
  <2>2. NoText \notin test
    <3>1. \A i \in 1..N : e.texts[i] \in Entered
      BY <1>1
    <3> QED BY <2>1, <3>1, TextsAssumption
  <2> HIDE DEF test, s, N
  <2> QED BY <1>2, <2>1, <2>2
<1> HIDE DEF s, N, test, S
<1>4. PICK c \in [0..Len(s) -> Seq(S)] :
         /\ FindAll(test, s) = c[Len(s)]
         /\ c[0] = <<>>
         /\ \A i \in 1..Len(s) : c[i] = Pushed(c[i - 1], s[i], s[i] \in test)
  <2>1. s \in Seq(S)
    BY <1>2
  <2> QED BY <2>1, FindAllSteps
<1>5. Selected(e) = c[N]
  BY <1>2, <1>4 DEF Selected, s, test
<1> DEFINE Has(n) == /\ c[n] \in Seq(Entered)
                     /\ \A t : (\E m \in 1..Len(c[n]) : c[n][m] = t)
                                  <=> \E i \in 1..n : i \in e.chosen /\ e.texts[i] = t
                     /\ (\A i, j \in e.chosen : i = j) => Len(c[n]) <= 1
           P == {n \in 0..N : Has(n)}
<1>6. 0 \in P
  <2> DEFINE u == c[0]
  <2>1. u = <<>> /\ u \in Seq(Entered) /\ Len(u) = 0
    BY <1>4
  <2>2. ~ \E m \in 1..0 : TRUE
    OBVIOUS
  <2> HIDE DEF u
  <2>3. \A t : (\E m \in 1..Len(u) : u[m] = t)
                  <=> \E i \in 1..0 : i \in e.chosen /\ e.texts[i] = t
    BY <2>1, <2>2
  <2>4. Len(u) <= 1
    BY <2>1
  <2> QED BY <1>1, <2>1, <2>3, <2>4 DEF u
<1>7. ASSUME NEW n \in 1..N, n - 1 \in P PROVE n \in P
  <2> DEFINE u == c[n - 1]
             x == s[n]
             w == c[n]
  <2>1. n - 1 \in Nat /\ n \in 0..N /\ Has(n - 1)
    <3> HIDE DEF Has
    <3> QED BY <1>1, <1>7
  <2>2. /\ u \in Seq(Entered)
        /\ \A t : (\E m \in 1..Len(u) : u[m] = t)
                     <=> \E i \in 1..(n - 1) : i \in e.chosen /\ e.texts[i] = t
        /\ (\A i, j \in e.chosen : i = j) => Len(u) <= 1
    BY <2>1
  <2>3. w = Pushed(u, x, n \in e.chosen)
    <3>1. n \in 1..Len(s) /\ (x \in test <=> n \in e.chosen)
      BY <1>2, <1>3
    <3> QED BY <1>4, <3>1 DEF Pushed
  <2>4. x = IF n \in e.chosen THEN e.texts[n] ELSE NoText
    BY <1>2
  <2>5. e.texts[n] \in Entered
    BY <1>1
  <2>6. \A t : (\E i \in 1..n : i \in e.chosen /\ e.texts[i] = t)
                 <=> \/ \E i \in 1..(n - 1) : i \in e.chosen /\ e.texts[i] = t
                     \/ n \in e.chosen /\ e.texts[n] = t
    <3>1. n \in 1..n /\ \A i \in 1..n : i \in 1..(n - 1) \/ i = n
      BY <2>1
    <3>2. \A i \in 1..(n - 1) : i \in 1..n
      BY <2>1
    <3> QED BY <3>1, <3>2
  <2> HIDE DEF u, w, x
  <2>7. CASE n \notin e.chosen
    <3>1. w = u
      BY <2>3, <2>7 DEF Pushed
    <3> QED BY <2>1, <2>2, <2>6, <2>7, <3>1 DEF w
  <2>8. CASE n \in e.chosen
    <3>1. w = Append(u, e.texts[n])
      BY <2>3, <2>4, <2>8 DEF Pushed
    <3>2. /\ w \in Seq(Entered) /\ Len(w) = Len(u) + 1 /\ Len(u) \in Nat
          /\ w[Len(u) + 1] = e.texts[n] /\ \A m \in 1..Len(u) : w[m] = u[m]
      BY <2>2, <2>5, <3>1
    <3>3. \A t : (\E m \in 1..Len(w) : w[m] = t) <=> (\E m \in 1..Len(u) : u[m] = t) \/ e.texts[n] = t
      <4>1. /\ \A m \in 1..Len(w) : m \in 1..Len(u) \/ m = Len(u) + 1
            /\ Len(u) + 1 \in 1..Len(w) /\ \A m \in 1..Len(u) : m \in 1..Len(w)
        BY <3>2
      <4> QED BY <3>2, <4>1
    <3>4. ASSUME \A i, j \in e.chosen : i = j PROVE Len(w) <= 1
      <4>1. ~ \E i \in 1..(n - 1) : i \in e.chosen
        BY <2>1, <2>8, <3>4
      <4>2. ~ \E m \in 1..Len(u) : TRUE
        BY <2>2, <4>1
      <4> QED BY <3>2, <4>2
    <3>5. \A t : (\E m \in 1..Len(w) : w[m] = t) <=> \E i \in 1..n : i \in e.chosen /\ e.texts[i] = t
      BY <2>2, <2>6, <2>8, <3>3
    <3> QED BY <2>1, <3>2, <3>4, <3>5 DEF w
  <2> QED BY <2>7, <2>8
<1>8. P = 0..N
  <2>1. P \in SUBSET (0..N)
    OBVIOUS
  <2> HIDE DEF P
  <2> QED BY <1>1, <1>6, <1>7, <2>1, Reached
<1>9. Has(N)
  <2>1. N \in P
    <3> HIDE DEF P
    <3> QED BY <1>1, <1>8
  <2> HIDE DEF Has
  <2> QED BY <2>1
<1>10. \A t : (\E i \in 1..N : i \in e.chosen /\ e.texts[i] = t) <=> \E i \in e.chosen : e.texts[i] = t
  BY <1>1
<1> QED BY <1>5, <1>9, <1>10

\* A sequence of one element.
LEMMA SingleIs ==
    ASSUME NEW S, NEW u \in Seq(S), Len(u) = 1
    PROVE  u[1] \in S /\ u = <<u[1]>>
<1> DEFINE x == u[1]
           w == <<x>>
<1>1. x \in S
  OBVIOUS
<1> HIDE DEF x
<1>2. w \in Seq(S) /\ Len(w) = 1 /\ w[1] = x
  BY <1>1
<1> HIDE DEF w
<1>3. \A i \in 1..1 : u[i] = w[i]
  BY <1>2 DEF x
<1>4. u = w
  BY <1>2, <1>3
<1> QED BY <1>1, <1>4 DEF w, x

\* The controls that are of a form.
Elements == {e \in Controls : e.kind # "label"}

\* A control that holds nothing has nothing selected, and what another one holds is what is
\* selected in it: one text, unless it is a list of several.
LEMMA ValueIs ==
    ASSUME NEW e \in Elements
    PROVE  /\ GetValue(e) = Null => Selected(e) = <<>>
           /\ GetValue(e) # Null =>
                 /\ GetValue(e) \in FormValues /\ GetValue(e).values = Selected(e)
                 /\ e.kind # "select-multiple" =>
                       \E t \in Entered : GetValue(e) = One(t) /\ Selected(e) = <<t>>
           /\ e.kind = "submit" => GetValue(e) # Null
<1>1. e \in Controls /\ e.kind # "label" /\ e.kind \in ControlKinds /\ Proper(e)
      /\ e.texts \in Seq(Entered)
  BY DEF Elements, Controls
<1>2. /\ Selected(e) \in Seq(Entered)
      /\ \A t : (\E m \in 1..Len(Selected(e)) : Selected(e)[m] = t)
                  <=> \E i \in e.chosen : e.texts[i] = t
      /\ (\A i, j \in e.chosen : i = j) => Len(Selected(e)) <= 1
  BY <1>1, SelectedIs
<1>3. \A ts \in Seq(Entered) : Many(ts) # Null
  <2>1. \A ts \in Seq(Entered) : Many(ts) \in [isArray : BOOLEAN, values : Seq(Entered)]
    BY DEF Many
  <2> QED BY <2>1, TextsAssumption
<1>4. \A t \in Entered : One(t) # Null
  <2>1. \A t \in Entered : <<t>> \in Seq(Entered)
    OBVIOUS
  <2>2. \A t \in Entered : One(t) \in [isArray : BOOLEAN, values : Seq(Entered)]
    BY <2>1 DEF One
  <2> QED BY <2>2, TextsAssumption
<1>5. CASE e.kind = "select-multiple"
  <2>1. CASE e.texts = <<>>
    <3>1. GetValue(e) = Null
      BY <1>5, <2>1 DEF GetValue
    <3>2. e.chosen = {}
      <4>1. DOMAIN e.texts = {} /\ e.chosen \subseteq DOMAIN e.texts
        BY <1>1, <2>1 DEF Proper
      <4> QED BY <4>1
    <3>3. ~ \E m \in 1..Len(Selected(e)) : TRUE
      BY <1>2, <3>2
    <3>4. Selected(e) = <<>>
      BY <1>2, <3>3
    <3> QED BY <1>5, <3>1, <3>4
  <2>2. CASE e.texts # <<>>
    <3>1. GetValue(e) = Many(Selected(e))
      BY <1>5, <2>2 DEF GetValue
    <3>2. Many(Selected(e)).values = Selected(e)
      BY DEF Many
    <3> QED BY <1>2, <1>3, <1>5, <3>1, <3>2 DEF FormValues
  <2> QED BY <2>1, <2>2
<1>6. CASE e.kind # "select-multiple"
  <2>1. GetValue(e) = IF Selected(e) = <<>> THEN Null ELSE One(Selected(e)[1])
    BY <1>6 DEF GetValue
  <2>2. \A i, j \in e.chosen : i = j
    <3>1. \/ e.kind \in {"text", "submit", "file"} \/ e.kind = "checkbox" \/ e.kind = "select-one"
      BY <1>1, <1>6 DEF ControlKinds
    <3>2. CASE e.kind = "checkbox"
      <4>1. Len(e.texts) = 1 /\ e.chosen \subseteq DOMAIN e.texts
        BY <1>1, <3>2 DEF Proper
      <4>2. DOMAIN e.texts = 1..Len(e.texts)
        BY <1>1
      <4> QED BY <4>1, <4>2
    <3> QED BY <1>1, <3>1, <3>2 DEF Proper
  <2>3. Len(Selected(e)) <= 1
    BY <1>2, <2>2
  <2> DEFINE u == Selected(e)
  <2>4. u \in Seq(Entered) /\ Len(u) <= 1 /\ Len(u) \in Nat
    BY <1>2, <2>3
  <2> HIDE DEF u
  <2>5. u # <<>> => u[1] \in Entered /\ u = <<u[1]>>
    <3>1. Len(u) = 0 => u = <<>>
      BY <2>4
    <3>2. Len(u) = 0 \/ Len(u) = 1
      BY <2>4
    <3> QED BY <2>4, <3>1, <3>2, SingleIs
  <2>6. e.kind = "submit" => u # <<>>
    <3> SUFFICES ASSUME e.kind = "submit" PROVE u # <<>>
      OBVIOUS
    <3>1. 1 \in e.chosen
      BY <1>1 DEF Proper
    <3>2. \E m \in 1..Len(u) : u[m] = e.texts[1]
      BY <1>2, <3>1 DEF u
    <3> QED BY <3>2
  <2>7. \A t : One(t) = [isArray |-> FALSE, values |-> <<t>>] /\ One(t).values = <<t>>
    BY DEF One
  <2> QED BY <1>4, <1>6, <2>1, <2>5, <2>6, <2>7 DEF u, FormValues
<1> QED BY <1>5, <1>6

-----------------------------------------------------------------------------
(* The pairs of a form *)

Serialized(elements, submit) ==
    Inject([pairs |-> <<>>, submitted |-> FALSE],
           LAMBDA r, e : Serialize(r, e, submit), elements)
Serials == [pairs : Seq(FormPair), submitted : BOOLEAN]

\* What a control adds to the pairs leaves them well typed.
LEMMA SerializeTyped ==
    ASSUME NEW r \in Serials, NEW e \in Elements, NEW submit
    PROVE  Serialize(r, e, submit) \in Serials
<1> DEFINE submits == e.kind = "submit" /\ ~ r.submitted /\ submit \in {Undefined, e.name}
           counts == /\ ~ e.disabled /\ e.name # EmptyKey
                     /\ GetValue(e) # Null /\ e.kind # "file"
                     /\ e.kind = "submit" => submits
<1>1. CASE ~ counts
  BY <1>1 DEF Serialize
<1>2. CASE counts
  <2> DEFINE pair == [key |-> e.name, value |-> GetValue(e)]
             yes == r.submitted \/ submits
  <2>1. Serialize(r, e, submit) = [pairs |-> Append(r.pairs, pair), submitted |-> yes]
    BY <1>2 DEF Serialize
  <2>2. pair \in FormPair
    <3>1. e.name \in Keys
      BY DEF Elements, Controls
    <3> QED BY <1>2, <3>1, ValueIs DEF FormPair, PairsOf
  <2>3. yes \in BOOLEAN /\ r.pairs \in Seq(FormPair)
    BY DEF Serials
  <2> HIDE DEF pair, yes
  <2>4. Append(r.pairs, pair) \in Seq(FormPair)
    BY <2>2, <2>3
  <2> QED BY <2>1, <2>3, <2>4 DEF Serials
<1> QED BY <1>1, <1>2

\* The pairs after each control.
LEMMA SerializedSteps ==
    ASSUME NEW s \in Seq(Elements), NEW submit
    PROVE  \E c \in [0..Len(s) -> Serials] :
              /\ Serialized(s, submit) = c[Len(s)]
              /\ c[0] = [pairs |-> <<>>, submitted |-> FALSE]
              /\ \A i \in 1..Len(s) : c[i] = Serialize(c[i - 1], s[i], submit)
<1> DEFINE N == Len(s)
           R == Serials
           f == [i \in 1..N |-> [r \in R |-> Serialize(r, s[i], submit)]]
           Body(g) == [n \in 0..N |-> IF n = 0 THEN [pairs |-> <<>>, submitted |-> FALSE] ELSE Serialize(g[n - 1], s[n], submit)]
           given == CHOOSE g : g = Body(g)
<1>1. N \in Nat /\ [pairs |-> <<>>, submitted |-> FALSE] \in R
  BY DEF Serials
<1>2. \A i \in 1..N, r \in R : Serialize(r, s[i], submit) \in R
  BY SerializeTyped
<1>3. f \in [1..N -> [R -> R]]
  <2> HIDE DEF N, R
  <2> QED BY <1>2
<1>4. PICK g : g \in [0..N -> R] /\ g[0] = [pairs |-> <<>>, submitted |-> FALSE] /\ \A i \in 1..N : g[i] = f[i][g[i - 1]]
  <2> HIDE DEF f, N, R
  <2>1. PICK g : g \in Chains(N, N, R, [pairs |-> <<>>, submitted |-> FALSE], f)
    BY <1>1, <1>3, Iterated
  <2> QED BY <2>1 DEF Chains
<1>5. \A i \in 1..N : g[i] = Serialize(g[i - 1], s[i], submit)
  <2> SUFFICES ASSUME NEW i \in 1..N PROVE g[i] = Serialize(g[i - 1], s[i], submit)
    OBVIOUS
  <2>1. f[i] = [r \in R |-> Serialize(r, s[i], submit)]
    OBVIOUS
  <2>2. i - 1 \in 0..N
    BY <1>1
  <2> HIDE DEF f, N, R
  <2>3. g[i] = f[i][g[i - 1]] /\ g[i - 1] \in R
    BY <1>4, <2>2
  <2> QED BY <2>1, <2>3
<1>6. g = Body(g)
  <2>1. \A n \in 0..N : n = 0 \/ n \in 1..N
    BY <1>1
  <2> HIDE DEF N, R
  <2>2. \A n \in 0..N : g[n] = IF n = 0 THEN [pairs |-> <<>>, submitted |-> FALSE] ELSE Serialize(g[n - 1], s[n], submit)
    BY <1>4, <1>5, <2>1
  <2> QED BY <1>4, <2>2
<1>7. given = Body(given)
  <2> HIDE DEF Body
  <2> QED BY <1>6
<1>8. Serialized(s, submit) = given[N]
  BY DEF Serialized, Inject
<1> HIDE DEF given, R
<1>9. given[0] = [pairs |-> <<>>, submitted |-> FALSE] /\ \A i \in 1..N : given[i] = Serialize(given[i - 1], s[i], submit)
  <2>1. 0 \in 0..N /\ \A i \in 1..N : i \in 0..N /\ i # 0
    BY <1>1
  <2> HIDE DEF N
  <2> QED BY <1>7, <2>1
<1>10. \A i \in 0..N : given[i] \in R
  <2> HIDE DEF N
  <2> QED BY <1>1, <1>2, <1>9, StaysIn
<1>11. given \in [0..N -> R]
  <2>1. given = [n \in 0..N |-> given[n]]
    BY <1>7
  <2> HIDE DEF N
  <2> QED BY <1>10, <2>1
<1> QED BY <1>8, <1>9, <1>11 DEF R

\* One more control adds to the pairs of those before it.
LEMMA SerializedAppended ==
    ASSUME NEW q \in Seq(Elements), NEW x \in Elements, NEW submit
    PROVE  /\ Serialized(q, submit) \in Serials
           /\ Serialized(Append(q, x), submit) = Serialize(Serialized(q, submit), x, submit)
<1> DEFINE s == Append(q, x)
           N == Len(q)
<1>1. /\ s \in Seq(Elements) /\ N \in Nat /\ Len(s) = N + 1 /\ s[N + 1] = x
      /\ \A i \in 1..N : s[i] = q[i]
  OBVIOUS
<1>2. PICK c \in [0..Len(q) -> Serials] :
         /\ Serialized(q, submit) = c[Len(q)]
         /\ c[0] = [pairs |-> <<>>, submitted |-> FALSE]
         /\ \A i \in 1..Len(q) : c[i] = Serialize(c[i - 1], q[i], submit)
  BY SerializedSteps
<1> HIDE DEF s
<1>3. PICK d \in [0..Len(s) -> Serials] :
         /\ Serialized(s, submit) = d[Len(s)]
         /\ d[0] = [pairs |-> <<>>, submitted |-> FALSE]
         /\ \A i \in 1..Len(s) : d[i] = Serialize(d[i - 1], s[i], submit)
  BY <1>1, SerializedSteps
<1> DEFINE P == {i \in 0..N : c[i] = d[i]}
<1>4. /\ P \in SUBSET (0..N) /\ 0 \in P
      /\ \A i \in 1..N : i - 1 \in P => i \in P
  <2>1. 0 \in P
    <3>1. c[0] = d[0] /\ 0 \in 0..N
      BY <1>1, <1>2, <1>3
    <3> QED BY <3>1
  <2>2. ASSUME NEW i \in 1..N, i - 1 \in P PROVE i \in P
    <3>1. i \in 0..N /\ i \in 1..Len(s) /\ i \in 1..Len(q) /\ d[i - 1] = c[i - 1]
      BY <1>1, <2>2
    <3> QED BY <1>1, <1>2, <1>3, <3>1
  <2> QED BY <2>1, <2>2
<1> HIDE DEF P
<1>5. N \in P
  <2>1. P = 0..N
    BY <1>1, <1>4, Reached
  <2> QED BY <1>1, <2>1
<1>6. d[N] = c[N]
  BY <1>5 DEF P
<1>7. d[N + 1] = Serialize(d[N], x, submit)
  <2>1. N + 1 \in 1..Len(s) /\ (N + 1) - 1 = N
    BY <1>1
  <2> QED BY <1>1, <1>3, <2>1
<1> QED BY <1>1, <1>2, <1>3, <1>6, <1>7 DEF s

-----------------------------------------------------------------------------
(* The hash of a form *)

\* What an accumulator pushes is a text, or the texts of an array.
LEMMA AsTextIs ==
    ASSUME NEW v \in FormValues
    PROVE  AsText(v) \in Entered \union Joined
<1>1. CASE v \in {One(t) : t \in Entered}
  BY <1>1 DEF One, AsText
<1>2. ASSUME NEW ts \in Seq(Entered), v = Many(ts) PROVE AsText(v) \in Entered \union Joined
  <2>1. v.isArray = TRUE /\ v.values = ts
    BY <1>2 DEF Many
  <2>2. AsText(v) = CASE ts = <<>> -> EmptyText
                      [] Len(ts) = 1 -> ts[1]
                      [] OTHER -> [joined |-> ts]
    BY <2>1 DEF AsText
  <2>3. Len(ts) = 1 => ts[1] \in Entered
    BY <1>2
  <2>4. EmptyText \in Entered /\ [joined |-> ts] \in Joined
    BY <1>2 DEF Entered, Joined
  <2> QED BY <2>2, <2>3, <2>4
<1> QED BY <1>1, <1>2 DEF FormValues

\* A new name gets its value; one that came before gets what is pushed after what it has.
LEMMA AccumulateDoes ==
    ASSUME NEW h \in Hashes(Keys, Held), NEW x \in FormPair
    PROVE  /\ Accumulate(h, x) \in Hashes(Keys, Held)
           /\ (\A w : ~ Holds(h, x.key, w)) =>
                 \A k, w : Holds(Accumulate(h, x), k, w)
                              <=> IF k = x.key THEN w = x.value ELSE Holds(h, k, w)
           /\ \A v : Holds(h, x.key, v) =>
                 \A k, w : Holds(Accumulate(h, x), k, w)
                              <=> IF k = x.key THEN w = Many(Append(v.values, AsText(x.value)))
                                  ELSE Holds(h, k, w)
<1>1. /\ h \in Seq(PairsOf(Keys, Held)) /\ Distinct(h) /\ DOMAIN h = 1..Len(h)
      /\ x.key \in Keys /\ x.value \in FormValues
  BY DEF Hashes, FormPair, PairsOf
<1>2. \A i \in 1..Len(h) : h[i].value \in Held
  <2>1. \A i \in 1..Len(h) : h[i] \in PairsOf(Keys, Held)
    BY <1>1
  <2> QED BY <2>1 DEF PairsOf
<1>3. CASE \E i \in DOMAIN h : h[i].key = x.key
  <2>1. PICK i \in 1..Len(h) : h[i].key = x.key
    BY <1>1, <1>3
  <2> DEFINE v == h[i].value
             y == Many(Append(v.values, AsText(x.value)))
  <2>2. Holds(h, x.key, v)
    BY <2>1 DEF Holds
  <2>3. HashGet(h, x.key) = v
    BY <2>2, HashGetGives
  <2>4. \A w : Holds(h, x.key, w) => w = v
    BY <1>1, <2>1 DEF Holds, Distinct
  <2>5. y \in Held
    <3> DEFINE S == Entered \union Joined
    <3>1. v.values \in Seq(S) /\ AsText(x.value) \in S
      BY <1>1, <1>2, AsTextIs DEF Held
    <3> HIDE DEF S
    <3>2. Append(v.values, AsText(x.value)) \in Seq(S)
      BY <3>1
    <3> QED BY <3>2 DEF Many, Held, S
  <2>6. Accumulate(h, x) = HashSet(h, x.key, y)
    BY <1>3, <2>3 DEF Accumulate
  <2>7. y = Many(Append(v.values, AsText(x.value)))
    OBVIOUS
  <2> HIDE DEF v, y
  <2>8. /\ Accumulate(h, x) \in Hashes(Keys, Held)
        /\ \A k, w : Holds(Accumulate(h, x), k, w) <=> IF k = x.key THEN w = y ELSE Holds(h, k, w)
    BY <1>1, <2>5, <2>6, HashSetDoes DEF Hashes
  <2> QED BY <2>2, <2>4, <2>7, <2>8
<1>4. CASE ~ \E i \in DOMAIN h : h[i].key = x.key
  <2>1. Accumulate(h, x) = HashSet(h, x.key, x.value)
    BY <1>4 DEF Accumulate
  <2>2. x.value \in Held
    <3>1. \A t \in Entered : <<t>> \in Seq(Entered \union Joined)
      OBVIOUS
    <3>2. \A ts \in Seq(Entered) : ts \in Seq(Entered \union Joined)
      OBVIOUS
    <3>3. CASE \E t \in Entered : x.value = One(t)
      BY <3>1, <3>3 DEF One, Held
    <3>4. CASE \E ts \in Seq(Entered) : x.value = Many(ts)
      BY <3>2, <3>4 DEF Many, Held
    <3> QED BY <1>1, <3>3, <3>4 DEF FormValues
  <2>3. /\ Accumulate(h, x) \in Hashes(Keys, Held)
        /\ \A k, w : Holds(Accumulate(h, x), k, w) <=> IF k = x.key THEN w = x.value ELSE Holds(h, k, w)
    BY <1>1, <2>1, <2>2, HashSetDoes DEF Hashes
  <2>4. \A w : ~ Holds(h, x.key, w)
    BY <1>1, <1>4 DEF Holds
  <2> QED BY <2>3, <2>4
<1> QED BY <1>3, <1>4

\* The hash after each pair.
LEMMA AsHashSteps ==
    ASSUME NEW s \in Seq(FormPair)
    PROVE  \E c \in [0..Len(s) -> Hashes(Keys, Held)] :
              /\ AsHash(s) = c[Len(s)]
              /\ c[0] = <<>>
              /\ \A i \in 1..Len(s) : c[i] = Accumulate(c[i - 1], s[i])
<1> DEFINE N == Len(s)
           R == Hashes(Keys, Held)
           f == [i \in 1..N |-> [r \in R |-> Accumulate(r, s[i])]]
           Body(g) == [n \in 0..N |-> IF n = 0 THEN <<>> ELSE Accumulate(g[n - 1], s[n])]
           given == CHOOSE g : g = Body(g)
<1>1. N \in Nat /\ <<>> \in R
  BY DEF Hashes, Distinct
<1>2. \A i \in 1..N, r \in R : Accumulate(r, s[i]) \in R
  BY AccumulateDoes
<1>3. f \in [1..N -> [R -> R]]
  <2> HIDE DEF N, R
  <2> QED BY <1>2
<1>4. PICK g : g \in [0..N -> R] /\ g[0] = <<>> /\ \A i \in 1..N : g[i] = f[i][g[i - 1]]
  <2> HIDE DEF f, N, R
  <2>1. PICK g : g \in Chains(N, N, R, <<>>, f)
    BY <1>1, <1>3, Iterated
  <2> QED BY <2>1 DEF Chains
<1>5. \A i \in 1..N : g[i] = Accumulate(g[i - 1], s[i])
  <2> SUFFICES ASSUME NEW i \in 1..N PROVE g[i] = Accumulate(g[i - 1], s[i])
    OBVIOUS
  <2>1. f[i] = [r \in R |-> Accumulate(r, s[i])]
    OBVIOUS
  <2>2. i - 1 \in 0..N
    BY <1>1
  <2> HIDE DEF f, N, R
  <2>3. g[i] = f[i][g[i - 1]] /\ g[i - 1] \in R
    BY <1>4, <2>2
  <2> QED BY <2>1, <2>3
<1>6. g = Body(g)
  <2>1. \A n \in 0..N : n = 0 \/ n \in 1..N
    BY <1>1
  <2> HIDE DEF N, R
  <2>2. \A n \in 0..N : g[n] = IF n = 0 THEN <<>> ELSE Accumulate(g[n - 1], s[n])
    BY <1>4, <1>5, <2>1
  <2> QED BY <1>4, <2>2
<1>7. given = Body(given)
  <2> HIDE DEF Body
  <2> QED BY <1>6
<1>8. AsHash(s) = given[N]
  BY DEF AsHash, Inject
<1> HIDE DEF given, R
<1>9. given[0] = <<>> /\ \A i \in 1..N : given[i] = Accumulate(given[i - 1], s[i])
  <2>1. 0 \in 0..N /\ \A i \in 1..N : i \in 0..N /\ i # 0
    BY <1>1
  <2> HIDE DEF N
  <2> QED BY <1>7, <2>1
<1>10. \A i \in 0..N : given[i] \in R
  <2> HIDE DEF N
  <2> QED BY <1>1, <1>2, <1>9, StaysIn
<1>11. given \in [0..N -> R]
  <2>1. given = [n \in 0..N |-> given[n]]
    BY <1>7
  <2> HIDE DEF N
  <2> QED BY <1>10, <2>1
<1> QED BY <1>8, <1>9, <1>11 DEF R

\* One more pair adds to the hash of those before it.
LEMMA AsHashAppended ==
    ASSUME NEW q \in Seq(FormPair), NEW x \in FormPair
    PROVE  /\ AsHash(q) \in Hashes(Keys, Held)
           /\ AsHash(Append(q, x)) = Accumulate(AsHash(q), x)
<1> DEFINE s == Append(q, x)
           N == Len(q)
<1>1. /\ s \in Seq(FormPair) /\ N \in Nat /\ Len(s) = N + 1 /\ s[N + 1] = x
      /\ \A i \in 1..N : s[i] = q[i]
  OBVIOUS
<1>2. PICK c \in [0..Len(q) -> Hashes(Keys, Held)] :
         /\ AsHash(q) = c[Len(q)]
         /\ c[0] = <<>>
         /\ \A i \in 1..Len(q) : c[i] = Accumulate(c[i - 1], q[i])
  BY AsHashSteps
<1> HIDE DEF s
<1>3. PICK d \in [0..Len(s) -> Hashes(Keys, Held)] :
         /\ AsHash(s) = d[Len(s)]
         /\ d[0] = <<>>
         /\ \A i \in 1..Len(s) : d[i] = Accumulate(d[i - 1], s[i])
  BY <1>1, AsHashSteps
<1> DEFINE P == {i \in 0..N : c[i] = d[i]}
<1>4. /\ P \in SUBSET (0..N) /\ 0 \in P
      /\ \A i \in 1..N : i - 1 \in P => i \in P
  <2>1. 0 \in P
    <3>1. c[0] = d[0] /\ 0 \in 0..N
      BY <1>1, <1>2, <1>3
    <3> QED BY <3>1
  <2>2. ASSUME NEW i \in 1..N, i - 1 \in P PROVE i \in P
    <3>1. i \in 0..N /\ i \in 1..Len(s) /\ i \in 1..Len(q) /\ d[i - 1] = c[i - 1]
      BY <1>1, <2>2
    <3> QED BY <1>1, <1>2, <1>3, <3>1
  <2> QED BY <2>1, <2>2
<1> HIDE DEF P
<1>5. N \in P
  <2>1. P = 0..N
    BY <1>1, <1>4, Reached
  <2> QED BY <1>1, <2>1
<1>6. d[N] = c[N]
  BY <1>5 DEF P
<1>7. d[N + 1] = Accumulate(d[N], x)
  <2>1. N + 1 \in 1..Len(s) /\ (N + 1) - 1 = N
    BY <1>1
  <2> QED BY <1>1, <1>3, <2>1
<1> QED BY <1>1, <1>2, <1>3, <1>6, <1>7 DEF s

\* What the arrays give, put together one after the other.
LEMMA FlattenSteps ==
    ASSUME NEW S, NEW s \in Seq(Seq(S))
    PROVE  \E c \in [0..Len(s) -> Seq(S)] :
              /\ Flatten(s) = c[Len(s)]
              /\ c[0] = <<>>
              /\ \A i \in 1..Len(s) : c[i] = Concat(c[i - 1], s[i])
<1> DEFINE N == Len(s)
           R == Seq(S)
           f == [i \in 1..N |-> [r \in R |-> Concat(r, s[i])]]
           Body(g) == [n \in 0..N |-> IF n = 0 THEN <<>> ELSE Concat(g[n - 1], s[n])]
           given == CHOOSE g : g = Body(g)
<1>1. N \in Nat /\ <<>> \in R
  OBVIOUS
<1>2. \A i \in 1..N, r \in R : Concat(r, s[i]) \in R
  BY DEF Concat
<1>3. f \in [1..N -> [R -> R]]
  <2> HIDE DEF N, R
  <2> QED BY <1>2
<1>4. PICK g : g \in [0..N -> R] /\ g[0] = <<>> /\ \A i \in 1..N : g[i] = f[i][g[i - 1]]
  <2> HIDE DEF f, N, R
  <2>1. PICK g : g \in Chains(N, N, R, <<>>, f)
    BY <1>1, <1>3, Iterated
  <2> QED BY <2>1 DEF Chains
<1>5. \A i \in 1..N : g[i] = Concat(g[i - 1], s[i])
  <2> SUFFICES ASSUME NEW i \in 1..N PROVE g[i] = Concat(g[i - 1], s[i])
    OBVIOUS
  <2>1. f[i] = [r \in R |-> Concat(r, s[i])]
    OBVIOUS
  <2>2. i - 1 \in 0..N
    BY <1>1
  <2> HIDE DEF f, N, R
  <2>3. g[i] = f[i][g[i - 1]] /\ g[i - 1] \in R
    BY <1>4, <2>2
  <2> QED BY <2>1, <2>3
<1>6. g = Body(g)
  <2>1. \A n \in 0..N : n = 0 \/ n \in 1..N
    BY <1>1
  <2> HIDE DEF N, R
  <2>2. \A n \in 0..N : g[n] = IF n = 0 THEN <<>> ELSE Concat(g[n - 1], s[n])
    BY <1>4, <1>5, <2>1
  <2> QED BY <1>4, <2>2
<1>7. given = Body(given)
  <2> HIDE DEF Body
  <2> QED BY <1>6
<1>8. Flatten(s) = given[N]
  BY DEF Flatten, Inject
<1> HIDE DEF given, R
<1>9. given[0] = <<>> /\ \A i \in 1..N : given[i] = Concat(given[i - 1], s[i])
  <2>1. 0 \in 0..N /\ \A i \in 1..N : i \in 0..N /\ i # 0
    BY <1>1
  <2> HIDE DEF N
  <2> QED BY <1>7, <2>1
<1>10. \A i \in 0..N : given[i] \in R
  <2> HIDE DEF N
  <2> QED BY <1>1, <1>2, <1>9, StaysIn
<1>11. given \in [0..N -> R]
  <2>1. given = [n \in 0..N |-> given[n]]
    BY <1>7
  <2> HIDE DEF N
  <2> QED BY <1>10, <2>1
<1> QED BY <1>8, <1>9, <1>11 DEF R

\* No controls make no pairs, and no pairs an empty hash.
LEMMA FormOfNone ==
    /\ \A submit : Serialized(<<>>, submit) = [pairs |-> <<>>, submitted |-> FALSE]
    /\ AsHash(<<>>) = <<>>
<1> DEFINE s == <<>>
<1>1. s \in Seq(Elements) /\ s \in Seq(FormPair) /\ Len(s) = 0
  OBVIOUS
<1> HIDE DEF s
<1>2. \A submit : Serialized(s, submit) = [pairs |-> <<>>, submitted |-> FALSE]
  BY <1>1, SerializedSteps
<1>3. AsHash(s) = <<>>
  BY <1>1, AsHashSteps
<1> QED BY <1>2, <1>3 DEF s

\* Up to the n-th control a submit button may be sent; and what a control adds to what is
\* offered for a name.
Submits(n, submit) == \E j \in 1..n : MaySubmit(form[j], submit)
Share(i, name, submit) == IF form[i].name = name /\ Counts(i, submit) THEN Selected(form[i]) ELSE <<>>

\* What a control adds to the pairs when it counts: none without a name or a value.
LEMMA SerializeDoes ==
    ASSUME NEW n \in 1..Len(form), NEW submit, form[n] \in Elements,
           NEW r \in Serials, r.submitted <=> Submits(n - 1, submit)
    PROVE  LET e    == form[n]
               next == Serialize(r, e, submit)
           IN  /\ next.submitted <=> Submits(n, submit)
               /\ IF Counts(n, submit) /\ e.name # EmptyKey /\ GetValue(e) # Null
                    THEN next.pairs = Append(r.pairs, [key |-> e.name, value |-> GetValue(e)])
                    ELSE next.pairs = r.pairs
<1> DEFINE e == form[n]
           submits == e.kind = "submit" /\ ~ r.submitted /\ submit \in {Undefined, e.name}
           counts == /\ ~ e.disabled /\ e.name # EmptyKey
                     /\ GetValue(e) # Null /\ e.kind # "file"
                     /\ e.kind = "submit" => submits
<1>1. e.kind # "label" /\ (e.kind = "submit" => GetValue(e) # Null)
  BY ValueIs DEF Elements
<1>2. r.submitted <=> \E j \in 1..n - 1 : MaySubmit(form[j], submit)
  BY DEF Submits
<1>3. Submits(n, submit) <=> r.submitted \/ MaySubmit(e, submit)
  <2>1. /\ \A j \in 1..n : j \in 1..n - 1 \/ j = n
        /\ n \in 1..n /\ \A j \in 1..n - 1 : j \in 1..n
    OBVIOUS
  <2> QED BY <1>2, <2>1 DEF Submits
<1>4. counts <=> Counts(n, submit) /\ e.name # EmptyKey /\ GetValue(e) # Null
  BY <1>1, <1>2 DEF Counts, MaySubmit
<1>5. MaySubmit(e, submit) /\ ~ r.submitted <=> counts /\ submits
  BY <1>1 DEF MaySubmit
<1> HIDE DEF e
<1>6. CASE counts
  <2>1. Serialize(r, e, submit) = [pairs |-> Append(r.pairs, [key |-> e.name, value |-> GetValue(e)]),
                                   submitted |-> r.submitted \/ submits]
    BY <1>6 DEF Serialize
  <2> DEFINE yes == r.submitted \/ submits
             next == Serialize(r, e, submit)
  <2>2. next.submitted = yes /\ next.pairs = Append(r.pairs, [key |-> e.name, value |-> GetValue(e)])
    BY <2>1
  <2> HIDE DEF counts, submits
  <2>3. yes <=> Submits(n, submit)
    BY <1>3, <1>5, <1>6
  <2> HIDE DEF yes, next
  <2>4. next.submitted <=> Submits(n, submit)
    BY <2>2, <2>3
  <2> QED BY <1>4, <1>6, <2>2, <2>4 DEF e, next
<1>7. CASE ~ counts
  <2>1. Serialize(r, e, submit) = r
    BY <1>7 DEF Serialize
  <2> HIDE DEF counts, submits
  <2> QED BY <1>3, <1>4, <1>5, <1>7, <2>1 DEF e
<1> QED BY <1>6, <1>7

\* A control that does not count, or holds nothing, offers nothing.
LEMMA PartIs ==
    ASSUME form \in Seq(Controls), NEW n \in 1..Len(form), NEW name, NEW submit
    PROVE  /\ Share(n, name, submit) \in Seq(Entered)
           /\ form[n].kind = "label" => Share(n, name, submit) = <<>>
           /\ form[n].kind # "label" /\ GetValue(form[n]) = Null => Share(n, name, submit) = <<>>
<1>1. form[n] \in Controls
  OBVIOUS
<1>2. Selected(form[n]) \in Seq(Entered)
  BY <1>1, SelectedIs
<1>3. form[n].kind = "label" => ~ Counts(n, submit)
  BY DEF Counts
<1>4. form[n].kind # "label" /\ GetValue(form[n]) = Null => Selected(form[n]) = <<>>
  BY <1>1, ValueIs DEF Elements
<1> QED BY <1>2, <1>3, <1>4 DEF Share

\* One element is put after a sequence.
LEMMA OneMore ==
    ASSUME NEW S, NEW s \in Seq(S), NEW x \in S
    PROVE  s \o <<x>> = Append(s, x)
<1> DEFINE t == <<x>>
           u == Append(s, x)
<1>1. t \in Seq(S) /\ Len(t) = 1 /\ t[1] = x
  OBVIOUS
<1> HIDE DEF t
<1>2. u \in Seq(S) /\ Len(u) = Len(s) + 1 /\ u[Len(s) + 1] = x /\ \A i \in 1..Len(s) : u[i] = s[i]
  BY AppendedIs
<1> HIDE DEF u
<1>3. /\ s \o t \in Seq(S) /\ Len(s \o t) = Len(s) + 1 /\ Len(s) \in Nat
      /\ \A i \in 1..Len(s) + 1 : (s \o t)[i] = IF i <= Len(s) THEN s[i] ELSE t[i - Len(s)]
  <2>1. /\ s \o t \in Seq(S) /\ Len(s \o t) = Len(s) + Len(t) /\ Len(s) \in Nat
        /\ \A i \in 1..Len(s) + Len(t) : (s \o t)[i] = IF i <= Len(s) THEN s[i] ELSE t[i - Len(s)]
    <3>1. t \in Seq(S)
      BY <1>1
    <3> QED BY <3>1
  <2> QED BY <1>1, <2>1
<1>4. \A i \in 1..Len(s) + 1 : i \in 1..Len(s) \/ i = Len(s) + 1
  BY <1>3
<1>5. \A i \in 1..Len(s) + 1 : (s \o t)[i] = u[i]
  BY <1>1, <1>2, <1>3, <1>4
<1>6. s \o t = u
  BY <1>2, <1>3, <1>5
<1> QED BY <1>6 DEF t, u

\* The first of these,
LEMMA AccumulateNew ==
    ASSUME NEW h \in Hashes(Keys, Held), NEW x \in FormPair, \A w : ~ Holds(h, x.key, w)
    PROVE  /\ Accumulate(h, x) \in Hashes(Keys, Held)
           /\ \A k, w : Holds(Accumulate(h, x), k, w) <=> IF k = x.key THEN w = x.value ELSE Holds(h, k, w)
  BY AccumulateDoes

\* and the second.
LEMMA AccumulateMore ==
    ASSUME NEW h \in Hashes(Keys, Held), NEW x \in FormPair, NEW v, Holds(h, x.key, v),
           NEW z, z = Many(Append(v.values, AsText(x.value)))
    PROVE  /\ Accumulate(h, x) \in Hashes(Keys, Held)
           /\ \A k, w : Holds(Accumulate(h, x), k, w) <=> IF k = x.key THEN w = z ELSE Holds(h, k, w)
  BY AccumulateDoes

\* What a hash has for a name are these texts; none if it has nothing.
Gives(h, name, texts) ==
    /\ \A w : Holds(h, name, w) => w.values = texts
    /\ (\A w : ~ Holds(h, name, w)) => texts = <<>>

\* What is pushed onto the hash for a control goes after what it has for the name, unless a
\* list of several comes after another control of its name.
LEMMA AccumulateFollows ==
    ASSUME NEW h \in Hashes(Keys, Held), NEW e \in Elements, GetValue(e) # Null,
           NEW o \in Seq(Entered), NEW name, Gives(h, name, o),
           (\E w : Holds(h, e.name, w)) => e.kind # "select-multiple",
           NEW pair \in FormPair, pair.key = e.name, pair.value = GetValue(e)
    PROVE  /\ Accumulate(h, pair) \in Hashes(Keys, Held)
           /\ \A k, w : Holds(Accumulate(h, pair), k, w) => k = e.name \/ Holds(h, k, w)
           /\ Gives(Accumulate(h, pair), name, IF e.name = name THEN o \o Selected(e) ELSE o)
<1> DEFINE g == Accumulate(h, pair)
           all == IF e.name = name THEN o \o Selected(e) ELSE o
<1>0. g = Accumulate(h, pair)
  OBVIOUS
<1>7. /\ \A w : Holds(h, name, w) => w.values = o
      /\ (\A w : ~ Holds(h, name, w)) => o = <<>>
  BY DEF Gives
<1> HIDE DEF g
<1> SUFFICES /\ g \in Hashes(Keys, Held)
             /\ \A k, w : Holds(g, k, w) => k = e.name \/ Holds(h, k, w)
             /\ \A w : Holds(g, name, w) => w.values = all
             /\ (\A w : ~ Holds(g, name, w)) => all = <<>>
  BY <1>0 DEF Gives
<1> DEFINE y == GetValue(e)
<1>1. pair.key = e.name /\ pair.value = y
  OBVIOUS
<1>2. y.values = Selected(e) /\ y \in FormValues
  BY ValueIs
<1>3. Selected(e) \in Seq(Entered)
  BY SelectedIs DEF Elements
<1> HIDE DEF y
<1>5. CASE \A w : ~ Holds(h, e.name, w)
  <2>1. /\ g \in Hashes(Keys, Held)
        /\ \A k, w : Holds(g, k, w) <=> IF k = e.name THEN w = y ELSE Holds(h, k, w)
    <3>1. \A w : ~ Holds(h, pair.key, w)
      BY <1>1, <1>5
    <3>2. /\ g \in Hashes(Keys, Held)
          /\ \A k, w : Holds(g, k, w) <=> IF k = pair.key THEN w = pair.value ELSE Holds(h, k, w)
      BY <1>0, <3>1, AccumulateNew
    <3> QED BY <1>1, <3>2
  <2>2. CASE e.name = name
    <3>1. o = <<>> /\ all = o \o Selected(e)
      BY <1>5, <1>7, <2>2
    <3>2. all = y.values
      BY <1>2, <1>3, <3>1
    <3>3. Holds(g, name, y) /\ \A w : Holds(g, name, w) => w = y
      BY <2>1, <2>2
    <3> HIDE DEF all
    <3> QED BY <2>1, <3>2, <3>3
  <2>3. CASE e.name # name
    <3>1. all = o
      BY <2>3
    <3>2. \A w : Holds(g, name, w) <=> Holds(h, name, w)
      BY <2>1, <2>3
    <3> HIDE DEF all
    <3> QED BY <1>7, <2>1, <3>1, <3>2
  <2> QED BY <2>2, <2>3
<1>6. CASE \E w : Holds(h, e.name, w)
  <2>0. PICK had : Holds(h, e.name, had)
    BY <1>6
  <2>1. PICK t \in Entered : y = One(t) /\ Selected(e) = <<t>>
    <3>1. e.kind # "select-multiple"
      BY <1>6
    <3> QED BY <3>1, ValueIs DEF y
  <2>2. AsText(y) = t
    BY <2>1 DEF AsText, One
  <2> DEFINE more == Many(Append(had.values, t))
  <2>3. more.values = Append(had.values, t)
    BY DEF Many
  <2>4. /\ g \in Hashes(Keys, Held)
        /\ \A k, w : Holds(g, k, w) <=> IF k = e.name THEN w = more ELSE Holds(h, k, w)
    <3>1. Holds(h, pair.key, had) /\ more = Many(Append(had.values, AsText(pair.value)))
      BY <1>1, <2>0, <2>2
    <3> HIDE DEF more
    <3>2. /\ g \in Hashes(Keys, Held)
          /\ \A k, w : Holds(g, k, w) <=> IF k = pair.key THEN w = more ELSE Holds(h, k, w)
      BY <1>0, <3>1, AccumulateMore
    <3> QED BY <1>1, <3>2
  <2> HIDE DEF more
  <2>5. CASE e.name = name
    <3>1. had.values = o /\ all = o \o <<t>>
      BY <1>7, <2>0, <2>1, <2>5
    <3>2. all = more.values
      BY <2>3, <3>1, OneMore
    <3>3. Holds(g, name, more) /\ \A w : Holds(g, name, w) => w = more
      BY <2>4, <2>5
    <3> HIDE DEF all
    <3> QED BY <2>4, <3>2, <3>3
  <2>6. CASE e.name # name
    <3>1. all = o
      BY <2>6
    <3>2. \A w : Holds(g, name, w) <=> Holds(h, name, w)
      BY <2>4, <2>6
    <3> HIDE DEF all
    <3> QED BY <1>7, <2>4, <3>1, <3>2
  <2> QED BY <2>5, <2>6
<1> QED BY <1>5, <1>6

\* The controls that are of a form, after each of them.
LEMMA GetElementsSteps ==
    ASSUME NEW s \in Seq(Controls)
    PROVE  \E c \in [0..Len(s) -> Seq(Controls)] :
              /\ GetElements(s) = c[Len(s)]
              /\ c[0] = <<>>
              /\ \A i \in 1..Len(s) : c[i] = Pushed(c[i - 1], s[i], s[i].kind # "label")
<1> DEFINE test == {control \in ToSet(s) : control.kind # "label"}
<1>1. GetElements(s) = FindAll(test, s)
  BY DEF GetElements
<1>2. \A i \in 1..Len(s) : s[i] \in test <=> s[i].kind # "label"
  BY DEF ToSet
<1> HIDE DEF test
<1>3. PICK c \in [0..Len(s) -> Seq(Controls)] :
         /\ FindAll(test, s) = c[Len(s)]
         /\ c[0] = <<>>
         /\ \A i \in 1..Len(s) : c[i] = Pushed(c[i - 1], s[i], s[i] \in test)
  BY FindAllSteps
<1> QED BY <1>1, <1>2, <1>3 DEF Pushed

\* The hash of a form has for each name what the form offers for it.
LEMMA FormFollows ==
    ASSUME form \in Seq(Controls), NEW submit, ~ Nested(submit), NEW name, name # EmptyKey
    PROVE  LET g == AsHash(Serialized(GetElements(form), submit).pairs)
           IN  /\ g \in Hashes(Keys, Held)
               /\ \A k, w : Holds(g, k, w) => k # EmptyKey
               /\ Offered(name, submit) \in Seq(Entered)
               /\ Gives(g, name, Offered(name, submit))
<1> DEFINE N == Len(form)
           parts == [i \in 1..N |-> Share(i, name, submit)]
<1>1. N \in Nat /\ DOMAIN form = 1..N /\ \A n \in 1..N : form[n] \in Controls
  OBVIOUS
<1>3. PICK c \in [0..Len(form) -> Seq(Controls)] :
         /\ GetElements(form) = c[Len(form)]
         /\ c[0] = <<>>
         /\ \A i \in 1..Len(form) : c[i] = Pushed(c[i - 1], form[i], form[i].kind # "label")
  <2> HIDE DEF N, parts
  <2> QED BY GetElementsSteps
<1>4. parts \in Seq(Seq(Entered)) /\ Len(parts) = N /\ \A i \in 1..N : parts[i] = Share(i, name, submit)
  <2>1. \A i \in 1..N : Share(i, name, submit) \in Seq(Entered)
    BY PartIs
  <2> HIDE DEF N
  <2>2. parts \in [1..N -> Seq(Entered)]
    BY <2>1
  <2>3. parts \in Seq(Seq(Entered)) /\ Len(parts) = N
    BY <1>1, <2>2
  <2> QED BY <2>3
<1>5. Offered(name, submit) = Flatten(parts)
  <2>1. parts = [i \in DOMAIN form |-> IF form[i].name = name /\ Counts(i, submit)
                                        THEN Selected(form[i]) ELSE <<>>]
    BY <1>1 DEF Share
  <2> QED BY <2>1 DEF Offered
<1> HIDE DEF parts
<1>6. PICK o \in [0..Len(parts) -> Seq(Entered)] :
         /\ Flatten(parts) = o[Len(parts)]
         /\ o[0] = <<>>
         /\ \A i \in 1..Len(parts) : o[i] = Concat(o[i - 1], parts[i])
  BY <1>4, FlattenSteps
<1> DEFINE R(n) == Serialized(c[n], submit)
           H(n) == AsHash(R(n).pairs)
           Started(n) == /\ c[n] \in Seq(Elements)
                         /\ R(n) \in Serials
                         /\ R(n).submitted <=> Submits(n, submit)
           Known(n) == \A k, w : Holds(H(n), k, w) =>
                          k # EmptyKey /\ \E i \in 1..n : form[i].name = k /\ Counts(i, submit)
           Even(n) == H(n) \in Hashes(Keys, Held) /\ Gives(H(n), name, o[n])
           P == {n \in 0..N : Started(n) /\ Known(n) /\ Even(n)}
<1>7. 0 \in P
  <2>1. c[0] = <<>> /\ o[0] = <<>> /\ R(0) = [pairs |-> <<>>, submitted |-> FALSE] /\ H(0) = <<>>
    BY <1>3, <1>6, FormOfNone
  <2>2. ~ \E j \in 1..0 : TRUE
    OBVIOUS
  <2>3. H(0) \in Hashes(Keys, Held) /\ \A k, w : ~ Holds(H(0), k, w)
    <3> DEFINE u == H(0)
    <3>1. u = <<>> /\ u \in Seq(PairsOf(Keys, Held)) /\ Len(u) = 0
      BY <2>1
    <3> HIDE DEF u
    <3>2. u \in Hashes(Keys, Held) /\ \A k, w : ~ Holds(u, k, w)
      BY <2>2, <3>1 DEF Hashes, Distinct, Holds
    <3> QED BY <3>2 DEF u
  <2>4. Started(0)
    <3>1. R(0) \in Serials /\ R(0).submitted = FALSE
      <4> DEFINE start == [pairs |-> <<>>, submitted |-> FALSE]
      <4>1. start \in Serials /\ start.submitted = FALSE
        BY DEF Serials
      <4>2. R(0) = start
        BY <2>1
      <4> HIDE DEF R, start
      <4> QED BY <4>1, <4>2
    <3>2. ~ Submits(0, submit)
      BY <2>2 DEF Submits
    <3>3. c[0] \in Seq(Elements)
      BY <2>1
    <3> HIDE DEF R
    <3> QED BY <3>1, <3>2, <3>3
  <2> HIDE DEF H, Started
  <2> QED BY <1>1, <2>1, <2>3, <2>4 DEF Gives
<1>8. ASSUME NEW n \in 1..N, n - 1 \in P PROVE n \in P
  <2> DEFINE m == n - 1
             control == form[n]
             part == parts[n]
  <2>1. m \in 0..N /\ n \in 0..N /\ Started(m) /\ Known(m) /\ Even(m) /\ m \in Nat
    <3> HIDE DEF Started, Known, Even
    <3> QED BY <1>1, <1>8
  <2>2. control \in Controls
    BY <1>1
  <2>3. part = Share(n, name, submit) /\ part \in Seq(Entered)
    BY <1>4, PartIs
  <2>4. o[n] = o[m] \o part /\ o[m] \in Seq(Entered)
    <3>1. n \in 1..Len(parts) /\ m \in 0..Len(parts)
      BY <1>4, <2>1
    <3> QED BY <1>6, <3>1 DEF Concat
  <2>5. c[n] = IF control.kind # "label" THEN Append(c[m], control) ELSE c[m]
    BY <1>3 DEF Pushed
  <2>6. \A k : (\E i \in 1..m : form[i].name = k /\ Counts(i, submit))
                 => \E i \in 1..n : form[i].name = k /\ Counts(i, submit)
    <3>1. \A i \in 1..m : i \in 1..n
      BY <2>1
    <3> QED BY <3>1
  <2>7. ASSUME H(n) = H(m), part = <<>> PROVE Known(n) /\ Even(n)
    <3>1. o[n] = o[m]
      BY <2>4, <2>7
    <3> HIDE DEF H, m
    <3> QED BY <2>1, <2>6, <2>7, <3>1
  <2>8. CASE control.kind = "label"
    <3>1. c[n] = c[m] /\ part = <<>>
      BY <2>3, <2>5, <2>8, PartIs
    <3>2. Submits(n, submit) <=> Submits(m, submit)
      <4>1. ~ MaySubmit(control, submit)
        BY <2>8 DEF MaySubmit
      <4>2. /\ \A j \in 1..n : j \in 1..m \/ j = n
            /\ \A j \in 1..m : j \in 1..n
        BY <2>1
      <4> QED BY <4>1, <4>2 DEF Submits
    <3>3. Started(n) /\ H(n) = H(m)
      BY <2>1, <3>1, <3>2
    <3> HIDE DEF H, Started, Known, Even
    <3> QED BY <2>1, <2>7, <3>1, <3>3
  <2>9. CASE control.kind # "label"
    <3> DEFINE counts == Counts(n, submit) /\ control.name # EmptyKey /\ GetValue(control) # Null
               pair == [key |-> control.name, value |-> GetValue(control)]
    <3>1. control \in Elements /\ c[n] = Append(c[m], control) /\ c[m] \in Seq(Elements)
      BY <2>1, <2>2, <2>5, <2>9 DEF Elements
    <3>2. R(n) = Serialize(R(m), control, submit) /\ c[n] \in Seq(Elements)
      BY <3>1, SerializedAppended
    <3>3. R(n) \in Serials
      BY <2>1, <3>1, <3>2, SerializeTyped
    <3>4. /\ R(n).submitted <=> Submits(n, submit)
          /\ R(n).pairs = IF counts THEN Append(R(m).pairs, pair) ELSE R(m).pairs
      <4> DEFINE last == R(m)
                 new == R(n)
      <4>1. last \in Serials /\ (last.submitted <=> Submits(n - 1, submit)) /\ form[n] \in Elements
        BY <2>1, <3>1
      <4>2. new = Serialize(last, form[n], submit)
        BY <3>2
      <4> HIDE DEF last, new
      <4>3. /\ new.submitted <=> Submits(n, submit)
            /\ IF Counts(n, submit) /\ form[n].name # EmptyKey /\ GetValue(form[n]) # Null
                 THEN new.pairs = Append(last.pairs, [key |-> form[n].name, value |-> GetValue(form[n])])
                 ELSE new.pairs = last.pairs
        BY <4>1, <4>2, SerializeDoes
      <4>4. new.pairs = IF counts THEN Append(last.pairs, pair) ELSE last.pairs
        BY <4>3
      <4> QED BY <4>3, <4>4 DEF last, new
    <3>5. Started(n)
      BY <3>2, <3>3, <3>4
    <3>6. CASE ~ counts
      <4>1. H(n) = H(m)
        BY <3>4, <3>6
      <4>2. part = <<>>
        BY <2>3, <2>9, <3>6, PartIs DEF Share
      <4> HIDE DEF Started, Known, Even, H
      <4> QED BY <2>1, <2>7, <3>5, <4>1, <4>2
    <3>7. CASE counts
      <4>1. R(m).pairs \in Seq(FormPair) /\ pair \in FormPair
        <5>1. control.name \in Keys
          BY <3>1 DEF Elements, Controls
        <5> HIDE DEF R
        <5> QED BY <2>1, <3>1, <3>7, <5>1, ValueIs DEF Serials, FormPair, PairsOf
      <4>2. H(n) = Accumulate(H(m), pair)
        <5>1. R(n).pairs = Append(R(m).pairs, pair)
          BY <3>4, <3>7
        <5> HIDE DEF R, pair
        <5> QED BY <4>1, <5>1, AsHashAppended
      <4>3. part = IF control.name = name THEN Selected(control) ELSE <<>>
        BY <2>3, <3>7 DEF Share
      <4>4. (\E w : Holds(H(m), control.name, w)) => control.kind # "select-multiple"
        <5> SUFFICES ASSUME NEW w, Holds(H(m), control.name, w) PROVE control.kind # "select-multiple"
          OBVIOUS
        <5>1. PICK i \in 1..m : form[i].name = control.name /\ Counts(i, submit)
          <6> HIDE DEF H
          <6> QED BY <2>1
        <5>2. i \in 1..N /\ i < n
          BY <2>1
        <5> QED BY <1>1, <3>7, <5>1, <5>2 DEF Nested
      <4> HIDE DEF H, m, control, part
      <4>5. /\ H(n) \in Hashes(Keys, Held)
            /\ \A k, w : Holds(H(n), k, w) => k = control.name \/ Holds(H(m), k, w)
            /\ Gives(H(n), name, o[n])
        <5>1. /\ H(m) \in Hashes(Keys, Held) /\ Gives(H(m), name, o[m])
              /\ control \in Elements /\ GetValue(control) # Null
              /\ pair \in FormPair /\ pair.key = control.name /\ pair.value = GetValue(control)
          BY <2>1, <3>1, <3>7, <4>1
        <5>2. o[n] = IF control.name = name THEN o[m] \o Selected(control) ELSE o[m]
          <6>1. o[m] \o <<>> = o[m]
            BY <2>4
          <6>2. control.name # name => part = <<>>
            BY <4>3
          <6>3. control.name = name => part = Selected(control)
            BY <4>3
          <6> QED BY <2>4, <6>1, <6>2, <6>3
        <5> HIDE DEF pair
        <5>3. /\ Accumulate(H(m), pair) \in Hashes(Keys, Held)
              /\ \A k, w : Holds(Accumulate(H(m), pair), k, w) => k = control.name \/ Holds(H(m), k, w)
              /\ Gives(Accumulate(H(m), pair), name,
                       IF control.name = name THEN o[m] \o Selected(control) ELSE o[m])
          BY <2>4, <4>4, <5>1, AccumulateFollows
        <5> QED BY <4>2, <5>2, <5>3
      <4>6. Known(n)
        <5>1. n \in 1..n /\ form[n].name = control.name
          BY <2>1 DEF control
        <5> QED BY <2>1, <2>6, <3>7, <4>5, <5>1
      <4>7. Even(n)
        BY <2>4, <4>5
      <4> HIDE DEF Started, Known, Even
      <4> QED BY <2>1, <3>5, <4>6, <4>7
    <3> QED BY <3>6, <3>7
  <2> QED BY <2>8, <2>9
<1>9. P = 0..N
  <2>1. P \in SUBSET (0..N)
    OBVIOUS
  <2> HIDE DEF P, N
  <2>2. N \in Nat
    BY <1>1
  <2> QED BY <1>7, <1>8, <2>1, <2>2, Reached
<1>10. Known(N) /\ Even(N)
  <2>1. N \in P
    <3> HIDE DEF N, P
    <3> QED BY <1>1, <1>9
  <2> HIDE DEF Started, Known, Even
  <2> QED BY <2>1
<1>11. H(N) = AsHash(Serialized(GetElements(form), submit).pairs)
  BY <1>3
<1>12. Offered(name, submit) = o[N] /\ o[N] \in Seq(Entered)
  BY <1>1, <1>4, <1>5, <1>6
<1> HIDE DEF H, N
<1> QED BY <1>10, <1>11, <1>12

-----------------------------------------------------------------------------
(* What the server gets of a form *)

\* Texts of controls arrive as they are.
LEMMA ReceivedIs ==
    ASSUME NEW ts \in Seq(Entered)
    PROVE  Received(ts).values = ts
<1>1. \A i \in 1..Len(ts) : Text(ts[i]) = ts[i]
  <2>1. \A i \in 1..Len(ts) : ts[i] \in Entered
    OBVIOUS
  <2> QED BY <2>1, TextsAssumption DEF Text
<1>2. CASE Len(ts) = 1
  <2>1. Received(ts) = One(ts[1])
    BY <1>1, <1>2 DEF Received
  <2>2. ts = <<ts[1]>>
    BY <1>2, SingleIs
  <2> QED BY <2>1, <2>2 DEF One
<1>3. CASE Len(ts) # 1
  <2>1. [i \in DOMAIN ts |-> Text(ts[i])] = ts
    BY <1>1
  <2> QED BY <1>3, <2>1 DEF Received, Many
<1> QED BY <1>2, <1>3

\* The server gets for each name what the form offers.
LEMMA FormReceived ==
    ASSUME form \in Seq(Controls), NEW submit, ~ Nested(submit), NEW name \in Keys \ {EmptyKey}
    PROVE  LET received == ToQueryParams(RequestParameters(form, submit))
           IN  (IF name \in ToSet(HashKeys(received)) THEN HashGet(received, name).values ELSE <<>>)
                  = Offered(name, submit)
<1> DEFINE g == AsHash(Serialized(GetElements(form), submit).pairs)
           received == ToQueryParams(ToQueryString(g))
<1>1. RequestParameters(form, submit) = ToQueryString(g)
  BY DEF RequestParameters, SerializeElements, Serialized
<1>2. /\ g \in Hashes(Keys, Held)
      /\ \A k, w : Holds(g, k, w) => k # EmptyKey
      /\ \A k \in Keys \ {EmptyKey} : Offered(k, submit) \in Seq(Entered) /\ Gives(g, k, Offered(k, submit))
  BY FormFollows
<1> HIDE DEF g
<1>3. \A i \in 1..Len(g) : /\ g[i].key \in Keys \ {EmptyKey}
                           /\ g[i].value.values = Offered(g[i].key, submit)
                           /\ g[i] \in PairsOf(Keys, Held)
  <2> SUFFICES ASSUME NEW i \in 1..Len(g)
               PROVE  /\ g[i].key \in Keys \ {EmptyKey}
                      /\ g[i].value.values = Offered(g[i].key, submit)
                      /\ g[i] \in PairsOf(Keys, Held)
    OBVIOUS
  <2>1. g[i] \in PairsOf(Keys, Held)
    BY <1>2 DEF Hashes
  <2>2. Holds(g, g[i].key, g[i].value)
    BY DEF Holds
  <2>3. g[i].key \in Keys \ {EmptyKey}
    BY <1>2, <2>1, <2>2 DEF PairsOf
  <2>4. Gives(g, g[i].key, Offered(g[i].key, submit))
    BY <1>2, <2>3
  <2> QED BY <2>1, <2>2, <2>3, <2>4 DEF Gives
<1>4. g \in Hashes(Keys, Lists)
  <2>1. \A i \in 1..Len(g) : g[i] \in PairsOf(Keys, Lists)
    <3> SUFFICES ASSUME NEW i \in 1..Len(g) PROVE g[i] \in PairsOf(Keys, Lists)
      OBVIOUS
    <3>1. g[i].value.values \in Seq(Entered)
      BY <1>2, <1>3
    <3>2. g[i].value.values \in Seq(Contents)
      BY <3>1 DEF Contents
    <3>3. g[i].value \in Held
      BY <1>3 DEF PairsOf
    <3>4. g[i].value \in Lists
      BY <3>2, <3>3 DEF Held, Lists
    <3> QED BY <1>3, <3>4 DEF PairsOf
  <2>2. g \in Seq(PairsOf(Keys, Held)) /\ Distinct(g)
    BY <1>2 DEF Hashes
  <2>3. g \in Seq(PairsOf(Keys, Lists))
    BY <2>1, <2>2
  <2> QED BY <2>2, <2>3 DEF Hashes
<1>5. /\ received \in Parsings
      /\ \A k, w : Holds(received, k, w)
             <=> /\ k # EmptyKey
                 /\ \E j \in 1..Len(g) : /\ g[j].key = k
                                         /\ g[j].value.values # <<>>
                                         /\ w = Received(g[j].value.values)
  BY <1>4, HashCarried
<1> HIDE DEF received
<1>6. \A w : Holds(received, name, w) => w.values = Offered(name, submit)
  <2> SUFFICES ASSUME NEW w, Holds(received, name, w) PROVE w.values = Offered(name, submit)
    OBVIOUS
  <2>1. PICK j \in 1..Len(g) : g[j].key = name /\ w = Received(g[j].value.values)
    BY <1>5
  <2> QED BY <1>2, <1>3, <2>1, ReceivedIs
<1>7. (\A w : ~ Holds(received, name, w)) => Offered(name, submit) = <<>>
  <2> SUFFICES ASSUME \A w : ~ Holds(received, name, w), Offered(name, submit) # <<>> PROVE FALSE
    OBVIOUS
  <2>1. PICK w : Holds(g, name, w)
    BY <1>2 DEF Gives
  <2>2. PICK j \in 1..Len(g) : g[j].key = name
    BY <2>1 DEF Holds
  <2>3. g[j].value.values # <<>>
    BY <1>3, <2>2
  <2> QED BY <1>5, <2>2, <2>3
<1>8. received \in Seq(PairsOf(Keys, Arrived)) /\ received \in Hashes(Keys, Arrived)
  BY <1>5 DEF Parsings, Hashes
<1>9. name \in ToSet(HashKeys(received)) <=> \E w : Holds(received, name, w)
  <2>1. name \in ToSet(HashKeys(received)) <=> \E i \in 1..Len(received) : received[i].key = name
    BY <1>8, HashKeysAre
  <2> QED BY <2>1 DEF Holds
<1>10. CASE name \in ToSet(HashKeys(received))
  <2>1. PICK w : Holds(received, name, w)
    BY <1>9, <1>10
  <2>2. HashGet(received, name) = w
    BY <1>8, <2>1, HashGetGives
  <2> QED BY <1>1, <1>6, <1>10, <2>1, <2>2 DEF received
<1>11. CASE name \notin ToSet(HashKeys(received))
  BY <1>1, <1>7, <1>9, <1>11 DEF received
<1> QED BY <1>10, <1>11

\* Controls that are not lists of several, and what is sent of them.
Singles == {e \in Elements : e.kind # "select-multiple"}
SinglePair == PairsOf(Keys \ {EmptyKey}, {One(t) : t \in Entered})

\* What such a form sends are single values under names.
LEMMA SinglesSent ==
    ASSUME form \in Seq(Controls), \A i \in DOMAIN form : form[i].kind # "select-multiple", NEW submit
    PROVE  Serialized(GetElements(form), submit).pairs \in Seq(SinglePair)
<1>1. GetElements(form) \in Seq(Singles)
  <2>1. PICK c \in [0..Len(form) -> Seq(Controls)] :
           /\ GetElements(form) = c[Len(form)]
           /\ c[0] = <<>>
           /\ \A i \in 1..Len(form) : c[i] = Pushed(c[i - 1], form[i], form[i].kind # "label")
    BY GetElementsSteps
  <2> DEFINE R == Seq(Singles)
             N == Len(form)
  <2>2. N \in Nat /\ c[0] \in R
    BY <2>1
  <2>3. ASSUME NEW i \in 1..N, c[i - 1] \in R PROVE c[i] \in R
    <3>1. form[i] \in Controls /\ form[i].kind # "select-multiple"
      OBVIOUS
    <3>2. form[i].kind # "label" => form[i] \in Singles
      BY <3>1 DEF Singles, Elements
    <3>3. c[i] = IF form[i].kind # "label" THEN Append(c[i - 1], form[i]) ELSE c[i - 1]
      BY <2>1 DEF Pushed
    <3> QED BY <2>3, <3>2, <3>3
  <2> HIDE DEF R, N
  <2>4. \A i \in 0..N : c[i] \in R
    BY <2>2, <2>3, StaysIn
  <2> QED BY <2>1, <2>2, <2>4 DEF R, N
<1> DEFINE s == GetElements(form)
           R == [pairs : Seq(SinglePair), submitted : BOOLEAN]
           N == Len(s)
<1>2. s \in Seq(Elements) /\ N \in Nat /\ \A i \in 1..N : s[i] \in Singles
  <2> HIDE DEF s
  <2>1. s \in Seq(Singles)
    BY <1>1 DEF s
  <2>2. s \in Seq(Elements)
    BY <2>1 DEF Singles
  <2> QED BY <2>1, <2>2
<1> HIDE DEF s, N
<1>3. PICK d \in [0..Len(s) -> Serials] :
         /\ Serialized(s, submit) = d[Len(s)]
         /\ d[0] = [pairs |-> <<>>, submitted |-> FALSE]
         /\ \A i \in 1..Len(s) : d[i] = Serialize(d[i - 1], s[i], submit)
  BY <1>2, SerializedSteps
<1>4. d[0] \in R
  <2>1. [pairs |-> <<>>, submitted |-> FALSE] \in R
    OBVIOUS
  <2> HIDE DEF R
  <2> QED BY <1>3, <2>1
<1>5. ASSUME NEW i \in 1..N, d[i - 1] \in R PROVE d[i] \in R
  <2> DEFINE r == d[i - 1]
             e == s[i]
             pair == [key |-> e.name, value |-> GetValue(e)]
             submits == e.kind = "submit" /\ ~ r.submitted /\ submit \in {Undefined, e.name}
             yes == r.submitted \/ submits
             counts == /\ ~ e.disabled /\ e.name # EmptyKey
                       /\ GetValue(e) # Null /\ e.kind # "file"
                       /\ e.kind = "submit" => submits
  <2>1. d[i] = Serialize(r, e, submit)
    BY <1>3 DEF N
  <2>2. CASE ~ counts
    <3>1. d[i] = r
      BY <2>1, <2>2 DEF Serialize
    <3> QED BY <1>5, <3>1
  <2>3. CASE counts
    <3>1. d[i] = [pairs |-> Append(r.pairs, pair), submitted |-> yes]
      BY <2>1, <2>3 DEF Serialize
    <3>2. e \in Elements /\ e.kind # "select-multiple" /\ e.name \in Keys
      BY <1>2 DEF Singles, Elements, Controls
    <3>3. pair \in SinglePair
      <4>1. \E t \in Entered : GetValue(e) = One(t)
        <5> HIDE DEF e
        <5> QED BY <2>3, <3>2, ValueIs
      <4> QED BY <2>3, <3>2, <4>1 DEF SinglePair, PairsOf
    <3>4. yes \in BOOLEAN /\ r.pairs \in Seq(SinglePair)
      BY <1>5
    <3> HIDE DEF pair, yes, r
    <3>5. Append(r.pairs, pair) \in Seq(SinglePair)
      BY <3>3, <3>4
    <3> QED BY <3>1, <3>4, <3>5
  <2> QED BY <2>2, <2>3
<1> HIDE DEF R
<1>6. \A i \in 0..N : d[i] \in R
  BY <1>2, <1>4, <1>5, StaysIn
<1>7. d[Len(s)] \in R
  BY <1>2, <1>6 DEF N
<1> QED BY <1>3, <1>7 DEF R, s

\* Single values make the same parameters as a string and as a hash.
LEMMA SameParameters ==
    ASSUME NEW q \in Seq(SinglePair)
    PROVE  ToQueryParams(AsString(q)) = AsHash(q)
<1> DEFINE s == AsString(q)
           N == Len(q)
<1>1. N \in Nat /\ DOMAIN q = 1..N /\ q \in Seq(FormPair)
  <2>1. SinglePair \subseteq FormPair
    BY DEF SinglePair, FormPair, PairsOf, FormValues
  <2> QED BY <2>1
<1>2. ASSUME NEW i \in 1..N
      PROVE  /\ q[i].key \in Keys \ {EmptyKey}
             /\ \E t \in Entered : q[i].value = One(t) /\ AsText(q[i].value) = t
  <2>1. q[i] \in SinglePair
    OBVIOUS
  <2>2. PICK t \in Entered : q[i].value = One(t)
    BY <2>1 DEF SinglePair, PairsOf
  <2>3. AsText(One(t)) = t
    BY DEF AsText, One
  <2> QED BY <2>1, <2>2, <2>3 DEF SinglePair, PairsOf
<1>3. /\ s \in Seq(SentPair) /\ Len(s) = N
      /\ \A i \in 1..N : s[i].key = q[i].key /\ s[i].text = AsText(q[i].value)
  <2>1. s = [i \in 1..N |-> [key |-> q[i].key, text |-> AsText(q[i].value)]]
    BY <1>1 DEF AsString
  <2>2. \A t \in Entered : t \in SentTexts
    <3>1. \A t \in Entered : Text(t) = t
      BY TextsAssumption DEF Text
    <3> QED BY <3>1 DEF SentTexts, Contents
  <2>3. \A i \in 1..N : [key |-> q[i].key, text |-> AsText(q[i].value)] \in SentPair
    BY <1>2, <2>2 DEF SentPair
  <2> HIDE DEF s, N
  <2>4. s \in [1..N -> SentPair]
    BY <2>1, <2>3
  <2>5. s \in Seq(SentPair) /\ Len(s) = N
    BY <1>1, <2>4
  <2> QED BY <2>1, <2>5
<1> HIDE DEF s, N
<1>4. PICK c \in [0..Len(q) -> Hashes(Keys, Held)] :
         /\ AsHash(q) = c[Len(q)]
         /\ c[0] = <<>>
         /\ \A i \in 1..Len(q) : c[i] = Accumulate(c[i - 1], q[i])
  BY <1>1, AsHashSteps
<1>5. PICK d \in [0..Len(s) -> Parsings] :
         /\ ToQueryParams(s) = d[Len(s)]
         /\ d[0] = <<>>
         /\ \A i \in 1..Len(s) : d[i] = Parsed(d[i - 1], s[i])
  BY <1>3, QueryParamsSteps
<1>6. ASSUME NEW i \in 1..N, NEW h PROVE Accumulate(h, q[i]) = Parsed(h, s[i])
  <2>1. PICK t \in Entered : q[i].value = One(t) /\ AsText(q[i].value) = t
    BY <1>2
  <2>2. s[i].key = q[i].key /\ s[i].text = t /\ s[i].key # EmptyKey
    BY <1>2, <1>3, <2>1
  <2> QED BY <2>1, <2>2 DEF Accumulate, Parsed
<1> DEFINE P == {i \in 0..N : c[i] = d[i]}
<1>7. /\ P \in SUBSET (0..N) /\ 0 \in P
      /\ \A i \in 1..N : i - 1 \in P => i \in P
  <2>1. 0 \in P
    <3>1. c[0] = d[0] /\ 0 \in 0..N
      BY <1>1, <1>4, <1>5
    <3> QED BY <3>1
  <2>2. ASSUME NEW i \in 1..N, i - 1 \in P PROVE i \in P
    <3>1. i \in 0..N /\ c[i - 1] = d[i - 1]
      BY <1>1, <2>2
    <3>2. c[i] = Accumulate(c[i - 1], q[i])
      BY <1>4 DEF N
    <3>3. d[i] = Parsed(d[i - 1], s[i])
      BY <1>3, <1>5
    <3> QED BY <1>6, <3>1, <3>2, <3>3
  <2> QED BY <2>1, <2>2
<1> HIDE DEF P
<1>8. N \in P
  <2>1. P = 0..N
    BY <1>1, <1>7, Reached
  <2> QED BY <1>1, <2>1
<1>9. c[N] = d[N]
  BY <1>8 DEF P
<1> QED BY <1>3, <1>4, <1>5, <1>9 DEF N, s

\* A control sends the same on its own as in a form.
LEMMA OneControl ==
    ASSUME NEW e \in Elements, e.kind # "file"
    PROVE  SerializeElement(e) = RequestParameters(<<e>>, Undefined)
<1> DEFINE none == <<>>
           form1 == <<e>>
           start == [pairs |-> <<>>, submitted |-> FALSE]
           pair == [key |-> e.name, value |-> GetValue(e)]
           sent == ~ e.disabled /\ e.name # EmptyKey /\ GetValue(e) # Null
<1>1. /\ none \in Seq(Elements) /\ none \in Seq(FormPair) /\ none \in Seq(PairsOf(Keys, Lists)) /\ Len(none) = 0
      /\ form1 = Append(none, e) /\ <<pair>> = Append(none, pair)
      /\ form1 \in Seq(Controls) /\ Len(form1) = 1 /\ form1[1] = e
  BY DEF Elements
<1>2. GetElements(form1) = form1
  <2>1. form1 \in Seq(Controls)
    BY <1>1
  <2> HIDE DEF form1
  <2>2. PICK c \in [0..Len(form1) -> Seq(Controls)] :
           /\ GetElements(form1) = c[Len(form1)]
           /\ c[0] = <<>>
           /\ \A i \in 1..Len(form1) : c[i] = Pushed(c[i - 1], form1[i], form1[i].kind # "label")
    BY <2>1, GetElementsSteps
  <2>3. e.kind # "label"
    BY DEF Elements
  <2>4. 1 \in 1..Len(form1)
    BY <1>1
  <2>5. c[1] = Pushed(c[0], e, TRUE)
    <3>1. c[1] = Pushed(c[1 - 1], form1[1], form1[1].kind # "label")
      BY <2>2, <2>4
    <3>2. c[1 - 1] = c[0]
      OBVIOUS
    <3>3. (e.kind # "label") = TRUE
      BY <2>3
    <3> QED BY <1>1, <3>1, <3>2, <3>3
  <2>6. GetElements(form1) = Append(none, e)
    BY <1>1, <2>2, <2>5 DEF Pushed
  <2> QED BY <1>1, <2>6
<1>3. Serialized(form1, Undefined) = Serialize(start, e, Undefined)
  <2>1. Serialized(none, Undefined) = start
    BY FormOfNone
  <2> HIDE DEF none, form1, start
  <2>2. Serialized(Append(none, e), Undefined) = Serialize(Serialized(none, Undefined), e, Undefined)
    BY <1>1, SerializedAppended
  <2> QED BY <1>1, <2>1, <2>2
<1>4. RequestParameters(form1, Undefined) = ToQueryString(AsHash(Serialize(start, e, Undefined).pairs))
  <2> HIDE DEF form1, start
  <2> QED BY <1>2, <1>3 DEF RequestParameters, SerializeElements, Serialized
<1>5. Serialize(start, e, Undefined).pairs = IF sent THEN Append(none, pair) ELSE none
  BY DEF Serialize
<1>6. AsHash(none) = none
  BY FormOfNone
<1>7. CASE ~ sent
  <2>1. SerializeElement(e) = none
    BY <1>7 DEF SerializeElement
  <2>2. ToQueryString(none) = none
    <3> HIDE DEF none
    <3>1. PICK c \in [0..Len(none) -> Seq(SentPair)] : ToQueryString(none) = c[Len(none)] /\ c[0] = <<>>
      BY <1>1, QueryStringSteps
    <3> QED BY <1>1, <3>1 DEF none
  <2> HIDE DEF none, start, form1
  <2> QED BY <1>4, <1>5, <1>6, <1>7, <2>1, <2>2 DEF form1
<1>8. CASE sent
  <2>1. SerializeElement(e) = ToQueryString(Append(none, pair))
    BY <1>1, <1>8 DEF SerializeElement
  <2>2. pair \in FormPair
    <3>1. e.name \in Keys
      BY DEF Elements, Controls
    <3> QED BY <1>8, <3>1, ValueIs DEF FormPair, PairsOf
  <2>3. Accumulate(none, pair) = Append(none, pair)
    <3>1. ~ \E i \in DOMAIN none : none[i].key = pair.key
      BY <1>1
    <3> HIDE DEF none
    <3>2. Accumulate(none, pair) = HashSet(none, pair.key, pair.value)
      BY <3>1 DEF Accumulate
    <3>3. HashSet(none, pair.key, pair.value) = Append(none, pair)
      BY <3>1 DEF HashSet
    <3> QED BY <3>2, <3>3
  <2> HIDE DEF none, start, form1, pair
  <2>4. AsHash(Append(none, pair)) = Append(none, pair)
    BY <1>1, <1>6, <2>2, <2>3, AsHashAppended
  <2> QED BY <1>4, <1>5, <1>8, <2>1, <2>4 DEF form1
<1> QED BY <1>7, <1>8

\* An array includes a text if it is one of its values.
LEMMA IncludeText ==
    ASSUME NEW ts \in Seq(Entered), NEW t \in Entered
    PROVE  Include(ts, t) <=> \E m \in 1..Len(ts) : ts[m] = t
<1>1. \A m \in 1..Len(ts) : ts[m] \in Entered
  OBVIOUS
<1>2. \A m \in 1..Len(ts) : LooselyEqual(ts[m], t) <=> ts[m] = t
  BY <1>1, TextsAssumption DEF LooselyEqual
<1>3. IndexOf(ts, t, 0) # -1 => \E m \in 1..Len(ts) : ts[m] = t
  <2> DEFINE at == {k \in StartIndex(ts, 0)..Len(ts) - 1 : ts[k + 1] = t}
  <2>1. IndexOf(ts, t, 0) # -1 => at # {}
    BY DEF IndexOf
  <2>2. StartIndex(ts, 0) = 0
    BY DEF StartIndex
  <2>3. ASSUME NEW k \in at PROVE \E m \in 1..Len(ts) : ts[m] = t
    <3>1. k + 1 \in 1..Len(ts) /\ ts[k + 1] = t
      BY <2>2
    <3> QED BY <3>1
  <2> QED BY <2>1, <2>3
<1>4. DOMAIN ts = 1..Len(ts)
  OBVIOUS
<1> QED BY <1>2, <1>3, <1>4 DEF Include

\* The least of one number.
LEMMA MinOne ==
    ASSUME NEW k \in Nat
    PROVE  Min({k}) = k
  BY DEF Min

\* A control that is set to what it holds stays as it is, but for the checkbox of an empty text.
LEMMA SetBack ==
    ASSUME NEW e \in Elements, ~ (e.kind = "checkbox" /\ e.texts[1] = EmptyText)
    PROVE  SetValue(e, GetValue(e)) = e
<1> DEFINE v == GetValue(e)
           N == Len(e.texts)
           at == {i \in DOMAIN e.texts : v = One(e.texts[i])}
<1>1. /\ e \in [name : Keys, kind : ControlKinds, disabled : BOOLEAN,
                texts : Seq(Entered), chosen : SUBSET Nat]
      /\ Proper(e) /\ e \in Controls /\ e.kind # "label"
  BY DEF Elements, Controls
<1>2. /\ e.texts \in Seq(Entered) /\ DOMAIN e.texts = 1..N /\ N \in Nat
      /\ \A i \in 1..N : e.texts[i] \in Entered
  BY <1>1
<1>3. e.chosen \subseteq 1..N
  BY <1>1, <1>2 DEF Proper
<1>4. /\ Selected(e) \in Seq(Entered)
      /\ \A t : (\E m \in 1..Len(Selected(e)) : Selected(e)[m] = t)
                  <=> \E i \in e.chosen : e.texts[i] = t
  BY <1>1, SelectedIs
<1>5. /\ v = Null => Selected(e) = <<>>
      /\ v # Null /\ e.kind # "select-multiple" =>
            \E t \in Entered : v = One(t) /\ Selected(e) = <<t>>
  BY ValueIs
<1>6. \A t, u : One(t) = One(u) => t = u
  <2>1. \A t : One(t).values[1] = t
    BY DEF One
  <2> QED BY <2>1
<1>7. \A t \in Entered : One(t) # Null
  <2>1. \A t \in Entered : <<t>> \in Seq(Entered)
    OBVIOUS
  <2>2. \A t \in Entered : One(t) \in [isArray : BOOLEAN, values : Seq(Entered)]
    BY <2>1 DEF One
  <2> QED BY <2>2, TextsAssumption
<1>8. v = Null => e.chosen = {}
  <2> SUFFICES ASSUME v = Null, NEW i \in e.chosen PROVE FALSE
    OBVIOUS
  <2>1. \E m \in 1..Len(Selected(e)) : Selected(e)[m] = e.texts[i]
    BY <1>4
  <2>2. Len(Selected(e)) = 0
    BY <1>5
  <2> QED BY <2>1, <2>2
<1>9. ASSUME NEW t \in Entered, v = One(t), Selected(e) = <<t>>
      PROVE  (\E k \in e.chosen : e.texts[k] = t) /\ \A k \in e.chosen : e.texts[k] = t
  <2> DEFINE u == Selected(e)
  <2>1. u = <<t>> /\ Len(u) = 1 /\ u[1] = t
    BY <1>9
  <2> HIDE DEF u
  <2>2. \A x : (\E m \in 1..Len(u) : u[m] = x) <=> x = t
    <3>1. 1 \in 1..Len(u) /\ \A m \in 1..Len(u) : m = 1
      BY <2>1
    <3> QED BY <2>1, <3>1
  <2> QED BY <1>4, <2>2 DEF u
<1> DEFINE Choose(chosen) == [e EXCEPT !.chosen = chosen]
           Hold(texts) == [e EXCEPT !.texts = texts]
<1>10. Choose(e.chosen) = e /\ Hold(e.texts) = e
  BY <1>1
<1>11. at = {i \in 1..N : v = One(e.texts[i])}
  BY <1>2
<1> SUFFICES SetValue(e, v) = e
  OBVIOUS
<1> HIDE DEF v
<1>12. CASE e.kind = "checkbox"
  <2>1. SetValue(e, v) = Choose(IF v \in {Null, One(EmptyText)} THEN {} ELSE {1})
    BY <1>12 DEF SetValue
  <2> HIDE DEF Choose
  <2>2. N = 1 /\ e.texts[1] # EmptyText
    BY <1>1, <1>12 DEF Proper
  <2>3. CASE v = Null
    BY <1>8, <1>10, <2>1, <2>3
  <2>4. CASE v # Null
    <3>1. PICK t \in Entered : v = One(t) /\ Selected(e) = <<t>>
      BY <1>5, <1>12, <2>4
    <3>2. e.chosen = {1} /\ e.texts[1] = t
      <4>1. PICK k \in e.chosen : e.texts[k] = t
        BY <1>9, <3>1
      <4>2. \A i \in e.chosen : i = 1
        BY <1>3, <2>2
      <4> QED BY <4>1, <4>2
    <3>3. v # One(EmptyText)
      BY <1>6, <2>2, <3>1, <3>2
    <3> QED BY <1>10, <2>1, <2>4, <3>2, <3>3
  <2> QED BY <2>3, <2>4
<1>13. CASE e.kind = "select-one"
  <2>1. SetValue(e, v) = Choose(IF at = {} THEN e.chosen ELSE {Min(at)})
    BY <1>13 DEF SetValue
  <2> HIDE DEF Choose
  <2>2. CASE v = Null
    <3>1. at = {}
      BY <1>2, <1>7, <1>11, <2>2
    <3> QED BY <1>10, <2>1, <3>1
  <2>3. CASE v # Null
    <3>1. PICK t \in Entered : v = One(t) /\ Selected(e) = <<t>>
      BY <1>5, <1>13, <2>3
    <3>2. PICK k \in e.chosen : e.texts[k] = t
      BY <1>9, <3>1
    <3>3. e.chosen = {k}
      BY <1>1, <1>13 DEF Proper
    <3>4. at = {k}
      <4>1. k \in 1..N
        BY <1>3
      <4>2. \A i \in 1..N : e.texts[i] = e.texts[k] => i = k
        BY <1>1, <1>2, <1>13, <4>1 DEF Proper
      <4> QED BY <1>6, <1>11, <3>1, <3>2, <4>1, <4>2
    <3>5. Min(at) = k
      <4>1. k \in Nat
        BY <1>1
      <4> HIDE DEF at
      <4> QED BY <3>4, <4>1, MinOne
    <3> QED BY <1>10, <2>1, <3>3, <3>4, <3>5
  <2> QED BY <2>2, <2>3
<1>14. CASE e.kind = "select-multiple"
  <2>1. SetValue(e, v) =
          Choose(IF v # Null /\ v.isArray
                   THEN {i \in DOMAIN e.texts : Include(v.values, e.texts[i])}
                   ELSE IF at = {} THEN e.chosen ELSE e.chosen \union {Min(at)})
    BY <1>14 DEF SetValue
  <2> HIDE DEF Choose
  <2>2. CASE v = Null
    <3>1. at = {}
      BY <1>2, <1>7, <1>11, <2>2
    <3> QED BY <1>10, <2>1, <2>2, <3>1
  <2>3. CASE v # Null
    <3>1. v = Many(Selected(e))
      BY <1>14, <2>3 DEF v, GetValue
    <3>2. v.isArray = TRUE /\ v.values = Selected(e)
      BY <3>1 DEF Many
    <3>3. {i \in DOMAIN e.texts : Include(v.values, e.texts[i])} = e.chosen
      <4>1. \A i \in 1..N : Include(Selected(e), e.texts[i]) <=> \E k \in e.chosen : e.texts[k] = e.texts[i]
        BY <1>2, <1>4, IncludeText
      <4>2. \A i \in 1..N, k \in e.chosen : e.texts[k] = e.texts[i] => k = i
        BY <1>1, <1>2, <1>3, <1>14 DEF Proper
      <4> QED BY <1>2, <1>3, <3>2, <4>1, <4>2
    <3> QED BY <1>10, <2>1, <2>3, <3>2, <3>3
  <2> QED BY <2>2, <2>3
<1>15. CASE e.kind \notin {"checkbox", "select-one", "select-multiple"}
  <2>1. SetValue(e, v) = Hold(v.values)
    BY <1>15 DEF SetValue
  <2> HIDE DEF Hold
  <2>2. e.chosen = {1} /\ N = 1
    BY <1>1, <1>15 DEF Proper, ControlKinds
  <2>3. PICK t \in Entered : v = One(t) /\ Selected(e) = <<t>>
    BY <1>5, <1>8, <1>15, <2>2
  <2>4. e.texts[1] = t
    BY <1>9, <2>2, <2>3
  <2>5. v.values = e.texts
    <3>1. v.values = <<t>>
      BY <2>3 DEF One
    <3>2. e.texts = <<e.texts[1]>>
      BY <1>2, <2>2, SingleIs
    <3> QED BY <2>4, <3>1, <3>2
  <2> QED BY <1>10, <2>1, <2>5
<1> QED BY <1>12, <1>13, <1>14, <1>15

\* The elements of a finite set that has one at most are all equal.
LEMMA OneAtMost ==
    ASSUME NEW S, IsFiniteSet(S), Cardinality(S) <= 1, NEW x \in S, NEW y \in S
    PROVE  x = y
<1> SUFFICES ASSUME x # y PROVE FALSE
  OBVIOUS
<1> DEFINE Rest == S \ {x}
<1>1. /\ IsFiniteSet(Rest) /\ Cardinality(Rest) = Cardinality(S) - 1
      /\ Cardinality(S) \in Nat
  BY FS_RemoveElement, FS_CardinalityType
<1>2. y \in Rest
  OBVIOUS
<1> HIDE DEF Rest
<1>3. Cardinality(Rest) \in Nat /\ Cardinality(Rest) # 0
  BY <1>1, <1>2, FS_CardinalityType, FS_EmptySet
<1> QED BY <1>1, <1>3

\* The least number of a set is in it.
LEMMA MinIn ==
    ASSUME NEW T \in SUBSET Nat, T # {}
    PROVE  Min(T) \in T
<1>1. \E x \in T : \A y \in T : x <= y
  BY LeastNumber
<1> QED BY <1>1 DEF Min

\* A control stays one when its texts are chosen, when a text is entered, and when it is able.
LEMMA ControlStays ==
    ASSUME NEW e \in Controls
    PROVE  /\ \A chosen \in SUBSET DOMAIN e.texts :
                 /\ e.kind \in {"checkbox", "select-one", "select-multiple"}
                 /\ e.kind = "select-one" => \A i, j \in chosen : i = j
                 => [e EXCEPT !.chosen = chosen] \in Controls
           /\ \A t \in Entered :
                 e.kind \in {"text", "checkbox", "submit"} => [e EXCEPT !.texts = <<t>>] \in Controls
           /\ \A disabled \in BOOLEAN : [e EXCEPT !.disabled = disabled] \in Controls
<1> DEFINE Records == [name : Keys, kind : ControlKinds, disabled : BOOLEAN,
                       texts : Seq(Entered), chosen : SUBSET Nat]
<1>1. e \in Records /\ Proper(e)
  BY DEF Controls
<1>2. ASSUME NEW chosen \in SUBSET DOMAIN e.texts,
             e.kind \in {"checkbox", "select-one", "select-multiple"},
             e.kind = "select-one" => \A i, j \in chosen : i = j
      PROVE  [e EXCEPT !.chosen = chosen] \in Controls
  <2> DEFINE f == [e EXCEPT !.chosen = chosen]
  <2>1. chosen \in SUBSET Nat
    BY <1>1
  <2>2. f \in Records /\ f.kind = e.kind /\ f.texts = e.texts /\ f.chosen = chosen
    BY <1>1, <2>1
  <2> HIDE DEF f
  <2>3. Proper(f)
    BY <1>1, <1>2, <2>2 DEF Proper
  <2> QED BY <2>2, <2>3 DEF Controls, f
<1>3. ASSUME NEW t \in Entered, e.kind \in {"text", "checkbox", "submit"}
      PROVE  [e EXCEPT !.texts = <<t>>] \in Controls
  <2> DEFINE one == <<t>>
             f == [e EXCEPT !.texts = one]
  <2>1. one \in Seq(Entered) /\ Len(one) = 1 /\ DOMAIN one = 1..1
    OBVIOUS
  <2>2. Len(e.texts) = 1 /\ DOMAIN e.texts = 1..1
    BY <1>1, <1>3 DEF Proper
  <2> HIDE DEF one
  <2>3. f \in Records /\ f.kind = e.kind /\ f.texts = one /\ f.chosen = e.chosen
    BY <1>1, <2>1
  <2> HIDE DEF f
  <2>4. Proper(f)
    BY <1>1, <1>3, <2>1, <2>2, <2>3 DEF Proper
  <2> QED BY <2>3, <2>4 DEF Controls, f, one
<1>4. ASSUME NEW disabled \in BOOLEAN
      PROVE  [e EXCEPT !.disabled = disabled] \in Controls
  <2> DEFINE f == [e EXCEPT !.disabled = disabled]
  <2>1. f \in Records /\ f.kind = e.kind /\ f.texts = e.texts /\ f.chosen = e.chosen
    BY <1>1
  <2> HIDE DEF f
  <2>2. Proper(f)
    BY <1>1, <2>1 DEF Proper
  <2> QED BY <2>1, <2>2 DEF Controls, f
<1> QED BY <1>2, <1>3, <1>4

\* A control stays one when a script sets it to a text.
LEMMA SetStays ==
    ASSUME NEW e \in Controls, e.kind \notin {"label", "file"}, NEW t \in Texts
    PROVE  SetValue(e, One(t)) \in Controls
<1> DEFINE v == One(t)
           at == {i \in DOMAIN e.texts : v = One(e.texts[i])}
           Choose(chosen) == [e EXCEPT !.chosen = chosen]
           Hold(texts) == [e EXCEPT !.texts = texts]
<1>1. v.isArray = FALSE /\ v.values = <<t>>
  BY DEF One
<1>2. /\ e.kind \in ControlKinds /\ e.chosen \subseteq DOMAIN e.texts /\ Proper(e)
      /\ DOMAIN e.texts \subseteq Nat
  BY DEF Controls, Proper
<1>3. at \subseteq DOMAIN e.texts
  OBVIOUS
<1>4. at # {} => Min(at) \in DOMAIN e.texts
  <2> HIDE DEF at
  <2>1. at \in SUBSET Nat
    BY <1>2, <1>3
  <2> QED BY <1>3, <2>1, MinIn
<1>5. \A chosen \in SUBSET DOMAIN e.texts :
         /\ e.kind \in {"checkbox", "select-one", "select-multiple"}
         /\ e.kind = "select-one" => \A i, j \in chosen : i = j
         => Choose(chosen) \in Controls
  BY ControlStays
<1>6. e.kind \in {"text", "checkbox", "submit"} => Hold(<<t>>) \in Controls
  <2>1. t \in Entered
    BY DEF Entered
  <2> QED BY <2>1, ControlStays
<1>7. /\ e.kind = "checkbox" =>
            SetValue(e, v) = Choose(IF v \in {Null, One(EmptyText)} THEN {} ELSE {1})
      /\ e.kind = "select-one" => SetValue(e, v) = Choose(IF at = {} THEN e.chosen ELSE {Min(at)})
      /\ e.kind = "select-multiple" =>
            SetValue(e, v) =
               Choose(IF v # Null /\ v.isArray
                        THEN {i \in DOMAIN e.texts : Include(v.values, e.texts[i])}
                        ELSE IF at = {} THEN e.chosen ELSE e.chosen \union {Min(at)})
      /\ e.kind \notin {"checkbox", "select-one", "select-multiple"} => SetValue(e, v) = Hold(v.values)
  BY DEF SetValue
<1> SUFFICES SetValue(e, v) \in Controls
  OBVIOUS
<1> HIDE DEF v, at, Choose, Hold
<1>8. CASE e.kind = "checkbox"
  <2> DEFINE chosen == IF v \in {Null, One(EmptyText)} THEN {} ELSE {1}
  <2>1. DOMAIN e.texts = 1..1
    <3>1. e.texts \in Seq(Entered) /\ Len(e.texts) = 1
      BY <1>2, <1>8 DEF Controls, Proper
    <3> QED BY <3>1
  <2>2. chosen \in SUBSET DOMAIN e.texts
    BY <2>1
  <2>3. SetValue(e, v) = Choose(chosen)
    BY <1>7, <1>8
  <2> HIDE DEF chosen
  <2> QED BY <1>5, <1>8, <2>2, <2>3
<1>9. CASE e.kind = "select-one"
  <2> DEFINE chosen == IF at = {} THEN e.chosen ELSE {Min(at)}
  <2>1. chosen \in SUBSET DOMAIN e.texts
    BY <1>2, <1>4
  <2>2. \A i, j \in chosen : i = j
    BY <1>2, <1>9 DEF Proper
  <2>3. SetValue(e, v) = Choose(chosen)
    BY <1>7, <1>9
  <2> HIDE DEF chosen
  <2> QED BY <1>5, <1>9, <2>1, <2>2, <2>3
<1>10. CASE e.kind = "select-multiple"
  <2> DEFINE chosen == IF at = {} THEN e.chosen ELSE e.chosen \union {Min(at)}
  <2>1. chosen \in SUBSET DOMAIN e.texts
    BY <1>2, <1>4
  <2>2. SetValue(e, v) = Choose(chosen)
    <3>1. ~ (v # Null /\ v.isArray)
      BY <1>1
    <3> QED BY <1>7, <1>10, <3>1
  <2> HIDE DEF chosen
  <2> QED BY <1>5, <1>10, <2>1, <2>2
<1>11. CASE e.kind \notin {"checkbox", "select-one", "select-multiple"}
  <2>1. e.kind \in {"text", "submit"}
    BY <1>2, <1>11 DEF ControlKinds
  <2>2. SetValue(e, v) = Hold(<<t>>)
    BY <1>1, <1>7, <1>11
  <2> QED BY <1>6, <2>1, <2>2
<1> QED BY <1>8, <1>9, <1>10, <1>11

-----------------------------------------------------------------------------
(* Every form *)

\* A form is a sequence of controls, whatever is entered in it.
FormInv == form \in Seq(Controls)

\* The forms of a page are such.
LEMMA InitForm == CollectionsInit => FormInv
<1>1. <<>> \in Seq(Controls)
  OBVIOUS
<1> QED BY <1>1, FormsAssumption DEF CollectionsInit, FormInv

\* Setting one control of a form leaves it a form.
LEMMA OneChanged ==
    ASSUME FormInv, NEW i \in DOMAIN form, NEW e \in Controls
    PROVE  [form EXCEPT ![i] = e] \in Seq(Controls)
  BY DEF FormInv

\* What the user enters leaves it a form.
LEMMA EnterStays ==
    ASSUME FormInv, NEW i \in DOMAIN form, Enter(i)
    PROVE  FormInv'
<1> DEFINE e == form[i]
<1>1. e \in Controls /\ \A f \in Controls : [form EXCEPT ![i] = f] \in Seq(Controls)
  BY OneChanged DEF FormInv
<1>2. CASE e.kind = "text" /\ \E t \in Texts \union {EmptyText} : form' = [form EXCEPT ![i].texts = <<t>>]
  <2>1. PICK t \in Entered : form' = [form EXCEPT ![i].texts = <<t>>]
    BY <1>2 DEF Entered
  <2>2. form' = [form EXCEPT ![i] = [e EXCEPT !.texts = <<t>>]]
    BY <2>1
  <2>3. [e EXCEPT !.texts = <<t>>] \in Controls
    BY <1>1, <1>2, ControlStays
  <2> QED BY <1>1, <2>2, <2>3 DEF FormInv
<1>3. CASE /\ e.kind \in {"checkbox", "select-one", "select-multiple"}
           /\ \E chosen \in SUBSET DOMAIN e.texts :
                 /\ e.kind # "select-multiple" => Cardinality(chosen) <= 1
                 /\ form' = [form EXCEPT ![i].chosen = chosen]
  <2>1. PICK chosen \in SUBSET DOMAIN e.texts :
           /\ e.kind # "select-multiple" => Cardinality(chosen) <= 1
           /\ form' = [form EXCEPT ![i].chosen = chosen]
    BY <1>3
  <2>2. form' = [form EXCEPT ![i] = [e EXCEPT !.chosen = chosen]]
    BY <2>1
  <2>3. e.kind = "select-one" => \A x, y \in chosen : x = y
    <3>1. DOMAIN e.texts = 1..Len(e.texts) /\ Len(e.texts) \in Nat
      BY <1>1 DEF Controls
    <3>2. IsFiniteSet(DOMAIN e.texts)
      BY <3>1, FS_Interval
    <3>3. IsFiniteSet(chosen)
      BY <3>2, FS_Subset
    <3> QED BY <2>1, <3>3, OneAtMost
  <2>4. [e EXCEPT !.chosen = chosen] \in Controls
    BY <1>1, <1>3, <2>3, ControlStays
  <2> QED BY <1>1, <2>2, <2>4 DEF FormInv
<1>4. CASE /\ e.kind \notin {"label", "file"}
           /\ \E t \in Texts : form' = [form EXCEPT ![i] = SetValue(@, One(t))]
  <2>1. PICK t \in Texts : form' = [form EXCEPT ![i] = SetValue(e, One(t))]
    BY <1>4
  <2>2. SetValue(e, One(t)) \in Controls
    BY <1>1, <1>4, SetStays
  <2> QED BY <1>1, <2>1, <2>2 DEF FormInv
<1> QED BY <1>2, <1>3, <1>4 DEF Enter

\* Every step leaves it a form.
LEMMA NextForm == FormInv /\ [CollectionsNext]_collectionVars => FormInv'
<1> SUFFICES ASSUME FormInv, [CollectionsNext]_collectionVars PROVE FormInv'
  OBVIOUS
<1>1. ASSUME NEW i \in DOMAIN form, Enter(i) PROVE FormInv'
  BY <1>1, EnterStays
<1>2. ASSUME NEW i \in DOMAIN form, Able(i) PROVE FormInv'
  <2> DEFINE e == form[i]
  <2>1. e \in Controls
    BY DEF FormInv
  <2>2. form' = [form EXCEPT ![i] = [e EXCEPT !.disabled = ~ e.disabled]]
    BY <1>2 DEF Able
  <2>3. (~ e.disabled) \in BOOLEAN
    OBVIOUS
  <2>4. [e EXCEPT !.disabled = ~ e.disabled] \in Controls
    BY <2>1, <2>3, ControlStays
  <2> QED BY <2>2, <2>4, OneChanged DEF FormInv
<1>3. ASSUME NEW i \in DOMAIN form, ClearField(i) PROVE FormInv'
  <2> DEFINE e == form[i]
  <2>1. e \in Controls /\ e.kind \in {"text", "checkbox", "submit"}
    BY <1>3 DEF FormInv, ClearField
  <2>2. form' = [form EXCEPT ![i] = [e EXCEPT !.texts = <<EmptyText>>]]
    BY <1>3 DEF ClearField
  <2>3. EmptyText \in Entered
    BY DEF Entered
  <2>4. [e EXCEPT !.texts = <<EmptyText>>] \in Controls
    BY <2>1, <2>3, ControlStays
  <2> QED BY <2>2, <2>4, OneChanged DEF FormInv
<1>4. ASSUME NEW disabled \in BOOLEAN, AbleAll(disabled) PROVE FormInv'
  <2>1. /\ form \in Seq(Controls) /\ DOMAIN form = 1..Len(form) /\ Len(form) \in Nat
        /\ \A i \in 1..Len(form) : form[i] \in Controls
    BY DEF FormInv
  <2>2. form' = [i \in 1..Len(form) |->
                   IF form[i].kind = "label" THEN form[i] ELSE [form[i] EXCEPT !.disabled = disabled]]
    BY <1>4, <2>1 DEF AbleAll
  <2>3. \A i \in 1..Len(form) : [form[i] EXCEPT !.disabled = disabled] \in Controls
    BY <2>1, ControlStays
  <2>4. form' \in [1..Len(form) -> Controls]
    BY <2>1, <2>2, <2>3
  <2> QED BY <2>1, <2>4 DEF FormInv
<1>5. ASSUME UNCHANGED form PROVE FormInv'
  BY <1>5 DEF FormInv
<1> QED
  BY <1>1, <1>2, <1>3, <1>4, <1>5
  DEF CollectionsNext, collectionVars, Push, Clear, ReverseInline, Filter, Set, Unset, Update

\* Whatever is entered and chosen in a form, what the server gets of it is what its controls
\* offer, as a hash and as a query string, one control alone as in the form, and what is set
\* back stays (Form and Form.Element of prototype.js).
THEOREM FormsHold == CollectionsSpec => []FormLaws
<1>1. ASSUME FormInv PROVE FormLaws
  <2>1. ASSUME NEW submit, ~ Nested(submit), NEW name \in Keys \ {EmptyKey}
        PROVE  LET received == ToQueryParams(RequestParameters(form, submit))
               IN  (IF name \in ToSet(HashKeys(received)) THEN HashGet(received, name).values ELSE <<>>)
                      = Offered(name, submit)
    BY <1>1, <2>1, FormReceived DEF FormInv
  <2>2. ASSUME NEW submit, \A i \in DOMAIN form : form[i].kind # "select-multiple"
        PROVE  LET pairs == SerializeElements(GetElements(form), submit)
               IN  ToQueryParams(AsString(pairs)) = AsHash(pairs)
    <3> DEFINE pairs == SerializeElements(GetElements(form), submit)
    <3>1. pairs \in Seq(SinglePair)
      <4>1. Serialized(GetElements(form), submit).pairs \in Seq(SinglePair)
        BY <1>1, <2>2, SinglesSent DEF FormInv
      <4>2. pairs = Serialized(GetElements(form), submit).pairs
        BY DEF SerializeElements, Serialized
      <4> HIDE DEF pairs
      <4> QED BY <4>1, <4>2
    <3> HIDE DEF pairs
    <3>2. ToQueryParams(AsString(pairs)) = AsHash(pairs)
      BY <3>1, SameParameters
    <3> QED BY <3>2 DEF pairs
  <2>3. ASSUME NEW i \in DOMAIN form, form[i].kind \notin {"label", "file"}
        PROVE  SerializeElement(form[i]) = RequestParameters(<<form[i]>>, Undefined)
    <3>1. form[i] \in Elements
      BY <1>1, <2>3 DEF FormInv, Elements
    <3> QED BY <2>3, <3>1, OneControl
  <2>4. ASSUME NEW i \in DOMAIN form, form[i].kind # "label",
               ~ (form[i].kind = "checkbox" /\ form[i].texts[1] = EmptyText)
        PROVE  SetValue(form[i], GetValue(form[i])) = form[i]
    <3>1. form[i] \in Elements
      BY <1>1, <2>4 DEF FormInv, Elements
    <3> QED BY <2>4, <3>1, SetBack
  <2> QED BY <2>1, <2>2, <2>3, <2>4 DEF FormLaws
<1> QED BY <1>1, InitForm, NextForm, PTL DEF CollectionsSpec

-----------------------------------------------------------------------------
(* Arrays *)

\* The values of one array are those of another one that pass a test.
Keeps(r, test, s) ==
    \A x : (\E m \in 1..Len(r) : r[m] = x) <=> (x \in test /\ \E j \in 1..Len(s) : s[j] = x)

\* findAll keeps the values that pass, and no others.
LEMMA KeptIs ==
    ASSUME NEW S, NEW s \in Seq(S), NEW test
    PROVE  FindAll(test, s) \in Seq(S) /\ Keeps(FindAll(test, s), test, s)
<1>1. PICK c \in [0..Len(s) -> Seq(S)] :
         /\ FindAll(test, s) = c[Len(s)]
         /\ c[0] = <<>>
         /\ \A i \in 1..Len(s) : c[i] = Pushed(c[i - 1], s[i], s[i] \in test)
  BY FindAllSteps
<1> DEFINE Has(n) == \A x : (\E m \in 1..Len(c[n]) : c[n][m] = x)
                              <=> (x \in test /\ \E j \in 1..n : s[j] = x)
           P == {n \in 0..Len(s) : Has(n)}
<1>2. Len(s) \in Nat /\ \A n \in 0..Len(s) : c[n] \in Seq(S) /\ Len(c[n]) \in Nat
  OBVIOUS
<1>3. 0 \in P
  <2>1. Len(c[0]) = 0
    BY <1>1
  <2>2. Has(0)
    BY <2>1
  <2> HIDE DEF Has
  <2> QED BY <1>2, <2>2
<1>4. ASSUME NEW n \in 1..Len(s), n - 1 \in P PROVE n \in P
  <2> DEFINE r == c[n - 1]
             v == s[n]
  <2>1. /\ r \in Seq(S) /\ Len(r) \in Nat /\ n - 1 \in Nat /\ n \in 0..Len(s)
        /\ \A x : (\E m \in 1..Len(r) : r[m] = x) <=> (x \in test /\ \E j \in 1..n - 1 : s[j] = x)
    BY <1>2, <1>4
  <2>2. c[n] = Pushed(r, v, v \in test)
    BY <1>1
  <2>3. \A x : (\E j \in 1..n : s[j] = x) <=> ((\E j \in 1..n - 1 : s[j] = x) \/ x = v)
    <3>1. 1..n = (1..n - 1) \union {n}
      BY <2>1
    <3> QED BY <3>1
  <2> HIDE DEF r, v
  <2>4. \A x : (\E m \in 1..Len(c[n]) : c[n][m] = x) <=> (x \in test /\ \E j \in 1..n : s[j] = x)
    <3>1. CASE v \notin test
      BY <2>1, <2>2, <2>3, <3>1 DEF Pushed
    <3>2. CASE v \in test
      <4>1. c[n] = Append(r, v)
        BY <2>2, <3>2 DEF Pushed
      <4>2. v \in S
        BY DEF v
      <4>3. /\ Len(c[n]) = Len(r) + 1 /\ c[n][Len(r) + 1] = v
            /\ \A m \in 1..Len(r) : c[n][m] = r[m]
        BY <2>1, <4>1, <4>2
      <4>4. 1..Len(r) + 1 = (1..Len(r)) \union {Len(r) + 1}
        BY <2>1
      <4>5. \A x : (\E m \in 1..Len(c[n]) : c[n][m] = x) <=> ((\E m \in 1..Len(r) : r[m] = x) \/ x = v)
        BY <4>3, <4>4
      <4> QED BY <2>1, <2>3, <3>2, <4>5
    <3> QED BY <3>1, <3>2
  <2> QED BY <2>1, <2>4
<1> HIDE DEF Has
<1>5. Has(Len(s))
  <2>1. P = 0..Len(s)
    <3>1. P \in SUBSET (0..Len(s))
      OBVIOUS
    <3> HIDE DEF P
    <3> QED BY <1>2, <1>3, <1>4, <3>1, Reached
  <2>2. Len(s) \in P
    BY <1>2, <2>1
  <2> QED BY <2>2
<1> QED BY <1>1, <1>2, <1>5 DEF Has, Keeps

\* indexOf gives the first index from the start on.
LEMMA IndexOfIs ==
    ASSUME NEW S, NEW s \in Seq(S), NEW x, NEW start \in Nat
    PROVE  \/ /\ IndexOf(s, x, start) = -1
              /\ \A i \in start..Len(s) - 1 : s[i + 1] # x
           \/ /\ IndexOf(s, x, start) \in start..Len(s) - 1
              /\ s[IndexOf(s, x, start) + 1] = x
              /\ \A i \in start..IndexOf(s, x, start) - 1 : s[i + 1] # x
<1> DEFINE at == {k \in start..Len(s) - 1 : s[k + 1] = x}
           first == CHOOSE k \in at : \A l \in at : k <= l
<1>1. IndexOf(s, x, start) = IF at = {} THEN -1 ELSE first
  <2>1. StartIndex(s, start) = start
    BY DEF StartIndex
  <2> QED BY <2>1 DEF IndexOf
<1>2. at \in SUBSET Nat /\ \A k : k \in at <=> k \in start..Len(s) - 1 /\ s[k + 1] = x
  OBVIOUS
<1> HIDE DEF at
<1>3. CASE at = {}
  BY <1>1, <1>2, <1>3
<1>4. CASE at # {}
  <2>1. \E k \in at : \A l \in at : k <= l
    BY <1>2, <1>4, LeastNumber
  <2>2. first \in at /\ \A l \in at : first <= l
    BY <2>1
  <2> HIDE DEF first
  <2>3. first \in start..Len(s) - 1 /\ s[first + 1] = x
    BY <1>2, <2>2
  <2>4. \A i \in start..first - 1 : s[i + 1] # x
    <3> SUFFICES ASSUME NEW i \in start..first - 1, s[i + 1] = x PROVE FALSE
      OBVIOUS
    <3>1. Len(s) \in Nat /\ i \in start..Len(s) - 1 /\ i < first /\ first \in Int
      BY <2>3
    <3>2. i \in at
      BY <1>2, <3>1
    <3> QED BY <2>2, <3>1, <3>2
  <2> QED BY <1>1, <1>4, <2>3, <2>4
<1> QED BY <1>3, <1>4

\* An array includes what is loosely equal to one of its values.
LEMMA IncludeIs ==
    ASSUME NEW S, NEW s \in Seq(S), NEW x
    PROVE  Include(s, x) <=> \E i \in 1..Len(s) : LooselyEqual(s[i], x)
<1>1. IndexOf(s, x, 0) # -1 => \E i \in 1..Len(s) : s[i] = x
  <2> SUFFICES ASSUME IndexOf(s, x, 0) # -1 PROVE \E i \in 1..Len(s) : s[i] = x
    OBVIOUS
  <2> DEFINE first == IndexOf(s, x, 0)
  <2>1. first \in 0..Len(s) - 1 /\ s[first + 1] = x
    <3>1. 0 \in Nat
      OBVIOUS
    <3> QED BY <3>1, IndexOfIs
  <2> HIDE DEF first
  <2>2. first + 1 \in 1..Len(s)
    BY <2>1
  <2> QED BY <2>1, <2>2
<1>2. \A y : y = x => LooselyEqual(y, x)
  BY DEF LooselyEqual
<1>3. DOMAIN s = 1..Len(s)
  OBVIOUS
<1> QED BY <1>1, <1>2, <1>3 DEF Include

\* Being loosely equal is an equivalence.
LEMMA LooselyAlike ==
    /\ \A x : LooselyEqual(x, x)
    /\ \A x, y : LooselyEqual(x, y) => LooselyEqual(y, x)
    /\ \A x, y, z : LooselyEqual(x, y) /\ LooselyEqual(y, z) => LooselyEqual(x, z)
<1>1. \A x, y : LooselyEqual(x, y) <=>
                  \/ x = y
                  \/ x = Null /\ y = Undefined
                  \/ x = Undefined /\ y = Null
  BY DEF LooselyEqual
<1> QED BY <1>1

\* What uniq has kept after each value of the array.
LEMMA UniqSteps ==
    ASSUME NEW S, NEW s \in Seq(S)
    PROVE  \E c \in [0..Len(s) -> Seq(S)] :
              /\ Uniq(s, FALSE) = c[Len(s)]
              /\ c[0] = <<>>
              /\ \A i \in 1..Len(s) : c[i] = Pushed(c[i - 1], s[i], c[i - 1] = <<>> \/ ~ Include(c[i - 1], s[i]))
<1> DEFINE N == Len(s)
           R == Seq(S)
           f == [i \in 1..N |-> [r \in R |-> Pushed(r, s[i], r = <<>> \/ ~ Include(r, s[i]))]]
           Body(g) == [n \in 0..N |-> IF n = 0 THEN <<>> ELSE Pushed(g[n - 1], s[n], g[n - 1] = <<>> \/ ~ Include(g[n - 1], s[n]))]
           given == CHOOSE g : g = Body(g)
<1>1. N \in Nat /\ <<>> \in R
  OBVIOUS
<1>2. \A i \in 1..N, r \in R : Pushed(r, s[i], r = <<>> \/ ~ Include(r, s[i])) \in R
  BY DEF Pushed
<1>3. f \in [1..N -> [R -> R]]
  <2> HIDE DEF N, R
  <2> QED BY <1>2
<1>4. PICK g : g \in [0..N -> R] /\ g[0] = <<>> /\ \A i \in 1..N : g[i] = f[i][g[i - 1]]
  <2> HIDE DEF f, N, R
  <2>1. PICK g : g \in Chains(N, N, R, <<>>, f)
    BY <1>1, <1>3, Iterated
  <2> QED BY <2>1 DEF Chains
<1>5. \A i \in 1..N : g[i] = Pushed(g[i - 1], s[i], g[i - 1] = <<>> \/ ~ Include(g[i - 1], s[i]))
  <2> SUFFICES ASSUME NEW i \in 1..N PROVE g[i] = Pushed(g[i - 1], s[i], g[i - 1] = <<>> \/ ~ Include(g[i - 1], s[i]))
    OBVIOUS
  <2>1. f[i] = [r \in R |-> Pushed(r, s[i], r = <<>> \/ ~ Include(r, s[i]))]
    OBVIOUS
  <2>2. i - 1 \in 0..N
    BY <1>1
  <2> HIDE DEF f, N, R
  <2>3. g[i] = f[i][g[i - 1]] /\ g[i - 1] \in R
    BY <1>4, <2>2
  <2> QED BY <2>1, <2>3
<1>6. g = Body(g)
  <2>1. \A n \in 0..N : n = 0 \/ n \in 1..N
    BY <1>1
  <2> HIDE DEF N, R
  <2>2. \A n \in 0..N : g[n] = IF n = 0 THEN <<>> ELSE Pushed(g[n - 1], s[n], g[n - 1] = <<>> \/ ~ Include(g[n - 1], s[n]))
    BY <1>4, <1>5, <2>1
  <2> QED BY <1>4, <2>2
<1>7. given = Body(given)
  <2> HIDE DEF Body
  <2> QED BY <1>6
<1>8. Uniq(s, FALSE) = given[N]
  BY DEF Uniq, Inject
<1> HIDE DEF given, R
<1>9. given[0] = <<>> /\ \A i \in 1..N : given[i] = Pushed(given[i - 1], s[i], given[i - 1] = <<>> \/ ~ Include(given[i - 1], s[i]))
  <2>1. 0 \in 0..N /\ \A i \in 1..N : i \in 0..N /\ i # 0
    BY <1>1
  <2> HIDE DEF N
  <2> QED BY <1>7, <2>1
<1>10. \A i \in 0..N : given[i] \in R
  <2> HIDE DEF N, R
  <2>1. \A i \in 1..N : given[i - 1] \in R => given[i] \in R
    <3> SUFFICES ASSUME NEW i \in 1..N, given[i - 1] \in R PROVE given[i] \in R
      OBVIOUS
    <3> DEFINE r == given[i - 1]
    <3>1. given[i] = Pushed(r, s[i], r = <<>> \/ ~ Include(r, s[i])) /\ r \in R
      BY <1>9
    <3> HIDE DEF r
    <3> QED BY <1>2, <3>1
  <2> QED BY <1>1, <1>9, <2>1, StaysIn
<1>11. given \in [0..N -> R]
  <2>1. given = [n \in 0..N |-> given[n]]
    BY <1>7
  <2> HIDE DEF N
  <2> QED BY <1>10, <2>1
<1> QED BY <1>8, <1>9, <1>11 DEF R

\* uniq keeps one of every value.
LEMMA UniqIs ==
    ASSUME NEW S, NEW s \in Seq(S)
    PROVE  /\ Uniq(s, FALSE) \in Seq(S)
           /\ \A i, j \in 1..Len(Uniq(s, FALSE)) :
                 LooselyEqual(Uniq(s, FALSE)[i], Uniq(s, FALSE)[j]) => i = j
           /\ \A x : (\E m \in 1..Len(Uniq(s, FALSE)) : LooselyEqual(Uniq(s, FALSE)[m], x))
                       <=> \E j \in 1..Len(s) : LooselyEqual(s[j], x)
           /\ \A m \in 1..Len(Uniq(s, FALSE)) : \E j \in 1..Len(s) : s[j] = Uniq(s, FALSE)[m]
<1>1. PICK c \in [0..Len(s) -> Seq(S)] :
         /\ Uniq(s, FALSE) = c[Len(s)]
         /\ c[0] = <<>>
         /\ \A i \in 1..Len(s) : c[i] = Pushed(c[i - 1], s[i], c[i - 1] = <<>> \/ ~ Include(c[i - 1], s[i]))
  BY UniqSteps
<1> DEFINE Single(r) == \A i, j \in 1..Len(r) : LooselyEqual(r[i], r[j]) => i = j
           Alike(r, n) == \A x : (\E m \in 1..Len(r) : LooselyEqual(r[m], x))
                                   <=> \E j \in 1..n : LooselyEqual(s[j], x)
           Of(r, n) == \A m \in 1..Len(r) : \E j \in 1..n : s[j] = r[m]
           Has(r, n) == Single(r) /\ Alike(r, n) /\ Of(r, n)
           P == {n \in 0..Len(s) : Has(c[n], n)}
<1>2. Len(s) \in Nat /\ \A n \in 0..Len(s) : c[n] \in Seq(S) /\ Len(c[n]) \in Nat
  OBVIOUS
<1>3. 0 \in P
  <2>1. Len(c[0]) = 0
    BY <1>1
  <2>2. Has(c[0], 0)
    BY <2>1
  <2> HIDE DEF Has
  <2> QED BY <1>2, <2>2
<1>4. ASSUME NEW n \in 1..Len(s), n - 1 \in P PROVE n \in P
  <2> DEFINE r == c[n - 1]
             v == s[n]
  <2>1. r \in Seq(S) /\ Len(r) \in Nat /\ n - 1 \in Nat /\ n \in 0..Len(s) /\ Has(r, n - 1)
    <3> HIDE DEF Has
    <3> QED BY <1>2, <1>4
  <2>2. c[n] = Pushed(r, v, r = <<>> \/ ~ Include(r, v))
    BY <1>1
  <2>3. 1..n = (1..n - 1) \union {n}
    BY <2>1
  <2> HIDE DEF r
  <2>4. Include(r, v) <=> \E m \in 1..Len(r) : LooselyEqual(r[m], v)
    BY <2>1, IncludeIs
  <2>5. r = <<>> => ~ \E m \in 1..Len(r) : TRUE
    BY <2>1
  <2>6. CASE Include(r, v)
    <3>1. c[n] = r
      BY <2>2, <2>4, <2>5, <2>6 DEF Pushed
    <3>2. Alike(r, n)
      <4>1. ASSUME NEW x, LooselyEqual(v, x) PROVE \E m \in 1..Len(r) : LooselyEqual(r[m], x)
        BY <2>4, <2>6, <4>1, LooselyAlike
      <4> HIDE DEF v
      <4>2. \A x : (\E j \in 1..n : LooselyEqual(s[j], x))
                     <=> ((\E j \in 1..n - 1 : LooselyEqual(s[j], x)) \/ LooselyEqual(v, x))
        BY <2>3 DEF v
      <4> QED BY <2>1, <4>1, <4>2
    <3>3. Of(r, n)
      BY <2>1, <2>3
    <3>4. Has(c[n], n)
      <4>1. Single(r)
        BY <2>1
      <4> HIDE DEF Single, Alike, Of
      <4> QED BY <3>1, <3>2, <3>3, <4>1
    <3> HIDE DEF Has
    <3> QED BY <2>1, <3>4
  <2>7. CASE ~ Include(r, v)
    <3> DEFINE t == Append(r, v)
    <3>1. c[n] = t
      BY <2>2, <2>7 DEF Pushed
    <3>2. /\ Len(t) = Len(r) + 1 /\ t[Len(r) + 1] = v
          /\ \A m \in 1..Len(r) : t[m] = r[m]
      BY <2>1
    <3>3. 1..Len(r) + 1 = (1..Len(r)) \union {Len(r) + 1}
      BY <2>1
    <3> HIDE DEF t, v
    <3>4. Single(t)
      <4> SUFFICES ASSUME NEW i \in 1..Len(t), NEW j \in 1..Len(t), LooselyEqual(t[i], t[j])
                   PROVE  i = j
        OBVIOUS
      <4>1. \A m \in 1..Len(r) : ~ LooselyEqual(r[m], v) /\ ~ LooselyEqual(v, r[m])
        BY <2>4, <2>7, LooselyAlike
      <4>2. /\ i \in 1..Len(r) \/ i = Len(r) + 1
            /\ j \in 1..Len(r) \/ j = Len(r) + 1
        BY <3>2, <3>3
      <4>3. CASE i \in 1..Len(r) /\ j \in 1..Len(r)
        BY <2>1, <3>2, <4>3
      <4>4. CASE i \in 1..Len(r) /\ j = Len(r) + 1
        BY <3>2, <4>1, <4>4
      <4>5. CASE i = Len(r) + 1 /\ j \in 1..Len(r)
        BY <3>2, <4>1, <4>5
      <4>6. CASE i = Len(r) + 1 /\ j = Len(r) + 1
        BY <4>6
      <4> QED BY <4>2, <4>3, <4>4, <4>5, <4>6
    <3>5. Alike(t, n)
      <4>1. \A x : (\E m \in 1..Len(t) : LooselyEqual(t[m], x))
                     <=> ((\E m \in 1..Len(r) : LooselyEqual(r[m], x)) \/ LooselyEqual(v, x))
        BY <3>2, <3>3
      <4>2. \A x : (\E j \in 1..n : LooselyEqual(s[j], x))
                     <=> ((\E j \in 1..n - 1 : LooselyEqual(s[j], x)) \/ LooselyEqual(v, x))
        BY <2>3 DEF v
      <4> QED BY <2>1, <4>1, <4>2
    <3>6. Of(t, n)
      <4> SUFFICES ASSUME NEW m \in 1..Len(t) PROVE \E j \in 1..n : s[j] = t[m]
        OBVIOUS
      <4>1. CASE m \in 1..Len(r)
        BY <2>1, <2>3, <3>2, <4>1
      <4>2. CASE m = Len(r) + 1
        BY <2>3, <3>2, <4>2 DEF v
      <4> QED BY <3>2, <3>3, <4>1, <4>2
    <3>7. Has(c[n], n)
      <4> HIDE DEF Single, Alike, Of
      <4> QED BY <3>1, <3>4, <3>5, <3>6
    <3> HIDE DEF Has
    <3> QED BY <2>1, <3>7
  <2> QED BY <2>6, <2>7
<1>5. Has(c[Len(s)], Len(s))
  <2> HIDE DEF Has
  <2>1. P = 0..Len(s)
    <3>1. P \in SUBSET (0..Len(s))
      OBVIOUS
    <3> HIDE DEF P
    <3> QED BY <1>2, <1>3, <1>4, <3>1, Reached
  <2>2. Len(s) \in P
    BY <1>2, <2>1
  <2> QED BY <2>2
<1>6. Len(s) \in 0..Len(s)
  BY <1>2
<1> QED BY <1>1, <1>2, <1>5, <1>6

\* detect of one value gives the value if it is there.
LEMMA DetectIs ==
    ASSUME NEW S, NEW s \in Seq(S), NEW x
    PROVE  Detect({x}, s) = IF \E j \in 1..Len(s) : s[j] = x THEN x ELSE Undefined
<1> DEFINE r == FindAll({x}, s)
<1>1. r \in Seq(S) /\ Keeps(r, {x}, s)
  <2> DEFINE test == {x}
  <2> HIDE DEF test
  <2>1. FindAll(test, s) \in Seq(S) /\ Keeps(FindAll(test, s), test, s)
    BY KeptIs
  <2> QED BY <2>1 DEF test
<1>2. Detect({x}, s) = IF r = <<>> THEN Undefined ELSE r[1]
  BY DEF Detect
<1> HIDE DEF r
<1>3. CASE r = <<>>
  <2>1. Len(r) = 0
    BY <1>3
  <2>2. ~ \E m \in 1..Len(r) : r[m] = x
    BY <2>1
  <2> QED BY <1>1, <1>2, <1>3, <2>2 DEF Keeps
<1>4. CASE r # <<>>
  <2>1. 1 \in 1..Len(r)
    BY <1>1, <1>4
  <2> QED BY <1>1, <1>2, <1>4, <2>1 DEF Keeps
<1> QED BY <1>3, <1>4

\* The values of a sequence.
LEMMA ToSetIs ==
    ASSUME NEW S, NEW s \in Seq(S)
    PROVE  \A x : x \in ToSet(s) <=> \E i \in 1..Len(s) : s[i] = x
  BY DEF ToSet

\* intersect keeps what both have, but nothing that counts as false.
LEMMA IntersectIs ==
    ASSUME NEW S, NEW s \in Seq(S), NEW t \in Seq(S)
    PROVE  ToSet(Intersect(s, t)) = (ToSet(Uniq(s, FALSE)) \intersect ToSet(t)) \ Falsy
<1> DEFINE uniq == Uniq(s, FALSE)
           both == {item \in ToSet(s) : Truthy(Detect({item}, t))}
<1>1. uniq \in Seq(S) /\ \A m \in 1..Len(uniq) : \E j \in 1..Len(s) : s[j] = uniq[m]
  BY UniqIs
<1>2. Intersect(s, t) = FindAll(both, uniq)
  BY DEF Intersect
<1>3. \A x : x \in both <=> x \in ToSet(s) /\ x \in ToSet(t) /\ x \notin Falsy
  <2>1. \A x : Detect({x}, t) = IF x \in ToSet(t) THEN x ELSE Undefined
    <3>1. \A x : x \in ToSet(t) <=> \E j \in 1..Len(t) : t[j] = x
      BY ToSetIs
    <3> QED BY <3>1, DetectIs
  <2>2. Undefined \in Falsy
    BY DEF Falsy
  <2> QED BY <2>1, <2>2 DEF Truthy
<1> HIDE DEF uniq, both
<1>4. FindAll(both, uniq) \in Seq(S) /\ Keeps(FindAll(both, uniq), both, uniq)
  BY <1>1, KeptIs
<1>5. \A x : x \in ToSet(FindAll(both, uniq)) <=> x \in both /\ x \in ToSet(uniq)
  <2>1. \A x : x \in ToSet(uniq) <=> \E j \in 1..Len(uniq) : uniq[j] = x
    BY <1>1, ToSetIs
  <2> DEFINE kept == FindAll(both, uniq)
  <2> HIDE DEF kept
  <2>2. \A x : x \in ToSet(kept) <=> \E j \in 1..Len(kept) : kept[j] = x
    <3>1. kept \in Seq(S)
      BY <1>4 DEF kept
    <3> QED BY <3>1, ToSetIs
  <2> QED BY <1>4, <2>1, <2>2 DEF kept, Keeps
<1>6. \A x : x \in ToSet(uniq) => x \in ToSet(s)
  <2>1. \A x : x \in ToSet(uniq) <=> \E j \in 1..Len(uniq) : uniq[j] = x
    BY <1>1, ToSetIs
  <2>2. \A x : x \in ToSet(s) <=> \E j \in 1..Len(s) : s[j] = x
    BY ToSetIs
  <2> QED BY <1>1, <2>1, <2>2
<1> QED BY <1>2, <1>3, <1>5, <1>6 DEF uniq

\* What is left without a value does not include it.
LEMMA WithoutIs ==
    ASSUME NEW S, NEW s \in Seq(S), NEW x \in S
    PROVE  /\ Without(s, <<x>>) \in Seq(S)
           /\ ~ Include(Without(s, <<x>>), x)
<1> DEFINE t == <<x>>
           test == {v \in ToSet(s) : ~ Include(t, v)}
           left == FindAll(test, s)
<1>1. t \in Seq(S) /\ Len(t) = 1 /\ t[1] = x
  OBVIOUS
<1>2. Without(s, <<x>>) = left
  BY DEF Without
<1> HIDE DEF t, test
<1>3. left \in Seq(S) /\ Keeps(left, test, s)
  BY KeptIs
<1> USE DEF test
<1>4. \A v \in test : ~ LooselyEqual(v, x)
  <2>1. \A v : Include(t, v) <=> \E i \in 1..Len(t) : LooselyEqual(t[i], v)
    BY <1>1, IncludeIs
  <2>2. 1 \in 1..Len(t)
    BY <1>1
  <2>3. \A v \in test : ~ LooselyEqual(x, v)
    BY <1>1, <2>1, <2>2
  <2> QED BY <2>3, LooselyAlike
<1> HIDE DEF test, left
<1>5. Include(left, x) <=> \E i \in 1..Len(left) : LooselyEqual(left[i], x)
  BY <1>3, IncludeIs
<1> QED BY <1>2, <1>3, <1>4, <1>5 DEF Keeps

\* Reversing turns the indices round.
LEMMA ReverseIs ==
    ASSUME NEW S, NEW s \in Seq(S)
    PROVE  /\ Reverse(s) \in Seq(S) /\ Len(Reverse(s)) = Len(s)
           /\ \A i \in 1..Len(s) : Reverse(s)[i] = s[Len(s) - i + 1]
<1> DEFINE N == Len(s)
           r == [i \in 1..N |-> s[(N - i) + 1]]
<1>1. Reverse(s) = r
  BY DEF Reverse
<1>2. N \in Nat /\ \A i \in 1..N : (N - i) + 1 \in 1..N /\ s[(N - i) + 1] \in S
  OBVIOUS
<1> HIDE DEF N
<1>3. r \in [1..N -> S]
  BY <1>2
<1>4. r \in Seq(S) /\ Len(r) = N
  BY <1>2, <1>3
<1> QED BY <1>1, <1>2, <1>4 DEF N

\* lastIndexOf gives the last index up to the start.
LEMMA LastIndexOfIs ==
    ASSUME NEW S, NEW s \in Seq(S), NEW x, NEW start \in 0..Len(s) - 1
    PROVE  \/ /\ LastIndexOf(s, x, start) = -1
              /\ \A i \in 0..start : s[i + 1] # x
           \/ /\ LastIndexOf(s, x, start) \in 0..start
              /\ s[LastIndexOf(s, x, start) + 1] = x
              /\ \A i \in LastIndexOf(s, x, start) + 1..start : s[i + 1] # x
<1> DEFINE head == SubSeq(s, 1, start + 1)
           u == Reverse(head)
           n == IndexOf(u, x, 0)
<1>1. Len(s) \in Nat /\ start \in Nat /\ start + 1 <= Len(s)
  OBVIOUS
<1>2. /\ head \in Seq(S) /\ Len(head) = start + 1
      /\ \A i \in 1..start + 1 : head[i] = s[i]
  BY <1>1
<1>3. LastIndexOf(s, x, start) = IF n < 0 THEN n ELSE start - n
  <2>1. StartIndex(s, start) = start /\ Least(start + 1, Len(s)) = start + 1
    BY <1>1 DEF StartIndex, Least
  <2>2. LastIndexOf(s, x, start) = IF n < 0 THEN n ELSE (start + 1) - n - 1
    BY <2>1 DEF LastIndexOf
  <2>3. n < 0 \/ n \in Nat
    <3>1. n = -1 \/ n \in 0..Len(u) - 1
      <4>1. u \in Seq(S)
        BY <1>2, ReverseIs
      <4>2. 0 \in Nat
        OBVIOUS
      <4> HIDE DEF u
      <4> QED BY <4>1, <4>2, IndexOfIs
    <3> HIDE DEF n
    <3> QED BY <3>1
  <2> HIDE DEF n
  <2> QED BY <1>1, <2>2, <2>3
<1> HIDE DEF head
<1>4. /\ u \in Seq(S) /\ Len(u) = start + 1
      /\ \A i \in 1..start + 1 : u[i] = s[start + 2 - i]
  <2>1. u \in Seq(S) /\ Len(u) = start + 1 /\ \A i \in 1..start + 1 : u[i] = head[start + 1 - i + 1]
    BY <1>2, ReverseIs
  <2>2. \A i \in 1..start + 1 : start + 1 - i + 1 = start + 2 - i /\ start + 2 - i \in 1..start + 1
    BY <1>1
  <2> QED BY <1>2, <2>1, <2>2
<1> HIDE DEF u
<1>5. \/ n = -1 /\ \A i \in 0..start : u[i + 1] # x
      \/ /\ n \in 0..start /\ u[n + 1] = x
         /\ \A i \in 0..n - 1 : u[i + 1] # x
  <2>1. 0 \in Nat /\ Len(u) - 1 = start
    BY <1>1, <1>4
  <2>2. \/ n = -1 /\ \A i \in 0..Len(u) - 1 : u[i + 1] # x
        \/ /\ n \in 0..Len(u) - 1 /\ u[n + 1] = x
           /\ \A i \in 0..n - 1 : u[i + 1] # x
    BY <1>4, <2>1, IndexOfIs
  <2> HIDE DEF n
  <2> QED BY <2>1, <2>2
<1> HIDE DEF n
<1>6. \A i \in 0..start : start - i \in 0..start /\ u[(start - i) + 1] = s[i + 1]
  <2> SUFFICES ASSUME NEW i \in 0..start
               PROVE  start - i \in 0..start /\ u[(start - i) + 1] = s[i + 1]
    OBVIOUS
  <2>1. (start - i) + 1 \in 1..start + 1 /\ start + 2 - ((start - i) + 1) = i + 1
    BY <1>1
  <2> QED BY <1>1, <1>4, <2>1
<1>7. CASE n = -1 /\ \A i \in 0..start : u[i + 1] # x
  <2>1. \A i \in 0..start : s[i + 1] # x
    BY <1>6, <1>7
  <2> QED BY <1>3, <1>7, <2>1
<1>8. CASE n \in 0..start /\ u[n + 1] = x /\ \A i \in 0..n - 1 : u[i + 1] # x
  <2> DEFINE last == start - n
  <2>1. last \in 0..start /\ start - last = n
    BY <1>1, <1>8
  <2>2. LastIndexOf(s, x, start) = last
    BY <1>3, <1>8
  <2> HIDE DEF last
  <2>3. s[last + 1] = x
    BY <1>6, <1>8, <2>1
  <2>4. ASSUME NEW i \in last + 1..start PROVE s[i + 1] # x
    <3>1. i \in 0..start /\ start - i \in 0..n - 1
      BY <1>1, <1>8, <2>1 DEF last
    <3>2. u[(start - i) + 1] # x
      BY <1>8, <3>1
    <3> QED BY <1>6, <3>1, <3>2
  <2> QED BY <2>1, <2>2, <2>3, <2>4
<1> QED BY <1>5, <1>7, <1>8

\* What the array holds are values.
ArrayInv == array \in Seq(Values)

\* There is none at first.
LEMMA InitArray == CollectionsInit => ArrayInv
  BY DEF CollectionsInit, ArrayInv

\* Every step leaves it so.
LEMMA NextArray == ArrayInv /\ [CollectionsNext]_collectionVars => ArrayInv'
<1> SUFFICES ASSUME ArrayInv, [CollectionsNext]_collectionVars PROVE ArrayInv'
  OBVIOUS
<1>1. array \in Seq(Values)
  BY DEF ArrayInv
<1>2. ASSUME NEW v \in Values, Push(v) PROVE ArrayInv'
  BY <1>1, <1>2 DEF Push, ArrayInv
<1>3. ASSUME Clear PROVE ArrayInv'
  BY <1>3 DEF Clear, ArrayInv
<1>4. ASSUME ReverseInline PROVE ArrayInv'
  BY <1>1, <1>4, ReverseIs DEF ReverseInline, ArrayInv
<1>5. ASSUME Filter PROVE ArrayInv'
  <2>1. Compact(array) \in Seq(Values)
    <3> DEFINE test == {v \in ToSet(array) : ~ LooselyEqual(v, Null)}
    <3>1. Compact(array) = FindAll(test, array)
      BY DEF Compact
    <3> HIDE DEF test
    <3> QED BY <1>1, <3>1, KeptIs
  <2>2. Uniq(array, FALSE) \in Seq(Values)
    BY <1>1, UniqIs
  <2>3. \A v \in Values : Without(array, <<v>>) \in Seq(Values)
    BY <1>1, WithoutIs
  <2> QED BY <1>5, <2>1, <2>2, <2>3 DEF Filter, ArrayInv
<1>6. ASSUME UNCHANGED array PROVE ArrayInv'
  BY <1>1, <1>6 DEF ArrayInv
<1> QED
  BY <1>2, <1>3, <1>4, <1>5, <1>6
  DEF CollectionsNext, collectionVars, Enter, Able, AbleAll, ClearField, Set, Unset, Update

\* However an array came about, indexOf and lastIndexOf find the first index of a value from a
\* start on and the last one up to it (Array.indexOf, lastIndexOf of prototype.js).
THEOREM SearchesHold == CollectionsSpec => []SearchLaws
<1>1. ASSUME ArrayInv PROVE SearchLaws
  <2> SUFFICES ASSUME NEW v \in Values, NEW start \in 0..Len(array) - 1 PROVE Finds(v, start)
    BY DEF SearchLaws
  <2>1. array \in Seq(Values) /\ start \in Nat
    BY <1>1 DEF ArrayInv
  <2> DEFINE first == IndexOf(array, v, start)
             last == LastIndexOf(array, v, start)
  <2>2. \/ first = -1 /\ \A i \in start..Len(array) - 1 : array[i + 1] # v
        \/ /\ first \in start..Len(array) - 1 /\ array[first + 1] = v
           /\ \A i \in start..first - 1 : array[i + 1] # v
    BY <2>1, IndexOfIs
  <2>3. \/ last = -1 /\ \A i \in 0..start : array[i + 1] # v
        \/ /\ last \in 0..start /\ array[last + 1] = v
           /\ \A i \in last + 1..start : array[i + 1] # v
    BY <2>1, LastIndexOfIs
  <2>4. Finds(v, start) <=>
          /\ IF first = -1 THEN \A i \in start..Len(array) - 1 : ~ array[i + 1] = v
             ELSE array[first + 1] = v /\ first >= start /\ \A i \in start..first - 1 : ~ array[i + 1] = v
          /\ IF last = -1 THEN \A i \in 0..start : ~ array[i + 1] = v
             ELSE array[last + 1] = v /\ last <= start /\ \A i \in last + 1..start : ~ array[i + 1] = v
    BY DEF Finds
  <2> HIDE DEF first, last
  <2>5. /\ first # -1 => first >= start
        /\ last # -1 => last <= start
    BY <2>1, <2>2, <2>3
  <2> QED BY <2>2, <2>3, <2>4, <2>5
<1> QED BY <1>1, InitArray, NextArray, PTL DEF CollectionsSpec

\* However an array came about, uniq keeps one of every value, null and undefined being one,
\* intersect what both have but nothing that counts as false, and without leaves none of what
\* it is given (Array.uniq, intersect, without, include).
THEOREM SetsHold == CollectionsSpec => []SetLaws
<1>1. ASSUME ArrayInv PROVE SetLaws
  <2>1. array \in Seq(Values)
    BY <1>1 DEF ArrayInv
  <2>2. ASSUME NEW v \in Values PROVE ~ Include(Without(array, <<v>>), v)
    BY <2>1, WithoutIs
  <2>3. ASSUME NEW other \in Seq(Values) PROVE Sets(other)
    <3> DEFINE uniq == Uniq(array, FALSE)
    <3>1. /\ uniq \in Seq(Values)
          /\ \A i, j \in 1..Len(uniq) : LooselyEqual(uniq[i], uniq[j]) => i = j
          /\ \A x : (\E m \in 1..Len(uniq) : LooselyEqual(uniq[m], x))
                      <=> \E j \in 1..Len(array) : LooselyEqual(array[j], x)
      BY <2>1, UniqIs
    <3>2. ToSet(Intersect(array, other)) = (ToSet(uniq) \intersect ToSet(other)) \ Falsy
      BY <2>1, <2>3, IntersectIs
    <3>3. Sets(other) <=>
            /\ \A i, j \in DOMAIN uniq : LooselyEqual(uniq[i], uniq[j]) => i = j
            /\ \A v \in Values : Include(uniq, v) <=> Include(array, v)
            /\ ToSet(Intersect(array, other)) = (ToSet(uniq) \intersect ToSet(other)) \ Falsy
      BY DEF Sets
    <3> HIDE DEF uniq
    <3>4. \A v \in Values : Include(uniq, v) <=> Include(array, v)
      <4>1. \A v : Include(uniq, v) <=> \E m \in 1..Len(uniq) : LooselyEqual(uniq[m], v)
        BY <3>1, IncludeIs
      <4>2. \A v : Include(array, v) <=> \E j \in 1..Len(array) : LooselyEqual(array[j], v)
        BY <2>1, IncludeIs
      <4> QED BY <3>1, <4>1, <4>2
    <3>5. DOMAIN uniq = 1..Len(uniq)
      BY <3>1
    <3> QED BY <3>1, <3>2, <3>3, <3>4, <3>5
  <2>4. ASSUME NEW v \in Values, NEW w \in Values PROVE Sets(<<v, w>>)
    <3> DEFINE other == <<v, w>>
    <3>1. other \in Seq(Values)
      OBVIOUS
    <3> HIDE DEF other
    <3>2. Sets(other)
      BY <2>3, <3>1
    <3> QED BY <3>2 DEF other
  <2> QED BY <2>2, <2>4 DEF SetLaws
<1> QED BY <1>1, InitArray, NextArray, PTL DEF CollectionsSpec

\* What max has found after each value.
LEMMA MaxSteps ==
    ASSUME NEW S, NEW s \in Seq(S)
    PROVE  \E c \in [0..Len(s) -> S \union {Undefined}] :
              /\ MaxOf(s) = c[Len(s)]
              /\ c[0] = Undefined
              /\ \A i \in 1..Len(s) : c[i] = (IF c[i - 1] = Undefined \/ s[i] >= c[i - 1] THEN s[i] ELSE c[i - 1])
<1> DEFINE N == Len(s)
           R == S \union {Undefined}
           f == [i \in 1..N |-> [r \in R |-> (IF r = Undefined \/ s[i] >= r THEN s[i] ELSE r)]]
           Body(g) == [n \in 0..N |-> IF n = 0 THEN Undefined ELSE (IF g[n - 1] = Undefined \/ s[n] >= g[n - 1] THEN s[n] ELSE g[n - 1])]
           given == CHOOSE g : g = Body(g)
<1>1. N \in Nat /\ Undefined \in R
  OBVIOUS
<1>2. \A i \in 1..N, r \in R : (IF r = Undefined \/ s[i] >= r THEN s[i] ELSE r) \in R
  OBVIOUS
<1>3. f \in [1..N -> [R -> R]]
  <2> HIDE DEF N, R
  <2> QED BY <1>2
<1>4. PICK g : g \in [0..N -> R] /\ g[0] = Undefined /\ \A i \in 1..N : g[i] = f[i][g[i - 1]]
  <2> HIDE DEF f, N, R
  <2>1. PICK g : g \in Chains(N, N, R, Undefined, f)
    BY <1>1, <1>3, Iterated
  <2> QED BY <2>1 DEF Chains
<1>5. \A i \in 1..N : g[i] = (IF g[i - 1] = Undefined \/ s[i] >= g[i - 1] THEN s[i] ELSE g[i - 1])
  <2> SUFFICES ASSUME NEW i \in 1..N PROVE g[i] = (IF g[i - 1] = Undefined \/ s[i] >= g[i - 1] THEN s[i] ELSE g[i - 1])
    OBVIOUS
  <2>1. f[i] = [r \in R |-> (IF r = Undefined \/ s[i] >= r THEN s[i] ELSE r)]
    OBVIOUS
  <2>2. i - 1 \in 0..N
    BY <1>1
  <2> HIDE DEF f, N, R
  <2>3. g[i] = f[i][g[i - 1]] /\ g[i - 1] \in R
    BY <1>4, <2>2
  <2> QED BY <2>1, <2>3
<1>6. g = Body(g)
  <2>1. \A n \in 0..N : n = 0 \/ n \in 1..N
    BY <1>1
  <2> HIDE DEF N, R
  <2>2. \A n \in 0..N : g[n] = IF n = 0 THEN Undefined ELSE (IF g[n - 1] = Undefined \/ s[n] >= g[n - 1] THEN s[n] ELSE g[n - 1])
    BY <1>4, <1>5, <2>1
  <2> QED BY <1>4, <2>2
<1>7. given = Body(given)
  <2> HIDE DEF Body
  <2> QED BY <1>6
<1>8. MaxOf(s) = given[N]
  BY DEF MaxOf, Inject
<1> HIDE DEF given, R
<1>9. given[0] = Undefined /\ \A i \in 1..N : given[i] = (IF given[i - 1] = Undefined \/ s[i] >= given[i - 1] THEN s[i] ELSE given[i - 1])
  <2>1. 0 \in 0..N /\ \A i \in 1..N : i \in 0..N /\ i # 0
    BY <1>1
  <2> HIDE DEF N
  <2> QED BY <1>7, <2>1
<1>10. \A i \in 0..N : given[i] \in R
  <2> HIDE DEF N, R
  <2>1. \A i \in 1..N : given[i - 1] \in R => given[i] \in R
    <3> SUFFICES ASSUME NEW i \in 1..N, given[i - 1] \in R PROVE given[i] \in R
      OBVIOUS
    <3> DEFINE r == given[i - 1]
    <3>1. given[i] = (IF r = Undefined \/ s[i] >= r THEN s[i] ELSE r) /\ r \in R
      BY <1>9
    <3> HIDE DEF r
    <3> QED BY <1>2, <3>1
  <2> QED BY <1>1, <1>9, <2>1, StaysIn
<1>11. given \in [0..N -> R]
  <2>1. given = [n \in 0..N |-> given[n]]
    BY <1>7
  <2> HIDE DEF N
  <2> QED BY <1>10, <2>1
<1> QED BY <1>8, <1>9, <1>11 DEF R

\* max gives the greatest of some numbers.
LEMMA MaxIs ==
    ASSUME NEW S \in SUBSET Int, Undefined \notin S, NEW s \in Seq(S), s # <<>>
    PROVE  /\ MaxOf(s) \in ToSet(s)
           /\ \A x \in ToSet(s) : MaxOf(s) >= x
<1> DEFINE R == S \union {Undefined}
<1>1. PICK c \in [0..Len(s) -> R] :
         /\ MaxOf(s) = c[Len(s)]
         /\ c[0] = Undefined
         /\ \A i \in 1..Len(s) : c[i] = IF c[i - 1] = Undefined \/ s[i] >= c[i - 1] THEN s[i] ELSE c[i - 1]
  BY MaxSteps
<1> DEFINE Has(n) == IF n = 0 THEN c[n] = Undefined
                     ELSE (\E j \in 1..n : s[j] = c[n]) /\ \A j \in 1..n : c[n] >= s[j]
           P == {n \in 0..Len(s) : Has(n)}
<1>2. /\ Len(s) \in Nat /\ Len(s) # 0
      /\ \A n \in 1..Len(s) : s[n] \in S /\ s[n] \in Int /\ s[n] # Undefined
  OBVIOUS
<1>3. 0 \in P
  BY <1>1, <1>2
<1>4. ASSUME NEW n \in 1..Len(s), n - 1 \in P PROVE n \in P
  <2> DEFINE v == s[n]
             r == c[n - 1]
             d == c[n]
  <2>1. /\ n \in Nat /\ n # 0 /\ n - 1 \in Nat /\ n \in 0..Len(s)
        /\ 1..n = (1..n - 1) \union {n}
        /\ v \in Int /\ v # Undefined
    BY <1>2
  <2>2. d = IF r = Undefined \/ v >= r THEN v ELSE r
    BY <1>1
  <2>3. CASE n - 1 = 0
    <3>1. r = Undefined
      BY <1>1, <2>3
    <3>2. d = v
      BY <2>2, <3>1
    <3>3. \A j \in 1..n : j = n
      BY <2>1, <2>3
    <3>4. n \in 1..n
      BY <2>1
    <3>5. Has(n)
      BY <2>1, <3>2, <3>3, <3>4
    <3> HIDE DEF Has
    <3> QED BY <2>1, <3>5
  <2>4. CASE n - 1 # 0
    <3>1. (\E j \in 1..n - 1 : s[j] = r) /\ \A j \in 1..n - 1 : r >= s[j]
      BY <1>4, <2>4
    <3> HIDE DEF r, d
    <3>2. r \in Int /\ r # Undefined
      BY <1>2, <2>1, <3>1
    <3> HIDE DEF v
    <3>3. \A j \in 1..n : s[j] \in Int /\ (j \in 1..n - 1 \/ s[j] = v)
      BY <1>2, <2>1 DEF v
    <3>4. d >= v /\ d >= r /\ d \in {v, r}
      BY <2>1, <2>2, <3>2
    <3>5. \E j \in 1..n : s[j] = d
      <4>1. s[n] = v /\ n \in 1..n
        BY <2>1 DEF v
      <4> QED BY <2>1, <3>1, <3>4, <4>1
    <3>6. \A j \in 1..n : d >= s[j]
      <4> SUFFICES ASSUME NEW j \in 1..n PROVE d >= s[j]
        OBVIOUS
      <4>1. CASE j \in 1..n - 1
        BY <2>1, <3>1, <3>2, <3>3, <3>4, <4>1
      <4>2. CASE s[j] = v
        BY <3>4, <4>2
      <4> QED BY <3>3, <4>1, <4>2
    <3>7. Has(n)
      BY <2>1, <3>5, <3>6 DEF d
    <3> HIDE DEF Has
    <3> QED BY <2>1, <3>7
  <2> QED BY <2>3, <2>4
<1> HIDE DEF Has
<1>5. Has(Len(s))
  <2>1. P = 0..Len(s)
    <3>1. P \in SUBSET (0..Len(s))
      OBVIOUS
    <3> HIDE DEF P
    <3> QED BY <1>2, <1>3, <1>4, <3>1, Reached
  <2>2. Len(s) \in P
    BY <1>2, <2>1
  <2> QED BY <2>2
<1>6. \A x : x \in ToSet(s) <=> \E i \in 1..Len(s) : s[i] = x
  BY ToSetIs
<1> QED BY <1>1, <1>2, <1>5, <1>6 DEF Has

\* What min has found after each value.
LEMMA MinSteps ==
    ASSUME NEW S, NEW s \in Seq(S)
    PROVE  \E c \in [0..Len(s) -> S \union {Undefined}] :
              /\ MinOf(s) = c[Len(s)]
              /\ c[0] = Undefined
              /\ \A i \in 1..Len(s) : c[i] = (IF c[i - 1] = Undefined \/ s[i] < c[i - 1] THEN s[i] ELSE c[i - 1])
<1> DEFINE N == Len(s)
           R == S \union {Undefined}
           f == [i \in 1..N |-> [r \in R |-> (IF r = Undefined \/ s[i] < r THEN s[i] ELSE r)]]
           Body(g) == [n \in 0..N |-> IF n = 0 THEN Undefined ELSE (IF g[n - 1] = Undefined \/ s[n] < g[n - 1] THEN s[n] ELSE g[n - 1])]
           given == CHOOSE g : g = Body(g)
<1>1. N \in Nat /\ Undefined \in R
  OBVIOUS
<1>2. \A i \in 1..N, r \in R : (IF r = Undefined \/ s[i] < r THEN s[i] ELSE r) \in R
  OBVIOUS
<1>3. f \in [1..N -> [R -> R]]
  <2> HIDE DEF N, R
  <2> QED BY <1>2
<1>4. PICK g : g \in [0..N -> R] /\ g[0] = Undefined /\ \A i \in 1..N : g[i] = f[i][g[i - 1]]
  <2> HIDE DEF f, N, R
  <2>1. PICK g : g \in Chains(N, N, R, Undefined, f)
    BY <1>1, <1>3, Iterated
  <2> QED BY <2>1 DEF Chains
<1>5. \A i \in 1..N : g[i] = (IF g[i - 1] = Undefined \/ s[i] < g[i - 1] THEN s[i] ELSE g[i - 1])
  <2> SUFFICES ASSUME NEW i \in 1..N PROVE g[i] = (IF g[i - 1] = Undefined \/ s[i] < g[i - 1] THEN s[i] ELSE g[i - 1])
    OBVIOUS
  <2>1. f[i] = [r \in R |-> (IF r = Undefined \/ s[i] < r THEN s[i] ELSE r)]
    OBVIOUS
  <2>2. i - 1 \in 0..N
    BY <1>1
  <2> HIDE DEF f, N, R
  <2>3. g[i] = f[i][g[i - 1]] /\ g[i - 1] \in R
    BY <1>4, <2>2
  <2> QED BY <2>1, <2>3
<1>6. g = Body(g)
  <2>1. \A n \in 0..N : n = 0 \/ n \in 1..N
    BY <1>1
  <2> HIDE DEF N, R
  <2>2. \A n \in 0..N : g[n] = IF n = 0 THEN Undefined ELSE (IF g[n - 1] = Undefined \/ s[n] < g[n - 1] THEN s[n] ELSE g[n - 1])
    BY <1>4, <1>5, <2>1
  <2> QED BY <1>4, <2>2
<1>7. given = Body(given)
  <2> HIDE DEF Body
  <2> QED BY <1>6
<1>8. MinOf(s) = given[N]
  BY DEF MinOf, Inject
<1> HIDE DEF given, R
<1>9. given[0] = Undefined /\ \A i \in 1..N : given[i] = (IF given[i - 1] = Undefined \/ s[i] < given[i - 1] THEN s[i] ELSE given[i - 1])
  <2>1. 0 \in 0..N /\ \A i \in 1..N : i \in 0..N /\ i # 0
    BY <1>1
  <2> HIDE DEF N
  <2> QED BY <1>7, <2>1
<1>10. \A i \in 0..N : given[i] \in R
  <2> HIDE DEF N, R
  <2>1. \A i \in 1..N : given[i - 1] \in R => given[i] \in R
    <3> SUFFICES ASSUME NEW i \in 1..N, given[i - 1] \in R PROVE given[i] \in R
      OBVIOUS
    <3> DEFINE r == given[i - 1]
    <3>1. given[i] = (IF r = Undefined \/ s[i] < r THEN s[i] ELSE r) /\ r \in R
      BY <1>9
    <3> HIDE DEF r
    <3> QED BY <1>2, <3>1
  <2> QED BY <1>1, <1>9, <2>1, StaysIn
<1>11. given \in [0..N -> R]
  <2>1. given = [n \in 0..N |-> given[n]]
    BY <1>7
  <2> HIDE DEF N
  <2> QED BY <1>10, <2>1
<1> QED BY <1>8, <1>9, <1>11 DEF R

\* min gives the least of some numbers.
LEMMA MinIs ==
    ASSUME NEW S \in SUBSET Int, Undefined \notin S, NEW s \in Seq(S), s # <<>>
    PROVE  /\ MinOf(s) \in ToSet(s)
           /\ \A x \in ToSet(s) : MinOf(s) <= x
<1> DEFINE R == S \union {Undefined}
<1>1. PICK c \in [0..Len(s) -> R] :
         /\ MinOf(s) = c[Len(s)]
         /\ c[0] = Undefined
         /\ \A i \in 1..Len(s) : c[i] = IF c[i - 1] = Undefined \/ s[i] < c[i - 1] THEN s[i] ELSE c[i - 1]
  BY MinSteps
<1> DEFINE Has(n) == IF n = 0 THEN c[n] = Undefined
                     ELSE (\E j \in 1..n : s[j] = c[n]) /\ \A j \in 1..n : c[n] <= s[j]
           P == {n \in 0..Len(s) : Has(n)}
<1>2. /\ Len(s) \in Nat /\ Len(s) # 0
      /\ \A n \in 1..Len(s) : s[n] \in S /\ s[n] \in Int /\ s[n] # Undefined
  OBVIOUS
<1>3. 0 \in P
  BY <1>1, <1>2
<1>4. ASSUME NEW n \in 1..Len(s), n - 1 \in P PROVE n \in P
  <2> DEFINE v == s[n]
             r == c[n - 1]
             d == c[n]
  <2>1. /\ n \in Nat /\ n # 0 /\ n - 1 \in Nat /\ n \in 0..Len(s)
        /\ 1..n = (1..n - 1) \union {n}
        /\ v \in Int /\ v # Undefined
    BY <1>2
  <2>2. d = IF r = Undefined \/ v < r THEN v ELSE r
    BY <1>1
  <2>3. CASE n - 1 = 0
    <3>1. r = Undefined
      BY <1>1, <2>3
    <3>2. d = v
      BY <2>2, <3>1
    <3>3. \A j \in 1..n : j = n
      BY <2>1, <2>3
    <3>4. n \in 1..n
      BY <2>1
    <3>5. Has(n)
      BY <2>1, <3>2, <3>3, <3>4
    <3> HIDE DEF Has
    <3> QED BY <2>1, <3>5
  <2>4. CASE n - 1 # 0
    <3>1. (\E j \in 1..n - 1 : s[j] = r) /\ \A j \in 1..n - 1 : r <= s[j]
      BY <1>4, <2>4
    <3> HIDE DEF r, d
    <3>2. r \in Int /\ r # Undefined
      BY <1>2, <2>1, <3>1
    <3> HIDE DEF v
    <3>3. \A j \in 1..n : s[j] \in Int /\ (j \in 1..n - 1 \/ s[j] = v)
      BY <1>2, <2>1 DEF v
    <3>4. d <= v /\ d <= r /\ d \in {v, r}
      BY <2>1, <2>2, <3>2
    <3>5. \E j \in 1..n : s[j] = d
      <4>1. s[n] = v /\ n \in 1..n
        BY <2>1 DEF v
      <4> QED BY <2>1, <3>1, <3>4, <4>1
    <3>6. \A j \in 1..n : d <= s[j]
      <4> SUFFICES ASSUME NEW j \in 1..n PROVE d <= s[j]
        OBVIOUS
      <4>1. CASE j \in 1..n - 1
        BY <2>1, <3>1, <3>2, <3>3, <3>4, <4>1
      <4>2. CASE s[j] = v
        BY <3>4, <4>2
      <4> QED BY <3>3, <4>1, <4>2
    <3>7. Has(n)
      BY <2>1, <3>5, <3>6 DEF d
    <3> HIDE DEF Has
    <3> QED BY <2>1, <3>7
  <2> QED BY <2>3, <2>4
<1> HIDE DEF Has
<1>5. Has(Len(s))
  <2>1. P = 0..Len(s)
    <3>1. P \in SUBSET (0..Len(s))
      OBVIOUS
    <3> HIDE DEF P
    <3> QED BY <1>2, <1>3, <1>4, <3>1, Reached
  <2>2. Len(s) \in P
    BY <1>2, <2>1
  <2> QED BY <2>2
<1>6. \A x : x \in ToSet(s) <=> \E i \in 1..Len(s) : s[i] = x
  BY ToSetIs
<1> QED BY <1>1, <1>2, <1>5, <1>6 DEF Has

\* The array of a range has its numbers in their order.
LEMMA RangeIs ==
    ASSUME NEW m \in Int, NEW n \in Int, NEW exclusive \in BOOLEAN, NEW e \in Int,
           e = IF exclusive THEN n - 1 ELSE n
    PROVE  RangeArray(m, n, exclusive) = [i \in 1..(IF m <= e THEN e - m + 1 ELSE 0) |-> m + i - 1]
<1> DEFINE in(v) == RangeIncludes(m, n, exclusive, v)
           Body(f) == [v \in Int |-> IF in(v) THEN <<v>> \o f[v + 1] ELSE <<>>]
           From(v) == [i \in 1..(IF v \in m..e THEN e - v + 1 ELSE 0) |-> v + i - 1]
           g == [v \in Int |-> From(v)]
           from == CHOOSE f : f = Body(f)
<1>1. \A v \in Int : in(v) <=> v \in m..e
  BY DEF RangeIncludes
<1>2. \A v \in Int : From(v) \in Seq(Int)
  <2> SUFFICES ASSUME NEW v \in Int PROVE From(v) \in Seq(Int)
    OBVIOUS
  <2> DEFINE k == IF v \in m..e THEN e - v + 1 ELSE 0
  <2>1. k \in Nat
    OBVIOUS
  <2> HIDE DEF k
  <2>2. [i \in 1..k |-> v + i - 1] \in [1..k -> Int]
    BY <2>1
  <2>3. [i \in 1..k |-> v + i - 1] \in Seq(Int)
    BY <2>1, <2>2
  <2> QED BY <2>3 DEF k
<1>3. ASSUME NEW v \in m..e PROVE From(v) = <<v>> \o From(v + 1)
  <2> DEFINE k == e - v
             s == <<v>>
             t == From(v + 1)
             u == s \o t
  <2>1. k \in Nat /\ v \in Int /\ e - v + 1 = k + 1
    OBVIOUS
  <2>2. (IF v + 1 \in m..e THEN e - (v + 1) + 1 ELSE 0) = k
    OBVIOUS
  <2>3. t = [i \in 1..k |-> v + 1 + i - 1]
    BY <2>2
  <2>4. From(v) = [i \in 1..k + 1 |-> v + i - 1]
    BY <2>1
  <2>5. t \in Seq(Int) /\ Len(t) = k /\ \A i \in 1..k : t[i] = v + i
    <3> HIDE DEF k
    <3>1. [i \in 1..k |-> v + 1 + i - 1] \in [1..k -> Int]
      BY <2>1
    <3>2. t \in [1..k -> Int]
      BY <2>3, <3>1
    <3>3. \A i \in 1..k : t[i] = v + i
      BY <2>1, <2>3
    <3> HIDE DEF t
    <3> QED BY <2>1, <3>2, <3>3
  <2>6. s \in Seq(Int) /\ Len(s) = 1 /\ s[1] = v
    OBVIOUS
  <2> HIDE DEF k, s, t
  <2>7. /\ u \in Seq(Int) /\ Len(u) = k + 1
        /\ \A i \in 1..k + 1 : u[i] = IF i <= 1 THEN s[i] ELSE t[i - 1]
    <3>1. s \in Seq(Int) /\ t \in Seq(Int)
      BY <2>5, <2>6
    <3>2. /\ u \in Seq(Int) /\ Len(u) = Len(s) + Len(t)
          /\ \A i \in 1..Len(s) + Len(t) : u[i] = IF i <= Len(s) THEN s[i] ELSE t[i - Len(s)]
      BY <3>1
    <3> HIDE DEF u
    <3>3. 1 + k = k + 1
      BY <2>1
    <3> QED BY <2>1, <2>5, <2>6, <3>2, <3>3
  <2> HIDE DEF u
  <2>8. \A i \in 1..k + 1 : u[i] = v + i - 1
    <3> SUFFICES ASSUME NEW i \in 1..k + 1 PROVE u[i] = v + i - 1
      OBVIOUS
    <3>1. CASE i = 1
      BY <2>1, <2>6, <2>7, <3>1
    <3>2. CASE i # 1
      <4>1. i - 1 \in 1..k
        BY <2>1, <3>2
      <4> QED BY <2>1, <2>5, <2>7, <3>2, <4>1
    <3> QED BY <3>1, <3>2
  <2>9. u = [i \in 1..k + 1 |-> v + i - 1]
    <3>1. u = [i \in 1..k + 1 |-> u[i]]
      BY <2>1, <2>7
    <3> QED BY <2>8, <3>1
  <2> QED BY <2>4, <2>9 DEF u, s, t
<1>4. \A v \in Int : v \notin m..e => From(v) = <<>>
  <2> SUFFICES ASSUME NEW v \in Int, v \notin m..e PROVE From(v) = <<>>
    OBVIOUS
  <2>1. From(v) = [i \in 1..0 |-> v + i - 1]
    OBVIOUS
  <2>2. From(v) \in Seq(Int) /\ Len(From(v)) = 0
    <3> HIDE DEF From
    <3>1. From(v) \in Seq(Int) /\ DOMAIN From(v) = 1..0
      BY <1>2, <2>1
    <3>2. Len(From(v)) \in Nat /\ DOMAIN From(v) = 1..Len(From(v))
      BY <3>1
    <3> QED BY <3>1, <3>2
  <2> HIDE DEF From
  <2> QED BY <2>2
<1> HIDE DEF in, From
<1>5. g = Body(g)
  <2>1. ASSUME NEW v \in Int PROVE g[v] = IF in(v) THEN <<v>> \o g[v + 1] ELSE <<>>
    <3>1. g[v] = From(v) /\ g[v + 1] = From(v + 1)
      OBVIOUS
    <3> HIDE DEF g
    <3> QED BY <1>1, <1>3, <1>4, <3>1
  <2>2. g = [v \in Int |-> g[v]]
    OBVIOUS
  <2> HIDE DEF g
  <2> QED BY <2>1, <2>2
<1>6. from = Body(from)
  <2> HIDE DEF Body, g
  <2> QED BY <1>5
<1>7. RangeArray(m, n, exclusive) = from[m]
  BY DEF RangeArray, in
<1> HIDE DEF from
<1>8. \A v \in Int : from[v] = IF in(v) THEN <<v>> \o from[v + 1] ELSE <<>>
  BY <1>6
<1>9. from[m] = From(m)
  <2>1. CASE m > e
    <3>1. m \notin m..e
      BY <2>1
    <3>2. from[m] = <<>>
      BY <1>1, <1>8, <3>1
    <3> QED BY <1>4, <3>1, <3>2
  <2>2. CASE m <= e
    <3> DEFINE N == e + 1 - m
               Q == {k \in 0..N : from[(e + 1) - k] = From((e + 1) - k)}
    <3>1. N \in Nat
      BY <2>2
    <3>2. Q \in SUBSET (0..N)
      OBVIOUS
    <3>3. 0 \in Q
      <4>1. e + 1 \in Int /\ e + 1 \notin m..e /\ (e + 1) - 0 = e + 1
        OBVIOUS
      <4>2. from[e + 1] = From(e + 1)
        BY <1>1, <1>4, <1>8, <4>1
      <4> HIDE DEF N
      <4> QED BY <3>1, <4>1, <4>2
    <3>4. ASSUME NEW k \in 1..N, k - 1 \in Q PROVE k \in Q
      <4> DEFINE v == (e + 1) - k
      <4>1. v \in m..e /\ v \in Int /\ (e + 1) - (k - 1) = v + 1 /\ k \in 0..N
        BY <3>1
      <4>2. from[v + 1] = From(v + 1)
        BY <3>4, <4>1
      <4> HIDE DEF v
      <4>3. from[v] = From(v)
        BY <1>1, <1>3, <1>8, <4>1, <4>2
      <4> QED BY <4>1, <4>3 DEF v
    <3> HIDE DEF Q, N
    <3>5. N \in Q
      <4>1. Q = 0..N
        BY <3>1, <3>2, <3>3, <3>4, Reached
      <4> QED BY <3>1, <4>1
    <3>6. (e + 1) - N = m
      BY DEF N
    <3>7. from[(e + 1) - N] = From((e + 1) - N)
      BY <3>5 DEF Q
    <3> QED BY <3>6, <3>7
  <2> QED BY <2>1, <2>2
<1>10. From(m) = [i \in 1..(IF m <= e THEN e - m + 1 ELSE 0) |-> m + i - 1]
  <2>1. m \in m..e <=> m <= e
    OBVIOUS
  <2> QED BY <2>1 DEF From
<1> QED BY <1>7, <1>9, <1>10

\* However an array came about, max and min give its greatest and its least number, ranges their
\* numbers, with the end and without it, and times counts from 0 (Enumerable.max, min,
\* ObjectRange, Number.times of prototype.js).
THEOREM NumbersHold == CollectionsSpec => []NumberLaws
<1>1. ASSUME array # <<>>, ToSet(array) \subseteq Numbers, ArrayInv
      PROVE  MaxOf(array) = Max(ToSet(array)) /\ MinOf(array) = Min(ToSet(array))
  <2> DEFINE S == ToSet(array)
  <2>1. \A x : x \in S <=> \E i \in 1..Len(array) : array[i] = x
    BY <1>1, ToSetIs DEF ArrayInv
  <2>2. array \in Seq(S)
    <3> HIDE DEF S
    <3>1. Len(array) \in Nat /\ array = [i \in 1..Len(array) |-> array[i]]
      BY <1>1 DEF ArrayInv
    <3>2. array \in [1..Len(array) -> S]
      BY <2>1, <3>1
    <3> QED BY <3>1, <3>2
  <2>3. S \in SUBSET Int /\ Undefined \notin S
    BY <1>1, NumbersAssumption
  <2> HIDE DEF S
  <2>4. MaxOf(array) \in S /\ \A x \in S : MaxOf(array) >= x
    BY <1>1, <2>2, <2>3, MaxIs DEF S
  <2>5. MinOf(array) \in S /\ \A x \in S : MinOf(array) <= x
    BY <1>1, <2>2, <2>3, MinIs DEF S
  <2>6. MaxOf(array) = Max(S)
    <3>1. \A y \in S : (\A x \in S : y >= x) => y = MaxOf(array)
      <4> SUFFICES ASSUME NEW y \in S, \A x \in S : y >= x PROVE y = MaxOf(array)
        OBVIOUS
      <4> DEFINE m == MaxOf(array)
      <4>1. m \in S /\ m >= y
        BY <2>4
      <4> HIDE DEF m
      <4>2. y >= m /\ m \in Int /\ y \in Int
        BY <2>3, <4>1
      <4> QED BY <4>1, <4>2 DEF m
    <3> QED BY <2>4, <3>1 DEF Max
  <2>7. MinOf(array) = Min(S)
    <3>1. \A y \in S : (\A x \in S : y <= x) => y = MinOf(array)
      <4> SUFFICES ASSUME NEW y \in S, \A x \in S : y <= x PROVE y = MinOf(array)
        OBVIOUS
      <4> DEFINE m == MinOf(array)
      <4>1. m \in S /\ m <= y
        BY <2>5
      <4> HIDE DEF m
      <4>2. y <= m /\ m \in Int /\ y \in Int
        BY <2>3, <4>1
      <4> QED BY <4>1, <4>2 DEF m
    <3> QED BY <2>5, <3>1 DEF Min
  <2> QED BY <2>6, <2>7 DEF S
<1>2. ASSUME NEW m \in Numbers, NEW n \in Numbers
      PROVE  /\ ToSet(RangeArray(m, n, FALSE)) = m..n
             /\ RangeArray(m, n, TRUE) = RangeArray(m, n - 1, FALSE)
  <2>1. m \in Int /\ n \in Int /\ n - 1 \in Int
    BY NumbersAssumption
  <2> DEFINE k == IF m <= n THEN n - m + 1 ELSE 0
             s == [i \in 1..k |-> m + i - 1]
  <2>2. RangeArray(m, n, FALSE) = s
    BY <2>1, RangeIs
  <2>3. RangeArray(m, n - 1, FALSE) = [i \in 1..(IF m <= n - 1 THEN (n - 1) - m + 1 ELSE 0) |-> m + i - 1]
    BY <2>1, RangeIs
  <2>4. RangeArray(m, n, TRUE) = [i \in 1..(IF m <= n - 1 THEN (n - 1) - m + 1 ELSE 0) |-> m + i - 1]
    BY <2>1, RangeIs
  <2>5. ToSet(s) = m..n
    <3>1. k \in Nat
      BY <2>1
    <3>2. DOMAIN s = 1..k /\ \A i \in 1..k : s[i] = m + i - 1
      OBVIOUS
    <3> HIDE DEF s
    <3>3. ToSet(s) = {s[i] : i \in 1..k}
      BY <3>2 DEF ToSet
    <3>4. \A i \in 1..k : m + i - 1 \in m..n
      BY <2>1
    <3>5. \A x \in m..n : (x - m) + 1 \in 1..k /\ m + ((x - m) + 1) - 1 = x
      BY <2>1
    <3> HIDE DEF k
    <3>6. \A x \in m..n : s[(x - m) + 1] = x
      BY <2>1, <3>2, <3>5
    <3>7. \A x \in m..n : x \in ToSet(s)
      BY <3>3, <3>5, <3>6
    <3>8. \A x \in ToSet(s) : x \in m..n
      BY <3>2, <3>3, <3>4
    <3> QED BY <3>7, <3>8
  <2> QED BY <2>2, <2>3, <2>4, <2>5
<1>3. ASSUME ArrayInv PROVE Times(Len(array)) = [i \in DOMAIN array |-> i - 1]
  <2> DEFINE N == Len(array)
  <2>1. N \in Nat /\ N \in Int /\ 0 \in Int /\ N - 1 \in Int /\ DOMAIN array = 1..N
    BY <1>3 DEF ArrayInv
  <2> HIDE DEF N
  <2>2. RangeArray(0, N, TRUE) = [i \in 1..(IF 0 <= N - 1 THEN (N - 1) - 0 + 1 ELSE 0) |-> 0 + i - 1]
    BY <2>1, RangeIs
  <2>3. (IF 0 <= N - 1 THEN (N - 1) - 0 + 1 ELSE 0) = N
    BY <2>1
  <2>4. \A i \in 1..N : 0 + i - 1 = i - 1
    OBVIOUS
  <2>5. Times(N) = [i \in 1..N |-> i - 1]
    BY <2>2, <2>3, <2>4 DEF Times
  <2> QED BY <2>1, <2>5 DEF N
<1>4. ArrayInv => NumberLaws
  BY <1>1, <1>2, <1>3 DEF NumberLaws
<1> QED BY <1>4, InitArray, NextArray, PTL DEF CollectionsSpec

\* However an array came about, zip pairs its values with those of the other array at the same
\* indices, and its last value is the first one of its reverse (Enumerable.zip, collect, Array.last,
\* first, reverse of prototype.js).
THEOREM PairsHold == CollectionsSpec => []PairLaws
<1>1. ASSUME ArrayInv PROVE PairLaws
  <2> DEFINE N == Len(array)
             other == Collect(Truth, array)
             both == [v \in Values |-> <<v, Truth[v]>>]
  <2>1. array \in Seq(Values) /\ N \in Nat /\ DOMAIN array = 1..N /\ \A i \in 1..N : array[i] \in Values
    BY <1>1 DEF ArrayInv
  <2>2. ZipWith(array, other) = Collect(both, array)
    <3>1. ZipWith(array, other) = [i \in 1..N |-> <<array[i], At(other, i)>>]
      BY <2>1 DEF ZipWith
    <3>2. other = [i \in 1..N |-> Truth[array[i]]]
      BY <2>1 DEF Collect
    <3>3. Collect(both, array) = [i \in 1..N |-> both[array[i]]]
      BY <2>1 DEF Collect
    <3>4. \A v \in Values : both[v] = <<v, Truth[v]>>
      OBVIOUS
    <3> HIDE DEF both, other, N
    <3>5. \A i \in 1..N : At(other, i) = Truth[array[i]]
      BY <3>2 DEF At
    <3>6. \A i \in 1..N : both[array[i]] = <<array[i], Truth[array[i]]>>
      BY <2>1, <3>4
    <3> QED BY <3>1, <3>3, <3>5, <3>6
  <2>3. array # <<>> => LastOf(array) = FirstOf(Reverse(array))
    <3> SUFFICES ASSUME array # <<>> PROVE LastOf(array) = FirstOf(Reverse(array))
      OBVIOUS
    <3> DEFINE r == Reverse(array)
    <3>1. r \in Seq(Values) /\ Len(r) = N /\ \A i \in 1..N : r[i] = array[N - i + 1]
      BY <2>1, ReverseIs
    <3> HIDE DEF r
    <3>2. 1 \in 1..N /\ N \in 1..N /\ N - 1 + 1 = N
      BY <2>1
    <3>3. r[1] = array[N]
      BY <3>1, <3>2
    <3>4. DOMAIN r = 1..N
      BY <3>1
    <3>5. FirstOf(r) = r[1] /\ LastOf(array) = array[N]
      <4> HIDE DEF N
      <4> QED BY <2>1, <3>2, <3>4 DEF FirstOf, LastOf, At, N
    <3> QED BY <3>3, <3>5 DEF r
  <2> QED BY <2>2, <2>3 DEF PairLaws
<1> QED BY <1>1, InitArray, NextArray, PTL DEF CollectionsSpec

\* How often one number goes into another.
LEMMA DivIs ==
    ASSUME NEW a \in Nat, NEW n \in Nat \ {0}
    PROVE  a \div n \in Nat /\ (a \div n) * n <= a /\ a < (a \div n) * n + n
<1>1. a \div n \in Int
  OBVIOUS
<1>2. a = n * (a \div n) + (a % n) /\ a % n \in 0..n - 1
  OBVIOUS
<1>3. (a \div n) * n <= a /\ a < (a \div n) * n + n
  BY <1>1, <1>2
<1>4. a \div n \in Nat
  <2> DEFINE q == a \div n
             b == - (q + 1)
  <2>1. \A x \in Nat : x * n \in Nat
    OBVIOUS
  <2>2. SUFFICES ASSUME q < 0 PROVE FALSE
    BY <1>1
  <2>3. b \in Nat /\ b * n = - (q * n + n) /\ q * n \in Int
    <3> HIDE DEF q
    <3>1. q \in Int
      BY <1>1 DEF q
    <3> QED BY <2>2, <3>1
  <2> HIDE DEF b
  <2>4. b * n \in Nat
    BY <2>1, <2>3
  <2>5. a < q * n + n
    BY <1>3
  <2> HIDE DEF q
  <2> QED BY <2>3, <2>4, <2>5
<1> QED BY <1>3, <1>4

\* The bounds of the slices: they follow each other, only the last one may be shorter, and it
\* ends with the array.
Bound(k, n, s) == Least(k * n, Len(s))
LEMMA SlicesAre ==
    ASSUME NEW S, NEW s \in Seq(S), NEW n \in Nat \ {0}
    PROVE  LET e == EachSlice(s, n) IN
           /\ e \in Seq(Seq(S)) /\ Bound(0, n, s) = 0 /\ Bound(Len(e), n, s) = Len(s)
           /\ \A k \in 1..Len(e) :
                 /\ Bound(k - 1, n, s) \in 0..Len(s) /\ Bound(k, n, s) \in 0..Len(s)
                 /\ Bound(k, n, s) - Bound(k - 1, n, s) \in 1..n
                 /\ k < Len(e) => Bound(k, n, s) - Bound(k - 1, n, s) = n
                 /\ e[k] = SubSeq(s, Bound(k - 1, n, s) + 1, Bound(k, n, s))
<1> DEFINE N == Len(s)
           K == (N + n - 1) \div n
           B(k) == Bound(k, n, s)
           e == EachSlice(s, n)
<1>1. N \in Nat /\ n \in Nat /\ n > 0
  OBVIOUS
<1>2. K \in Nat /\ K * n <= N + n - 1 /\ N + n - 1 < K * n + n
  <2> DEFINE a == N + n - 1
  <2>1. a \in Nat
    BY <1>1
  <2> HIDE DEF a
  <2>2. a \div n \in Nat /\ (a \div n) * n <= a /\ a < (a \div n) * n + n
    BY <2>1, DivIs
  <2> QED BY <2>2 DEF a
<1>3. e = [k \in 1..K |-> SubSeq(s, (k - 1) * n + 1, B(k))]
  BY DEF EachSlice, Bound
<1> HIDE DEF N, K
<1>4. \A k \in Nat : k * n \in Nat
  BY <1>1
<1>5. \A j, k \in Nat : j <= k => j * n <= k * n
  BY <1>1
<1>6. \A k \in Nat : B(k) = Least(k * n, N) /\ B(k) \in 0..N
  BY <1>1, <1>4 DEF Bound, Least, N
<1>7. ASSUME NEW k \in 0..K - 1 PROVE k * n < N /\ k * n \in Nat /\ B(k) = k * n
  <2>1. k \in Nat /\ k + 1 <= K /\ k + 1 \in Nat
    BY <1>2
  <2>2. (k + 1) * n <= K * n /\ (k + 1) * n = k * n + n
    BY <1>1, <1>2, <1>5, <2>1
  <2> DEFINE x == k * n
             y == K * n
  <2>3. x \in Nat /\ y \in Nat /\ x + n <= y /\ y <= N + n - 1
    BY <1>2, <1>4, <2>1, <2>2
  <2>4. B(k) = Least(x, N)
    BY <1>6, <2>1
  <2> HIDE DEF x, y, B
  <2>5. x < N
    BY <1>1, <2>3
  <2>6. B(k) = x
    BY <2>4, <2>5 DEF Least
  <2> QED BY <2>3, <2>5, <2>6 DEF x
<1>8. ASSUME NEW k \in 1..K
      PROVE  /\ B(k - 1) \in 0..N /\ B(k) \in 0..N
             /\ B(k) - B(k - 1) \in 1..n
             /\ k < K => B(k) - B(k - 1) = n
             /\ (k - 1) * n + 1 = B(k - 1) + 1
  <2>1. k \in Nat /\ k - 1 \in Nat /\ k - 1 \in 0..K - 1 /\ (k < K => k \in 0..K - 1)
    BY <1>2
  <2>2. k * n = (k - 1) * n + n
    BY <1>1, <2>1
  <2> DEFINE x == (k - 1) * n
             y == k * n
  <2>3. /\ x < N /\ x \in Nat /\ B(k - 1) = x
        /\ y = x + n /\ y \in Nat
        /\ B(k) = Least(y, N) /\ B(k) \in 0..N
        /\ k < K => B(k) = y
    BY <1>4, <1>6, <1>7, <2>1, <2>2
  <2> HIDE DEF B, x, y
  <2>4. B(k) - x \in 1..n
    BY <1>1, <2>3 DEF Least
  <2> QED BY <1>1, <2>3, <2>4 DEF x
<1>9. B(0) = 0 /\ B(K) = N
  <2>1. 0 * n = 0 /\ Least(0, N) = 0
    BY <1>1 DEF Least
  <2> DEFINE y == K * n
  <2>2. y \in Nat /\ N <= y /\ B(K) = Least(y, N)
    BY <1>1, <1>2, <1>4, <1>6
  <2>3. B(0) = 0
    BY <1>6, <2>1
  <2> HIDE DEF y, B
  <2>4. B(K) = N
    BY <1>1, <2>2 DEF Least
  <2> QED BY <2>3, <2>4
<1> HIDE DEF e, B
<1>10. \A k \in 1..K : SubSeq(s, B(k - 1) + 1, B(k)) \in Seq(S)
  <2> SUFFICES ASSUME NEW k \in 1..K PROVE SubSeq(s, B(k - 1) + 1, B(k)) \in Seq(S)
    OBVIOUS
  <2>1. B(k - 1) \in 0..Len(s) /\ B(k) \in 0..Len(s)
    BY <1>8 DEF N
  <2> DEFINE i == B(k - 1) + 1
             j == B(k)
  <2>2. i \in 1..Len(s) + 1 /\ j \in 0..Len(s)
    BY <2>1
  <2> HIDE DEF i, j
  <2>3. SubSeq(s, i, j) \in Seq(S)
    BY <2>2
  <2> QED BY <2>3 DEF i, j
<1>11. e = [k \in 1..K |-> SubSeq(s, B(k - 1) + 1, B(k))]
  BY <1>3, <1>8
<1>12. e \in Seq(Seq(S)) /\ Len(e) = K
  <2>1. e \in [1..K -> Seq(S)]
    BY <1>10, <1>11
  <2> QED BY <1>2, <2>1
<1>13. \A k \in 1..K : e[k] = SubSeq(s, B(k - 1) + 1, B(k))
  BY <1>11
<1> QED BY <1>8, <1>9, <1>12, <1>13 DEF B, N, e

\* The start of an array and what follows it.
LEMMA StartAndRest ==
    ASSUME NEW S, NEW s \in Seq(S), NEW a \in 0..Len(s), NEW b \in 0..Len(s), a <= b
    PROVE  /\ SubSeq(s, 1, a) \o SubSeq(s, a + 1, b) = SubSeq(s, 1, b)
           /\ Len(SubSeq(s, a + 1, b)) = b - a
<1> DEFINE t == SubSeq(s, 1, a)
           u == SubSeq(s, a + 1, b)
           w == SubSeq(s, 1, b)
<1>1. a \in Nat /\ b \in Nat /\ Len(s) \in Nat /\ a <= b /\ b <= Len(s)
  OBVIOUS
<1>2. t \in Seq(S) /\ Len(t) = a /\ \A i \in 1..a : t[i] = s[i]
  BY <1>1
<1>3. w \in Seq(S) /\ Len(w) = b /\ \A i \in 1..b : w[i] = s[i]
  BY <1>1
<1>4. u \in Seq(S) /\ Len(u) = b - a /\ \A i \in 1..b - a : u[i] = s[a + i]
  <2> DEFINE c == a + 1
  <2>1. c \in 1..Len(s) + 1 /\ b \in 0..Len(s) /\ b - c + 1 = b - a /\ c <= b + 1
    BY <1>1
  <2>2. \A i \in 1..b - a : c + i - 1 = a + i
    BY <1>1
  <2> HIDE DEF c
  <2> DEFINE v == SubSeq(s, c, b)
  <2>3. v \in Seq(S)
    BY <2>1
  <2>4. Len(v) = b - c + 1
    BY <2>1
  <2>5. \A i \in 1..b - c + 1 : v[i] = s[c + i - 1]
    BY <2>1
  <2>6. v = u
    BY DEF c
  <2> HIDE DEF v, u
  <2> QED BY <2>1, <2>2, <2>3, <2>4, <2>5, <2>6
<1> HIDE DEF t, u, w
<1> DEFINE z == t \o u
<1>5. /\ z \in Seq(S) /\ Len(z) = Len(t) + Len(u)
      /\ \A i \in 1..Len(t) + Len(u) : z[i] = IF i <= Len(t) THEN t[i] ELSE u[i - Len(t)]
  <2>1. t \in Seq(S) /\ u \in Seq(S)
    BY <1>2, <1>4
  <2> QED BY <2>1
<1> HIDE DEF z
<1>6. Len(z) = b /\ \A i \in 1..b : z[i] = IF i <= a THEN t[i] ELSE u[i - a]
  <2>1. Len(t) + Len(u) = b
    BY <1>1, <1>2, <1>4
  <2> QED BY <1>2, <1>5, <2>1
<1>7. \A i \in 1..b : z[i] = w[i]
  <2> SUFFICES ASSUME NEW i \in 1..b PROVE z[i] = w[i]
    OBVIOUS
  <2>1. CASE i <= a
    <3>1. i \in 1..a
      BY <1>1, <2>1
    <3> QED BY <1>2, <1>3, <1>6, <2>1, <3>1
  <2>2. CASE i > a
    <3>1. i - a \in 1..b - a /\ a + (i - a) = i
      BY <1>1, <2>2
    <3>2. z[i] = u[i - a]
      BY <1>1, <1>6, <2>2
    <3> QED BY <1>3, <1>4, <3>1, <3>2
  <2> QED BY <1>1, <2>1, <2>2
<1>8. z = w
  BY <1>3, <1>5, <1>6, <1>7
<1> QED BY <1>4, <1>8 DEF z, w, t, u

\* However an array came about, its slices put together are the array, all of the number but the
\* last one, and groups are of the number (Enumerable.eachSlice, inGroupsOf, Array.flatten of
\* prototype.js).
THEOREM SlicesHold == CollectionsSpec => [](\A n \in 1..MaxLength + 1 : Slices(n))
<1>1. ASSUME ArrayInv, NEW n \in Nat \ {0} PROVE Slices(n)
  <2> DEFINE e == EachSlice(array, n)
             K == Len(e)
             N == Len(array)
             B(k) == Bound(k, n, array)
  <2>1. /\ e \in Seq(Seq(Values)) /\ B(0) = 0 /\ B(K) = N
        /\ \A k \in 1..K :
              /\ B(k - 1) \in 0..N /\ B(k) \in 0..N
              /\ B(k) - B(k - 1) \in 1..n
              /\ k < K => B(k) - B(k - 1) = n
              /\ e[k] = SubSeq(array, B(k - 1) + 1, B(k))
    BY <1>1, SlicesAre DEF ArrayInv
  <2>2. array \in Seq(Values) /\ N \in Nat /\ K \in Nat /\ DOMAIN e = 1..K
    BY <1>1, <2>1 DEF ArrayInv
  <2>3. ASSUME NEW k \in 1..K
        PROVE  /\ SubSeq(array, 1, B(k - 1)) \o e[k] = SubSeq(array, 1, B(k))
               /\ Len(e[k]) = B(k) - B(k - 1)
    <3> HIDE DEF B, e, K
    <3>1. B(k - 1) \in 0..Len(array) /\ B(k) \in 0..Len(array) /\ B(k - 1) <= B(k)
      <4> DEFINE x == B(k - 1)
                 y == B(k)
      <4>1. x \in 0..N /\ y \in 0..N /\ y - x \in 1..n
        BY <2>1
      <4> HIDE DEF x, y
      <4>2. x \in 0..N /\ y \in 0..N /\ x <= y
        BY <1>1, <2>2, <4>1
      <4> QED BY <4>2 DEF x, y, N
    <3>2. e[k] = SubSeq(array, B(k - 1) + 1, B(k))
      BY <2>1
    <3> DEFINE a == B(k - 1)
               b == B(k)
    <3>3. a \in 0..Len(array) /\ b \in 0..Len(array) /\ a <= b /\ e[k] = SubSeq(array, a + 1, b)
      BY <3>1, <3>2
    <3> HIDE DEF a, b
    <3>4. /\ SubSeq(array, 1, a) \o SubSeq(array, a + 1, b) = SubSeq(array, 1, b)
          /\ Len(SubSeq(array, a + 1, b)) = b - a
      BY <2>2, <3>3, StartAndRest
    <3> QED BY <3>3, <3>4 DEF a, b
  <2> HIDE DEF B, e
  <2>4. Flatten(e) = array
    <3>1. PICK c \in [0..Len(e) -> Seq(Values)] :
             /\ Flatten(e) = c[Len(e)]
             /\ c[0] = <<>>
             /\ \A i \in 1..Len(e) : c[i] = Concat(c[i - 1], e[i])
      BY <2>1, FlattenSteps
    <3> HIDE DEF K, N
    <3>2. \A i \in 1..K : c[i] = c[i - 1] \o e[i]
      BY <3>1 DEF Concat, K
    <3> DEFINE P == {k \in 0..K : c[k] = SubSeq(array, 1, B(k))}
    <3>3. P \in SUBSET (0..K)
      OBVIOUS
    <3>4. 0 \in P
      <4> DEFINE t == SubSeq(array, 1, 0)
      <4>1. t \in Seq(Values) /\ Len(t) = 0
        BY <2>2
      <4> HIDE DEF t
      <4>2. t = <<>>
        BY <4>1
      <4>3. c[0] = SubSeq(array, 1, B(0))
        BY <2>1, <3>1, <4>2 DEF t
      <4> QED BY <2>2, <4>3
    <3>5. ASSUME NEW k \in 1..K, k - 1 \in P PROVE k \in P
      <4>1. c[k - 1] = SubSeq(array, 1, B(k - 1)) /\ k \in 0..K
        BY <2>2, <3>5
      <4>2. c[k] = SubSeq(array, 1, B(k))
        BY <2>3, <3>2, <4>1
      <4> QED BY <4>1, <4>2
    <3> HIDE DEF P
    <3>6. P = 0..K
      BY <2>2, <3>3, <3>4, <3>5, Reached
    <3>7. c[K] = SubSeq(array, 1, B(K))
      BY <2>2, <3>6 DEF P
    <3>8. SubSeq(array, 1, N) = array
      <4> DEFINE t == SubSeq(array, 1, N)
      <4>1. t \in Seq(Values) /\ Len(t) = Len(array) /\ \A i \in 1..Len(array) : t[i] = array[i]
        BY <2>2 DEF N
      <4> HIDE DEF t
      <4>2. t = array
        BY <2>2, <4>1
      <4> QED BY <4>2 DEF t
    <3> QED BY <2>1, <3>1, <3>7, <3>8 DEF K
  <2>5. \A i \in DOMAIN e : Len(e[i]) \in 1..n
    <3> HIDE DEF K
    <3> QED BY <2>1, <2>2, <2>3
  <2>6. \A i \in DOMAIN e : i < Len(e) => Len(e[i]) = n
    BY <2>1, <2>2, <2>3
  <2>7. \A i \in DOMAIN e : Len(InGroupsOf(array, n, Null)[i]) = n
    <3> SUFFICES ASSUME NEW i \in DOMAIN e PROVE Len(InGroupsOf(array, n, Null)[i]) = n
      OBVIOUS
    <3> DEFINE group == [j \in 1..n |-> IF j \in DOMAIN e[i] THEN e[i][j] ELSE Null]
    <3>1. InGroupsOf(array, n, Null)[i] = group
      BY DEF InGroupsOf, e
    <3>2. e[i] \in Seq(Values) /\ n \in Nat
      BY <1>1, <2>1, <2>2
    <3>3. \A j \in DOMAIN e[i] : e[i][j] \in Values
      BY <3>2
    <3>4. group \in [1..n -> Values \union {Null}]
      BY <3>3
    <3>5. Len(group) = n
      <4> HIDE DEF group
      <4> QED BY <3>2, <3>4
    <3> QED BY <3>1, <3>5
  <2> QED BY <2>4, <2>5, <2>6, <2>7 DEF Slices, e
<1>2. ArrayInv => \A n \in 1..MaxLength + 1 : Slices(n)
  BY <1>1, MaxLengthAssumption
<1> QED BY <1>2, InitArray, NextArray, PTL DEF CollectionsSpec

\* What reject has kept after each value.
LEMMA RejectSteps ==
    ASSUME NEW S, NEW s \in Seq(S), NEW test
    PROVE  \E c \in [0..Len(s) -> Seq(S)] :
              /\ Reject(test, s) = c[Len(s)]
              /\ c[0] = <<>>
              /\ \A i \in 1..Len(s) : c[i] = Pushed(c[i - 1], s[i], s[i] \notin test)
<1> DEFINE N == Len(s)
           R == Seq(S)
           f == [i \in 1..N |-> [r \in R |-> Pushed(r, s[i], s[i] \notin test)]]
           Body(g) == [n \in 0..N |-> IF n = 0 THEN <<>> ELSE Pushed(g[n - 1], s[n], s[n] \notin test)]
           given == CHOOSE g : g = Body(g)
<1>1. N \in Nat /\ <<>> \in R
  OBVIOUS
<1>2. \A i \in 1..N, r \in R : Pushed(r, s[i], s[i] \notin test) \in R
  BY DEF Pushed
<1>3. f \in [1..N -> [R -> R]]
  <2> HIDE DEF N, R
  <2> QED BY <1>2
<1>4. PICK g : g \in [0..N -> R] /\ g[0] = <<>> /\ \A i \in 1..N : g[i] = f[i][g[i - 1]]
  <2> HIDE DEF f, N, R
  <2>1. PICK g : g \in Chains(N, N, R, <<>>, f)
    BY <1>1, <1>3, Iterated
  <2> QED BY <2>1 DEF Chains
<1>5. \A i \in 1..N : g[i] = Pushed(g[i - 1], s[i], s[i] \notin test)
  <2> SUFFICES ASSUME NEW i \in 1..N PROVE g[i] = Pushed(g[i - 1], s[i], s[i] \notin test)
    OBVIOUS
  <2>1. f[i] = [r \in R |-> Pushed(r, s[i], s[i] \notin test)]
    OBVIOUS
  <2>2. i - 1 \in 0..N
    BY <1>1
  <2> HIDE DEF f, N, R
  <2>3. g[i] = f[i][g[i - 1]] /\ g[i - 1] \in R
    BY <1>4, <2>2
  <2> QED BY <2>1, <2>3
<1>6. g = Body(g)
  <2>1. \A n \in 0..N : n = 0 \/ n \in 1..N
    BY <1>1
  <2> HIDE DEF N, R
  <2>2. \A n \in 0..N : g[n] = IF n = 0 THEN <<>> ELSE Pushed(g[n - 1], s[n], s[n] \notin test)
    BY <1>4, <1>5, <2>1
  <2> QED BY <1>4, <2>2
<1>7. given = Body(given)
  <2> HIDE DEF Body
  <2> QED BY <1>6
<1>8. Reject(test, s) = given[N]
  BY DEF Reject, Inject
<1> HIDE DEF given, R
<1>9. given[0] = <<>> /\ \A i \in 1..N : given[i] = Pushed(given[i - 1], s[i], s[i] \notin test)
  <2>1. 0 \in 0..N /\ \A i \in 1..N : i \in 0..N /\ i # 0
    BY <1>1
  <2> HIDE DEF N
  <2> QED BY <1>7, <2>1
<1>10. \A i \in 0..N : given[i] \in R
  <2> HIDE DEF N, R
  <2>1. \A i \in 1..N : given[i - 1] \in R => given[i] \in R
    <3> SUFFICES ASSUME NEW i \in 1..N, given[i - 1] \in R PROVE given[i] \in R
      OBVIOUS
    <3> DEFINE r == given[i - 1]
    <3>1. given[i] = Pushed(r, s[i], s[i] \notin test) /\ r \in R
      BY <1>9
    <3> HIDE DEF r
    <3> QED BY <1>2, <3>1
  <2> QED BY <1>1, <1>9, <2>1, StaysIn
<1>11. given \in [0..N -> R]
  <2>1. given = [n \in 0..N |-> given[n]]
    BY <1>7
  <2> HIDE DEF N
  <2> QED BY <1>10, <2>1
<1> QED BY <1>8, <1>9, <1>11 DEF R

\* all says whether every value passes.
LEMMA EveryIs ==
    ASSUME NEW S, NEW s \in Seq(S), NEW test
    PROVE  Every(test, s) <=> \A j \in 1..Len(s) : s[j] \in test
<1> DEFINE N == Len(s)
           R == BOOLEAN
           base == TRUE
           Next1(r, i) == (r /\ s[i] \in test)
           f == [i \in 1..N |-> [r \in R |-> Next1(r, i)]]
           Value(g, n) == IF n = 0 THEN base ELSE Next1(g[n - 1], n)
           Body(g) == [n \in 0..N |-> Value(g, n)]
           given == CHOOSE g : g = Body(g)
<1>1. N \in Nat /\ base \in R
  OBVIOUS
<1>2. \A i \in 1..N, r \in R : Next1(r, i) \in R
  OBVIOUS
<1>3. Every(test, s) = given[N]
  BY DEF Every, Inject
<1> HIDE DEF N, R, base, Next1, given
<1>4. f \in [1..N -> [R -> R]]
  BY <1>2
<1>5. PICK g : g \in [0..N -> R] /\ g[0] = base /\ \A i \in 1..N : g[i] = f[i][g[i - 1]]
  <2> HIDE DEF f
  <2>1. PICK g : g \in Chains(N, N, R, base, f)
    BY <1>1, <1>4, Iterated
  <2> QED BY <2>1 DEF Chains
<1>6. \A i \in 1..N : g[i] = Next1(g[i - 1], i)
  <2> SUFFICES ASSUME NEW i \in 1..N PROVE g[i] = Next1(g[i - 1], i)
    OBVIOUS
  <2>1. f[i] = [r \in R |-> Next1(r, i)]
    OBVIOUS
  <2>2. i - 1 \in 0..N
    BY <1>1
  <2> HIDE DEF f
  <2>3. g[i] = f[i][g[i - 1]] /\ g[i - 1] \in R
    BY <1>5, <2>2
  <2> QED BY <2>1, <2>3
<1>7. g = Body(g)
  <2>1. \A n \in 0..N : n = 0 \/ n \in 1..N
    BY <1>1
  <2>2. \A n \in 0..N : g[n] = Value(g, n)
    BY <1>5, <1>6, <2>1
  <2> HIDE DEF Value
  <2> QED BY <1>5, <2>2
<1>8. given = Body(given)
  <2> HIDE DEF Body
  <2> QED BY <1>7 DEF given
<1>9. given[0] = base /\ \A i \in 1..N : given[i] = Next1(given[i - 1], i)
  <2>1. 0 \in 0..N /\ \A i \in 1..N : i \in 0..N /\ i # 0
    BY <1>1
  <2>2. \A n \in 0..N : given[n] = Value(given, n)
    <3> HIDE DEF Value
    <3> QED BY <1>8
  <2> QED BY <2>1, <2>2
<1>10. \A i \in 0..N : given[i] \in R
  <2>1. \A i \in 1..N : given[i - 1] \in R => given[i] \in R
    BY <1>2, <1>9
  <2> QED BY <1>1, <1>9, <2>1, StaysIn
<1>12. (given[0] <=> TRUE) /\ \A i \in 1..N : given[i] <=> given[i - 1] /\ s[i] \in test
  BY <1>9 DEF base, Next1
<1> DEFINE Has(n) == given[n] <=> \A j \in 1..n : s[j] \in test
           P == {n \in 0..N : Has(n)}
<1>13. \A n \in 1..N : n \in 0..N /\ 1..n = (1..n - 1) \union {n}
  BY <1>1
<1>14. 0 \in P
  <2>1. Has(0)
    BY <1>12
  <2> HIDE DEF Has
  <2> QED BY <1>1, <2>1
<1>15. ASSUME NEW i \in 1..N, i - 1 \in P PROVE i \in P
  <2>1. given[i - 1] <=> \A j \in 1..i - 1 : s[j] \in test
    BY <1>15
  <2>2. Has(i)
    BY <1>12, <1>13, <2>1
  <2> HIDE DEF Has
  <2> QED BY <1>13, <2>2
<1>16. Has(N)
  <2> HIDE DEF Has
  <2>1. P \in SUBSET (0..N)
    OBVIOUS
  <2>2. \A i \in 1..N : i - 1 \in P => i \in P
    BY <1>15
  <2> HIDE DEF P
  <2>3. N \in P
    <3>1. P = 0..N
      BY <1>1, <1>14, <2>1, <2>2, Reached
    <3> QED BY <1>1, <3>1
  <2> QED BY <2>3 DEF P
<1> QED BY <1>3, <1>16 DEF N

\* any says whether some value passes.
LEMMA SomeIs ==
    ASSUME NEW S, NEW s \in Seq(S), NEW test
    PROVE  Some(test, s) <=> \E j \in 1..Len(s) : s[j] \in test
<1> DEFINE N == Len(s)
           R == BOOLEAN
           base == FALSE
           Next1(r, i) == (r \/ s[i] \in test)
           f == [i \in 1..N |-> [r \in R |-> Next1(r, i)]]
           Value(g, n) == IF n = 0 THEN base ELSE Next1(g[n - 1], n)
           Body(g) == [n \in 0..N |-> Value(g, n)]
           given == CHOOSE g : g = Body(g)
<1>1. N \in Nat /\ base \in R
  OBVIOUS
<1>2. \A i \in 1..N, r \in R : Next1(r, i) \in R
  OBVIOUS
<1>3. Some(test, s) = given[N]
  BY DEF Some, Inject
<1> HIDE DEF N, R, base, Next1, given
<1>4. f \in [1..N -> [R -> R]]
  BY <1>2
<1>5. PICK g : g \in [0..N -> R] /\ g[0] = base /\ \A i \in 1..N : g[i] = f[i][g[i - 1]]
  <2> HIDE DEF f
  <2>1. PICK g : g \in Chains(N, N, R, base, f)
    BY <1>1, <1>4, Iterated
  <2> QED BY <2>1 DEF Chains
<1>6. \A i \in 1..N : g[i] = Next1(g[i - 1], i)
  <2> SUFFICES ASSUME NEW i \in 1..N PROVE g[i] = Next1(g[i - 1], i)
    OBVIOUS
  <2>1. f[i] = [r \in R |-> Next1(r, i)]
    OBVIOUS
  <2>2. i - 1 \in 0..N
    BY <1>1
  <2> HIDE DEF f
  <2>3. g[i] = f[i][g[i - 1]] /\ g[i - 1] \in R
    BY <1>5, <2>2
  <2> QED BY <2>1, <2>3
<1>7. g = Body(g)
  <2>1. \A n \in 0..N : n = 0 \/ n \in 1..N
    BY <1>1
  <2>2. \A n \in 0..N : g[n] = Value(g, n)
    BY <1>5, <1>6, <2>1
  <2> HIDE DEF Value
  <2> QED BY <1>5, <2>2
<1>8. given = Body(given)
  <2> HIDE DEF Body
  <2> QED BY <1>7 DEF given
<1>9. given[0] = base /\ \A i \in 1..N : given[i] = Next1(given[i - 1], i)
  <2>1. 0 \in 0..N /\ \A i \in 1..N : i \in 0..N /\ i # 0
    BY <1>1
  <2>2. \A n \in 0..N : given[n] = Value(given, n)
    <3> HIDE DEF Value
    <3> QED BY <1>8
  <2> QED BY <2>1, <2>2
<1>10. \A i \in 0..N : given[i] \in R
  <2>1. \A i \in 1..N : given[i - 1] \in R => given[i] \in R
    BY <1>2, <1>9
  <2> QED BY <1>1, <1>9, <2>1, StaysIn
<1>12. (given[0] <=> FALSE) /\ \A i \in 1..N : given[i] <=> given[i - 1] \/ s[i] \in test
  BY <1>9 DEF base, Next1
<1> DEFINE Has(n) == given[n] <=> \E j \in 1..n : s[j] \in test
           P == {n \in 0..N : Has(n)}
<1>13. \A n \in 1..N : n \in 0..N /\ 1..n = (1..n - 1) \union {n}
  BY <1>1
<1>14. 0 \in P
  <2>1. Has(0)
    BY <1>12
  <2> HIDE DEF Has
  <2> QED BY <1>1, <2>1
<1>15. ASSUME NEW i \in 1..N, i - 1 \in P PROVE i \in P
  <2>1. given[i - 1] <=> \E j \in 1..i - 1 : s[j] \in test
    BY <1>15
  <2>2. Has(i)
    BY <1>12, <1>13, <2>1
  <2> HIDE DEF Has
  <2> QED BY <1>13, <2>2
<1>16. Has(N)
  <2> HIDE DEF Has
  <2>1. P \in SUBSET (0..N)
    OBVIOUS
  <2>2. \A i \in 1..N : i - 1 \in P => i \in P
    BY <1>15
  <2> HIDE DEF P
  <2>3. N \in P
    <3>1. P = 0..N
      BY <1>1, <1>14, <2>1, <2>2, Reached
    <3> QED BY <1>1, <3>1
  <2> QED BY <2>3 DEF P
<1> QED BY <1>3, <1>16 DEF N

\* partition gives the two parts that findAll and reject give.
LEMMA PartitionIs ==
    ASSUME NEW S, NEW s \in Seq(S), NEW test
    PROVE  /\ FindAll(test, s) \in Seq(S) /\ Reject(test, s) \in Seq(S)
           /\ Partition(test, s) = <<FindAll(test, s), Reject(test, s)>>
           /\ Len(FindAll(test, s)) + Len(Reject(test, s)) = Len(s)
           /\ FindAll(test, s) = <<>> <=> \A j \in 1..Len(s) : s[j] \notin test
           /\ Reject(test, s) = <<>> <=> \A j \in 1..Len(s) : s[j] \in test
<1>a. PICK c \in [0..Len(s) -> Seq(S)] :
         /\ FindAll(test, s) = c[Len(s)]
         /\ c[0] = <<>>
         /\ \A i \in 1..Len(s) : c[i] = Pushed(c[i - 1], s[i], s[i] \in test)
  BY FindAllSteps
<1>b. PICK d \in [0..Len(s) -> Seq(S)] :
         /\ Reject(test, s) = d[Len(s)]
         /\ d[0] = <<>>
         /\ \A i \in 1..Len(s) : d[i] = Pushed(d[i - 1], s[i], s[i] \notin test)
  BY RejectSteps
<1> DEFINE N == Len(s)
           R == (Seq(S) \X Seq(S))
           base == <<<<>>, <<>>>>
           Next1(r, i) == <<Pushed(r[1], s[i], s[i] \in test), Pushed(r[2], s[i], s[i] \notin test)>>
           f == [i \in 1..N |-> [r \in R |-> Next1(r, i)]]
           Value(g, n) == IF n = 0 THEN base ELSE Next1(g[n - 1], n)
           Body(g) == [n \in 0..N |-> Value(g, n)]
           given == CHOOSE g : g = Body(g)
<1>1. N \in Nat /\ base \in R
  <2> DEFINE none == <<>>
  <2>1. none \in Seq(S)
    OBVIOUS
  <2> HIDE DEF none
  <2>2. <<none, none>> \in R
    BY <2>1
  <2> QED BY <2>2 DEF none
<1>2. \A i \in 1..N, r \in R : Next1(r, i) \in R
  <2> SUFFICES ASSUME NEW i \in 1..N, NEW r \in R PROVE Next1(r, i) \in R
    OBVIOUS
  <2>1. r[1] \in Seq(S) /\ r[2] \in Seq(S) /\ s[i] \in S
    OBVIOUS
  <2> DEFINE t == Pushed(r[1], s[i], s[i] \in test)
             u == Pushed(r[2], s[i], s[i] \notin test)
  <2>2. t \in Seq(S) /\ u \in Seq(S)
    BY <2>1 DEF Pushed
  <2> HIDE DEF t, u
  <2>3. <<t, u>> \in R
    BY <2>2
  <2> QED BY <2>3 DEF t, u
<1>3. Partition(test, s) = given[N]
  BY DEF Partition, Inject
<1> HIDE DEF N, R, base, Next1, given
<1>4. f \in [1..N -> [R -> R]]
  BY <1>2
<1>5. PICK g : g \in [0..N -> R] /\ g[0] = base /\ \A i \in 1..N : g[i] = f[i][g[i - 1]]
  <2> HIDE DEF f
  <2>1. PICK g : g \in Chains(N, N, R, base, f)
    BY <1>1, <1>4, Iterated
  <2> QED BY <2>1 DEF Chains
<1>6. \A i \in 1..N : g[i] = Next1(g[i - 1], i)
  <2> SUFFICES ASSUME NEW i \in 1..N PROVE g[i] = Next1(g[i - 1], i)
    OBVIOUS
  <2>1. f[i] = [r \in R |-> Next1(r, i)]
    OBVIOUS
  <2>2. i - 1 \in 0..N
    BY <1>1
  <2> HIDE DEF f
  <2>3. g[i] = f[i][g[i - 1]] /\ g[i - 1] \in R
    BY <1>5, <2>2
  <2> QED BY <2>1, <2>3
<1>7. g = Body(g)
  <2>1. \A n \in 0..N : n = 0 \/ n \in 1..N
    BY <1>1
  <2>2. \A n \in 0..N : g[n] = Value(g, n)
    BY <1>5, <1>6, <2>1
  <2> HIDE DEF Value
  <2> QED BY <1>5, <2>2
<1>8. given = Body(given)
  <2> HIDE DEF Body
  <2> QED BY <1>7 DEF given
<1>9. given[0] = base /\ \A i \in 1..N : given[i] = Next1(given[i - 1], i)
  <2>1. 0 \in 0..N /\ \A i \in 1..N : i \in 0..N /\ i # 0
    BY <1>1
  <2>2. \A n \in 0..N : given[n] = Value(given, n)
    <3> HIDE DEF Value
    <3> QED BY <1>8
  <2> QED BY <2>1, <2>2
<1>10. \A i \in 0..N : given[i] \in R
  <2>1. \A i \in 1..N : given[i - 1] \in R => given[i] \in R
    BY <1>2, <1>9
  <2> QED BY <1>1, <1>9, <2>1, StaysIn
<1>11. \A n \in 0..N : c[n] \in Seq(S) /\ d[n] \in Seq(S)
  BY DEF N
<1> DEFINE Has(n) == /\ given[n] = <<c[n], d[n]>>
                     /\ Len(c[n]) + Len(d[n]) = n
                     /\ c[n] = <<>> <=> \A j \in 1..n : s[j] \notin test
                     /\ d[n] = <<>> <=> \A j \in 1..n : s[j] \in test
           P == {n \in 0..N : Has(n)}
<1>12. \A n \in 1..N : n \in 0..N /\ n - 1 \in 0..N /\ 1..n = (1..n - 1) \union {n}
  BY <1>1
<1>14. 0 \in P
  <2>1. c[0] = <<>> /\ d[0] = <<>> /\ Len(c[0]) = 0 /\ Len(d[0]) = 0
    BY <1>a, <1>b
  <2>2. given[0] = <<c[0], d[0]>>
    BY <1>9, <2>1 DEF base
  <2>3. Has(0)
    BY <2>1, <2>2
  <2> HIDE DEF Has
  <2> QED BY <1>1, <2>3
<1>15. ASSUME NEW i \in 1..N, i - 1 \in P PROVE i \in P
  <2> DEFINE r == c[i - 1]
             q == d[i - 1]
             v == s[i]
             yes == v \in test
  <2>1. /\ i \in Nat /\ v \in S /\ r \in Seq(S) /\ q \in Seq(S)
        /\ given[i - 1] = <<r, q>> /\ Len(r) + Len(q) = i - 1
        /\ r = <<>> <=> \A j \in 1..i - 1 : s[j] \notin test
        /\ q = <<>> <=> \A j \in 1..i - 1 : s[j] \in test
    BY <1>11, <1>12, <1>15 DEF N
  <2>2. c[i] = Pushed(r, v, v \in test) /\ d[i] = Pushed(q, v, v \notin test)
    BY <1>a, <1>b DEF N
  <2>3. given[i] = <<Pushed(given[i - 1][1], v, v \in test), Pushed(given[i - 1][2], v, v \notin test)>>
    BY <1>9 DEF Next1
  <2>4. /\ (\A j \in 1..i : s[j] \notin test) <=> (\A j \in 1..i - 1 : s[j] \notin test) /\ ~ yes
        /\ (\A j \in 1..i : s[j] \in test) <=> (\A j \in 1..i - 1 : s[j] \in test) /\ yes
    BY <1>12
  <2> HIDE DEF r, q, v
  <2>5. given[i - 1][1] = r /\ given[i - 1][2] = q
    BY <2>1
  <2>6. given[i] = <<c[i], d[i]>>
    BY <2>2, <2>3, <2>5
  <2>7. yes => c[i] = Append(r, v) /\ d[i] = q
    BY <2>2 DEF Pushed
  <2>8. ~ yes => c[i] = r /\ d[i] = Append(q, v)
    BY <2>2 DEF Pushed
  <2>9. Len(Append(r, v)) = Len(r) + 1 /\ Len(r) \in Nat
    BY <2>1
  <2>10. Len(Append(q, v)) = Len(q) + 1 /\ Len(q) \in Nat
    BY <2>1
  <2>11. Append(r, v) # <<>> /\ Append(q, v) # <<>>
    <3> DEFINE t == Append(r, v)
               u == Append(q, v)
    <3>1. Len(t) # 0 /\ Len(u) # 0
      BY <2>9, <2>10
    <3> HIDE DEF t, u
    <3>2. t # <<>> /\ u # <<>>
      BY <3>1
    <3> QED BY <3>2 DEF t, u
  <2>12. Len(c[i]) + Len(d[i]) = i
    <3>1. CASE yes
      <4>1. Len(c[i]) = Len(r) + 1 /\ Len(d[i]) = Len(q)
        BY <2>7, <2>9, <3>1
      <4> QED BY <2>1, <2>9, <2>10, <4>1
    <3>2. CASE ~ yes
      <4>1. Len(c[i]) = Len(r) /\ Len(d[i]) = Len(q) + 1
        BY <2>8, <2>10, <3>2
      <4> QED BY <2>1, <2>9, <2>10, <4>1
    <3> QED BY <3>1, <3>2
  <2> HIDE DEF yes
  <2>13. /\ c[i] = <<>> <=> \A j \in 1..i : s[j] \notin test
         /\ d[i] = <<>> <=> \A j \in 1..i : s[j] \in test
    BY <2>1, <2>4, <2>7, <2>8, <2>11
  <2>14. Has(i)
    BY <2>6, <2>12, <2>13
  <2> HIDE DEF Has
  <2> QED BY <1>12, <2>14
<1>16. Has(N)
  <2> HIDE DEF Has
  <2>1. P \in SUBSET (0..N)
    OBVIOUS
  <2>2. \A i \in 1..N : i - 1 \in P => i \in P
    BY <1>15
  <2> HIDE DEF P
  <2>3. N \in P
    <3>1. P = 0..N
      BY <1>1, <1>14, <2>1, <2>2, Reached
    <3> QED BY <1>1, <3>1
  <2> QED BY <2>3 DEF P
<1>17. c[N] \in Seq(S) /\ d[N] \in Seq(S)
  BY <1>1, <1>11
<1> QED BY <1>a, <1>b, <1>3, <1>16, <1>17 DEF N

\* grep gives what the iterator makes of the values that findAll gives.
LEMMA GrepIs ==
    ASSUME NEW S, NEW s \in Seq(S), NEW test, NEW T, NEW h, \A x \in S : h[x] \in T
    PROVE  Grep(test, h, s) = Collect(h, FindAll(test, s))
<1>a. PICK c \in [0..Len(s) -> Seq(S)] :
         /\ FindAll(test, s) = c[Len(s)]
         /\ c[0] = <<>>
         /\ \A i \in 1..Len(s) : c[i] = Pushed(c[i - 1], s[i], s[i] \in test)
  BY FindAllSteps
<1> DEFINE N == Len(s)
           R == Seq(T)
           base == <<>>
           Next1(r, i) == (IF s[i] \in test THEN Append(r, h[s[i]]) ELSE r)
           f == [i \in 1..N |-> [r \in R |-> Next1(r, i)]]
           Value(g, n) == IF n = 0 THEN base ELSE Next1(g[n - 1], n)
           Body(g) == [n \in 0..N |-> Value(g, n)]
           given == CHOOSE g : g = Body(g)
<1>1. N \in Nat /\ base \in R
  OBVIOUS
<1>2. \A i \in 1..N, r \in R : Next1(r, i) \in R
  OBVIOUS
<1>3. Grep(test, h, s) = given[N]
  BY DEF Grep, Inject
<1> HIDE DEF N, R, base, Next1, given
<1>4. f \in [1..N -> [R -> R]]
  BY <1>2
<1>5. PICK g : g \in [0..N -> R] /\ g[0] = base /\ \A i \in 1..N : g[i] = f[i][g[i - 1]]
  <2> HIDE DEF f
  <2>1. PICK g : g \in Chains(N, N, R, base, f)
    BY <1>1, <1>4, Iterated
  <2> QED BY <2>1 DEF Chains
<1>6. \A i \in 1..N : g[i] = Next1(g[i - 1], i)
  <2> SUFFICES ASSUME NEW i \in 1..N PROVE g[i] = Next1(g[i - 1], i)
    OBVIOUS
  <2>1. f[i] = [r \in R |-> Next1(r, i)]
    OBVIOUS
  <2>2. i - 1 \in 0..N
    BY <1>1
  <2> HIDE DEF f
  <2>3. g[i] = f[i][g[i - 1]] /\ g[i - 1] \in R
    BY <1>5, <2>2
  <2> QED BY <2>1, <2>3
<1>7. g = Body(g)
  <2>1. \A n \in 0..N : n = 0 \/ n \in 1..N
    BY <1>1
  <2>2. \A n \in 0..N : g[n] = Value(g, n)
    BY <1>5, <1>6, <2>1
  <2> HIDE DEF Value
  <2> QED BY <1>5, <2>2
<1>8. given = Body(given)
  <2> HIDE DEF Body
  <2> QED BY <1>7 DEF given
<1>9. given[0] = base /\ \A i \in 1..N : given[i] = Next1(given[i - 1], i)
  <2>1. 0 \in 0..N /\ \A i \in 1..N : i \in 0..N /\ i # 0
    BY <1>1
  <2>2. \A n \in 0..N : given[n] = Value(given, n)
    <3> HIDE DEF Value
    <3> QED BY <1>8
  <2> QED BY <2>1, <2>2
<1>10. \A i \in 0..N : given[i] \in R
  <2>1. \A i \in 1..N : given[i - 1] \in R => given[i] \in R
    BY <1>2, <1>9
  <2> QED BY <1>1, <1>9, <2>1, StaysIn
<1>11. \A n \in 0..N : c[n] \in Seq(S)
  BY DEF N
<1> DEFINE Has(n) == Len(given[n]) = Len(c[n]) /\ \A m \in 1..Len(c[n]) : given[n][m] = h[c[n][m]]
           P == {n \in 0..N : Has(n)}
<1>12. \A n \in 1..N : n \in 0..N /\ n - 1 \in 0..N
  BY <1>1
<1>14. 0 \in P
  <2>1. Len(c[0]) = 0 /\ Len(given[0]) = 0
    BY <1>a, <1>9 DEF base
  <2>2. Has(0)
    BY <2>1
  <2> HIDE DEF Has
  <2> QED BY <1>1, <2>2
<1>15. ASSUME NEW i \in 1..N, i - 1 \in P PROVE i \in P
  <2> DEFINE r == c[i - 1]
             q == given[i - 1]
             v == s[i]
  <2>1. /\ v \in S /\ h[v] \in T /\ r \in Seq(S) /\ q \in Seq(T)
        /\ Len(q) = Len(r) /\ \A m \in 1..Len(r) : q[m] = h[r[m]]
    <3>1. v \in S
      BY DEF N
    <3>2. r \in Seq(S) /\ q \in Seq(T)
      BY <1>10, <1>11, <1>12 DEF R
    <3> QED BY <1>15, <3>1, <3>2
  <2>2. c[i] = Pushed(r, v, v \in test) /\ given[i] = IF v \in test THEN Append(q, h[v]) ELSE q
    BY <1>a, <1>9 DEF N, Next1
  <2> HIDE DEF r, q, v
  <2>3. CASE v \notin test
    <3>1. c[i] = r /\ given[i] = q
      BY <2>2, <2>3 DEF Pushed
    <3>2. Has(i)
      BY <2>1, <3>1
    <3> HIDE DEF Has
    <3> QED BY <1>12, <3>2
  <2>4. CASE v \in test
    <3> DEFINE t == Append(r, v)
               x == h[v]
               u == Append(q, x)
    <3>1. c[i] = t /\ given[i] = u
      BY <2>2, <2>4 DEF Pushed
    <3>2. /\ Len(t) = Len(r) + 1 /\ t[Len(r) + 1] = v
          /\ \A m \in 1..Len(r) : t[m] = r[m]
      BY <2>1
    <3>3. x \in T
      BY <2>1
    <3> HIDE DEF x
    <3>4. /\ Len(u) = Len(q) + 1 /\ u[Len(q) + 1] = x
          /\ \A m \in 1..Len(q) : u[m] = q[m]
      BY <2>1, <3>3
    <3>5. Len(r) \in Nat
      BY <2>1
    <3>6. 1..Len(r) + 1 = (1..Len(r)) \union {Len(r) + 1}
      BY <3>5
    <3> HIDE DEF t, u
    <3>7. \A m \in 1..Len(t) : u[m] = h[t[m]]
      BY <2>1, <3>2, <3>4, <3>6 DEF x
    <3>8. Has(i)
      BY <2>1, <3>1, <3>2, <3>4, <3>7
    <3> HIDE DEF Has
    <3> QED BY <1>12, <3>8
  <2> QED BY <2>3, <2>4
<1>16. Has(N)
  <2> HIDE DEF Has
  <2>1. P \in SUBSET (0..N)
    OBVIOUS
  <2>2. \A i \in 1..N : i - 1 \in P => i \in P
    BY <1>15
  <2> HIDE DEF P
  <2>3. N \in P
    <3>1. P = 0..N
      BY <1>1, <1>14, <2>1, <2>2, Reached
    <3> QED BY <1>1, <3>1
  <2> QED BY <2>3 DEF P
<1> DEFINE t == c[N]
           u == given[N]
<1>17. /\ t \in Seq(S) /\ u \in Seq(T)
       /\ Len(u) = Len(t) /\ \A m \in 1..Len(t) : u[m] = h[t[m]]
  <2>1. N \in 0..N
    BY <1>1
  <2> QED BY <1>10, <1>11, <1>16, <2>1 DEF R
<1>18. FindAll(test, s) = t /\ Grep(test, h, s) = u
  BY <1>a, <1>3 DEF N
<1> HIDE DEF t, u
<1>19. Collect(h, t) = [m \in 1..Len(t) |-> h[t[m]]]
  BY <1>17 DEF Collect
<1>20. u = [m \in 1..Len(t) |-> u[m]]
  BY <1>17
<1>21. u = [m \in 1..Len(t) |-> h[t[m]]]
  BY <1>17, <1>20
<1> QED BY <1>18, <1>19, <1>21

\* However an array came about, any test splits it into what findAll and what reject keeps, and
\* all, any, detect and grep agree with these parts (Enumerable of prototype.js).
THEOREM SplitsHold == CollectionsSpec => [](\A test \in SUBSET Values : Splits(test))
<1>1. ASSUME ArrayInv, NEW test PROVE Splits(test)
  <2> DEFINE kept == FindAll(test, array)
             left == Reject(test, array)
             parts == Partition(test, array)
  <2>1. /\ kept \in Seq(Values) /\ left \in Seq(Values)
        /\ parts = <<kept, left>>
        /\ Len(kept) + Len(left) = Len(array)
        /\ Every(test, array) <=> left = <<>>
        /\ Some(test, array) <=> kept # <<>>
    <3>1. array \in Seq(Values)
      BY <1>1 DEF ArrayInv
    <3> HIDE DEF kept, left, parts
    <3>2. /\ kept \in Seq(Values) /\ left \in Seq(Values)
          /\ parts = <<kept, left>>
          /\ Len(kept) + Len(left) = Len(array)
          /\ kept = <<>> <=> \A j \in 1..Len(array) : array[j] \notin test
          /\ left = <<>> <=> \A j \in 1..Len(array) : array[j] \in test
      BY <3>1, PartitionIs DEF kept, left, parts
    <3>3. Every(test, array) <=> \A j \in 1..Len(array) : array[j] \in test
      BY <3>1, EveryIs
    <3>4. Some(test, array) <=> \E j \in 1..Len(array) : array[j] \in test
      BY <3>1, SomeIs
    <3> QED BY <3>2, <3>3, <3>4
  <2>2. Grep(test, Truth, array) = Collect(Truth, kept)
    <3> DEFINE h == Truth
               T == {h[v] : v \in Values}
    <3>1. array \in Seq(Values) /\ \A v \in Values : h[v] \in T
      BY <1>1 DEF ArrayInv
    <3> HIDE DEF h, T
    <3>2. Grep(test, h, array) = Collect(h, kept)
      BY <3>1, GrepIs
    <3> QED BY <3>2 DEF h
  <2>3. Detect(test, array) = IF kept = <<>> THEN Undefined ELSE kept[1]
    BY DEF Detect
  <2>4. Splits(test) <=>
          /\ parts = <<kept, left>>
          /\ Len(parts[1]) + Len(parts[2]) = Len(array)
          /\ Every(test, array) <=> parts[2] = <<>>
          /\ Some(test, array) <=> parts[1] # <<>>
          /\ Detect(test, array) = FirstOf(parts[1])
          /\ Grep(test, Truth, array) = Collect(Truth, parts[1])
    BY DEF Splits
  <2> HIDE DEF kept, left, parts
  <2>5. parts[1] = kept /\ parts[2] = left
    BY <2>1
  <2>6. FirstOf(kept) = IF kept = <<>> THEN Undefined ELSE kept[1]
    <3>1. Len(kept) \in Nat /\ DOMAIN kept = 1..Len(kept) /\ (kept = <<>> <=> Len(kept) = 0)
      BY <2>1
    <3>2. 1 \in DOMAIN kept <=> kept # <<>>
      BY <3>1
    <3> QED BY <3>2 DEF FirstOf, At
  <2> QED BY <2>1, <2>2, <2>3, <2>4, <2>5, <2>6
<1>2. ArrayInv => \A test \in SUBSET Values : Splits(test)
  BY <1>1
<1> QED BY <1>2, InitArray, NextArray, PTL DEF CollectionsSpec
=============================================================================
