----------------------------- MODULE AjaxRequest -----------------------------
(***************************************************************************)
(* Ajax.Request and Ajax.Responders of www/prototype.js: every answer the  *)
(* pages get comes through them.  A request goes through the ready states  *)
(* of its transport and calls what its options and the registered          *)
(* responders ask to be called.  One responder, registered when the script *)
(* is loaded, keeps Ajax.activeRequestCount; a page may register another   *)
(* one.  Whatever a request is made with may throw: the faults of a        *)
(* request say which calls do.                                             *)
(*                                                                         *)
(* The browser runs one handler at a time, so a handler is one action.     *)
(***************************************************************************)
EXTENDS Enumerable, FiniteSets

CONSTANTS Requests,
          Kinds,           \* what a request may be made with
          Statuses,        \* the statuses a transport may end with
          MaxInteractive,  \* bound: how often the transport tells that data came in
          MaxRegistrations \* bound: how often the page registers or unregisters its responder

\* create, outcome, complete, exception: the option of that name throws;
\* open, send: the transport's call does; json, script: the answer cannot be evaluated.
Faults == {"create", "open", "send", "json", "outcome", "script", "complete", "exception"}

ASSUME KindsAssumption == Kinds \subseteq [faults : SUBSET Faults, hasStatusOption : BOOLEAN]
ASSUME RequestsAssumption == IsFiniteSet(Requests) /\ "page" \notin {Null, Undefined}
ASSUME StatusesAssumption == Statuses \subseteq Nat
ASSUME AjaxBoundsAssumption == MaxInteractive \in Nat \ {0} /\ MaxRegistrations \in Nat

VARIABLES requests,            \* the requests that were made
          responders,          \* Ajax.Responders.responders
          activeRequestCount,  \* Ajax.activeRequestCount
          watched,             \* what the page's responder counts in the same way
          countBefore,         \* activeRequestCount when that responder was registered
          registrations        \* bounds Register and Unregister

ajaxVars == <<requests, responders, activeRequestCount, watched, countBefore, registrations>>

NotMade == [made |-> FALSE]

\* Ajax.Request.Events, by ready state.
Events == <<"Loading", "Loaded", "Interactive", "Complete">>

-----------------------------------------------------------------------------
\* While a handler runs: the request q, both counters, and whether an exception is on its way.
Running(q) == [q |-> q, count |-> activeRequestCount, watched |-> watched, thrown |-> FALSE]

\* Ajax.Responders.dispatch: every responder is called, as often as it is registered, and what
\* one throws is dropped.
Registrations(name) == Cardinality({i \in DOMAIN responders : responders[i] = name})
Dispatch(s, change) == [s EXCEPT !.count = @ + change * Registrations("counter"),
                                 !.watched = @ + change * Registrations("page")]

\* A callback of the options.
Call(s, name, fault) == [s EXCEPT !.q.calls = Append(@, name), !.thrown = fault \in s.q.faults]

\* An option that throws while it is told of an exception throws into whatever called.
DispatchException(s) == Call(s, "Exception", "exception")
Caught(s) == IF s.thrown THEN DispatchException(s) ELSE s

\* Whatever comes next is left out once an exception is on its way.
Then(s, next(_)) == IF s.thrown THEN s ELSE next(s)
Fault(s, fault) == IF fault \in s.q.faults THEN DispatchException(s) ELSE s

\* new Ajax.Response evaluates an answer in JSON that is there by now; evalResponse a script.
Response(s) == IF s.q.readyState = 4 THEN Fault(s, "json") ELSE s
EvalResponse(s) == Fault(s, "script")

-----------------------------------------------------------------------------
\* No status at all, as of a request that the network broke, counts as success.
Success(status) == status = 0 \/ status \in 200..299 \/ status = 304

\* An option for the status itself comes before the one for its kind.
OutcomeEvent(q) == IF q.hasStatusOption THEN "Status"
                   ELSE IF Success(q.status) THEN "Success" ELSE "Failure"

\* A complete answer goes to the option for its outcome; a script is evaluated.
Concluded(s) ==
    LET told == Call([s EXCEPT !.q.complete = TRUE], OutcomeEvent(s.q), "outcome")
    IN  Then(Caught(told), EvalResponse)

\* Mutant: the responders are told before the option is.
ToldBefore(s, readyState, isComplete) ==
    LET dispatched == IF isComplete THEN Dispatch(s, -1) ELSE s
    IN  Caught(Call(dispatched, Events[readyState], IF isComplete THEN "complete" ELSE "none"))

\* The option for the event and the responders are told; the counting ones ask for onComplete.
Told(s, readyState, isComplete) ==
    LET called == Call(s, Events[readyState], IF isComplete THEN "complete" ELSE "none")
    IN  Caught(Then(called, LAMBDA t : IF isComplete THEN Dispatch(t, -1) ELSE t))

\* respondToReadyState: the response is made, which evaluates the answer if it is there by now;
\* whoever asked for it is told; a complete request stops listening.
Respond(s, readyState) ==
    LET isComplete == readyState = 4
        parsed     == Response(s)
        answered   == Then(parsed, LAMBDA t : IF isComplete THEN Concluded(t) ELSE t)
        told       == Then(answered, LAMBDA t : Told(t, readyState, isComplete))
    IN  Then(told, LAMBDA t : [t EXCEPT !.q.listening = @ /\ ~ isComplete])

\* onStateChange.
OnStateChange(s) ==
    IF s.q.readyState > 1 /\ ~ (s.q.readyState = 4 /\ s.q.complete)
      THEN Respond(s, s.q.readyState)
      ELSE s

-----------------------------------------------------------------------------
AjaxInit ==
    /\ requests = [r \in Requests |-> NotMade]
    /\ responders = <<"counter">>
    /\ activeRequestCount = 0
    /\ watched = 0
    /\ countBefore = 0
    /\ registrations = 0

\* A handler has run: the request and the counters are what it left.
Ran(r, s) ==
    /\ requests' = [requests EXCEPT ![r] = s.q]
    /\ activeRequestCount' = s.count
    /\ watched' = s.watched

NewRequest(kind) ==
    [made |-> TRUE, faults |-> kind.faults, hasStatusOption |-> kind.hasStatusOption, status |-> 0,
     readyState |-> 0, complete |-> FALSE, listening |-> FALSE, loading |-> FALSE,
     sent |-> FALSE, calls |-> <<>>]

\* new Ajax.Request: onCreate, the responders, open, the Loading that is put off, send.
Request(r) ==
    /\ ~ requests[r].made
    /\ \E kind \in Kinds :
         LET created   == Call(Running(NewRequest(kind)), "Create", "create")
             counted   == Then(created, LAMBDA s : Dispatch(s, 1))
             opened(s) == IF "open" \in kind.faults THEN [s EXCEPT !.thrown = TRUE]
                          ELSE [s EXCEPT !.q.readyState = 1, !.q.loading = TRUE, !.q.listening = TRUE]
             sent(s)   == IF "send" \in kind.faults THEN [s EXCEPT !.thrown = TRUE]
                          ELSE [s EXCEPT !.q.sent = TRUE]
         IN  Ran(r, Caught(Then(Then(counted, opened), sent)))
    /\ UNCHANGED <<responders, countBefore, registrations>>

\* Mutant: what was put off responds to the state that the transport has by then.
LoadingLate(r) ==
    /\ requests[r].made /\ requests[r].loading
    /\ Ran(r, Respond(Running([requests[r] EXCEPT !.loading = FALSE]), requests[r].readyState))
    /\ UNCHANGED <<responders, countBefore, registrations>>

\* The respondToReadyState(1) that was put off: it may come after the answer.
Loading(r) ==
    /\ requests[r].made /\ requests[r].loading
    /\ Ran(r, Respond(Running([requests[r] EXCEPT !.loading = FALSE]), 1))
    /\ UNCHANGED <<responders, countBefore, registrations>>

\* The transport goes on: the headers came, some data came, the answer is there or the
\* network broke.
Interactives(q) == Cardinality({i \in DOMAIN q.calls : q.calls[i] = "Interactive"})
ReadyStateChange(r) ==
    /\ requests[r].made /\ requests[r].sent
    /\ \E readyState \in 2..4, status \in Statuses :
         LET q == [requests[r] EXCEPT !.readyState = readyState,
                                      !.status = IF readyState = 4 THEN status ELSE 0]
         IN  /\ \/ readyState = requests[r].readyState + 1
                \/ readyState = 3 /\ requests[r].readyState = 3 /\ Interactives(q) < MaxInteractive
                \/ readyState = 4 /\ requests[r].readyState = 2
                \/ readyState = 4 /\ requests[r].readyState = 1 /\ status = 0
             /\ readyState = 4 \/ status = 0
             /\ Ran(r, IF q.listening THEN OnStateChange(Running(q)) ELSE Running(q))
    /\ UNCHANGED <<responders, countBefore, registrations>>

\* Mutant: a responder that is registered already is added once more.
RegisterAgain(responder) == responders' = Append(responders, responder)

\* Ajax.Responders.register and unregister.
Registered(responder) ==
    responders' = IF Include(responders, responder) THEN responders ELSE Append(responders, responder)

Register ==
    /\ registrations < MaxRegistrations
    /\ Registered("page")
    /\ IF Include(responders, "page") THEN UNCHANGED <<watched, countBefore>>
       ELSE watched' = 0 /\ countBefore' = activeRequestCount
    /\ registrations' = registrations + 1
    /\ UNCHANGED <<requests, activeRequestCount>>

Unregister ==
    /\ registrations < MaxRegistrations
    /\ responders' = Without(responders, <<"page">>)
    /\ registrations' = registrations + 1
    /\ UNCHANGED <<requests, activeRequestCount, watched, countBefore>>

AjaxNext ==
    \/ \E r \in Requests : Request(r) \/ Loading(r) \/ ReadyStateChange(r)
    \/ Register
    \/ Unregister

AjaxSpec == AjaxInit /\ [][AjaxNext]_ajaxVars

-----------------------------------------------------------------------------
Names == {"Create", "Exception", "Status", "Success", "Failure"} \union ToSet(Events)
Made == {r \in Requests : requests[r].made}

\* The answer was there, but an exception kept the responders from being told: onComplete threw,
\* or onException did when it was told of an exception that came before.
Unreported(q) ==
    \/ "complete" \in q.faults
    \/ "exception" \in q.faults /\ q.faults \intersect {"json", "outcome", "script"} # {}

\* activeRequestCount is the number of requests that are under way, those whose transport could
\* not be opened or sent included, and the complete ones that were not reported: these stay
\* counted for good.  A request whose onCreate threw is never counted.
ActiveCount ==
    activeRequestCount =
        Cardinality({r \in Made : /\ "create" \notin requests[r].faults
                                  /\ requests[r].readyState < 4 \/ Unreported(requests[r])})

\* A responder that a page registers, be it more than once, is told of exactly the requests
\* that the counter is told of from then on.
RespondersAgree ==
    Include(responders, "page") => watched = activeRequestCount - countBefore

OutcomeEvents == {"Status", "Success", "Failure"}

\* The order of the events of a request; Loading and Exception have no place in it.
Rank(name) == IF name = "Create" THEN 0
              ELSE IF name = "Loaded" THEN 1
              ELSE IF name = "Interactive" THEN 2
              ELSE IF name \in OutcomeEvents THEN 3 ELSE 4
Occurrences(q, names) == {i \in DOMAIN q.calls : q.calls[i] \in names}

\* Whatever throws, the callbacks of a request come in the order of the ready states, its
\* outcome and its completion once and the outcome first; only Loading may come after them.
\* The outcome is left out only if the answer could not be evaluated and onException threw.
CallbacksInOrder ==
    \A r \in Made :
      LET q == requests[r]
          ranked == {i \in DOMAIN q.calls : q.calls[i] \notin {"Loading", "Exception"}}
      IN  /\ \A i, j \in ranked : i < j =>
               \/ Rank(q.calls[i]) < Rank(q.calls[j])
               \/ q.calls[i] = "Interactive" /\ q.calls[j] = "Interactive"
          /\ Cardinality(Occurrences(q, {"Loading"})) <= 1
          /\ q.readyState = 4 =>
               (Occurrences(q, OutcomeEvents) = {} <=> {"json", "exception"} \subseteq q.faults)
          /\ Occurrences(q, {"Complete"}) # {} => Occurrences(q, OutcomeEvents) # {}
=============================================================================
