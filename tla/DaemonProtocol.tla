--------------------------- MODULE DaemonProtocol ---------------------------
(***************************************************************************)
(* One web request against the daemon: the Sinatra process opens a         *)
(* DaemonClient, checks the session with its first call and then makes one *)
(* call for each selected item, as "modify_files" does (sinatra/server.rb, *)
(* www-lib/functions.rb).  A call is DaemonClient.sendAndRecv              *)
(* (daemon/daemonclient.rb) over GenericTcpMessageHandler: a request goes  *)
(* out, a length and then a marshalled object come back.  The daemon       *)
(* serves the connection in a thread (RequestHandler.manage) and may exit  *)
(* and be started again at any time.  What it sends comes in pieces, when  *)
(* it comes.  Calls are numbered; the answer to a call carries its number  *)
(* only in this model.                                                     *)
(***************************************************************************)
EXTENDS Integers, Sequences, FiniteSets

CONSTANTS
    MaxCalls,  \* bound: one session check and an item for each further call
    MaxExits   \* bound: how often the daemon exits

ASSUME BoundsAssumption == MaxCalls \in Nat \ {0} /\ MaxExits \in Nat

Calls == 1..MaxCalls
Replies == {"yes", "no", "exception"}  \* successful, not successful, or the handler raised

VARIABLES
    client,     \* where the web request is
    calls,      \* how many calls it has made
    conn,       \* number of the client's connection
    connected,  \* the daemon's end of that connection exists
    socket,     \* the client's end is open
    garbled,    \* the client has lost track of where messages begin
    toServer,   \* requests on their way
    toClient,   \* lengths and objects that were sent and not read
    arrived,    \* what of them has come: 2n when n have, 2n + 1 when some bytes of the next have, too
    server,     \* where the connection's thread is
    reply,      \* the answer it is working on
    daemon,     \* the daemon process
    exits,
    log,        \* history: the calls whose handler has run, in order
    connOf,     \* history: the connection each call was made on
    result      \* what sendAndRecv made of each call

clientVars == <<client, calls, conn, socket, garbled, connOf, result>>
serverVars == <<server, reply, log>>
vars == <<clientVars, serverVars, connected, toServer, toClient, arrived, daemon, exits>>

Answers == [of : Calls, reply : Replies]
NoReply == [of |-> 0, reply |-> "no"]
Part(part, answer) == [part |-> part, answer |-> answer]

Waiting == {"awaitLen", "awaitData"}

Outcomes ==
    {"none", "timeout", "lost", "raised", "garbage"} \cup {"yes", "no", "exception"}

Init ==
    /\ client = "ready" /\ calls = 0
    /\ conn = 1 /\ connected = TRUE /\ socket = TRUE /\ garbled = FALSE
    /\ toServer = <<>> /\ toClient = <<>> /\ arrived = 0
    /\ server = "recv" /\ reply = NoReply
    /\ daemon = "up" /\ exits = 0
    /\ log = <<>>
    /\ connOf = [c \in Calls |-> 0]
    /\ result = [c \in Calls |-> [outcome |-> "none", of |-> 0]]

-----------------------------------------------------------------------------
(* The client *)

\* Mutant: the session counts as valid unless the daemon denies it.
AfterUnlessDenied(outcome) ==
    IF calls = 1 /\ outcome = "no" THEN "done" ELSE "ready"

\* What the web request does after a call: the session check lets it go on only when
\* it was answered with true; a failing item does not stop the loop over the items.
After(outcome) ==
    IF calls = 1 /\ outcome # "yes" THEN "done" ELSE "ready"

Return(outcome, of) ==
    /\ result' = [result EXCEPT ![calls] = [outcome |-> outcome, of |-> of]]
    /\ client' = After(outcome)

\* send: the request is written.  On a closed socket this raises, and on one whose
\* other end is gone it may; nothing in sendAndRecv rescues it, so the web request ends.
Send ==
    /\ client = "ready"
    /\ calls < MaxCalls
    /\ calls' = calls + 1
    /\ connOf' = [connOf EXCEPT ![calls'] = conn]
    /\ \/ /\ socket
          /\ client' = "awaitLen"
          /\ toServer' = IF connected THEN Append(toServer, calls') ELSE toServer
          /\ UNCHANGED result
       \/ /\ ~connected
          /\ client' = "done"
          /\ result' = [result EXCEPT ![calls'] = [outcome |-> "raised", of |-> 0]]
          /\ UNCHANGED toServer
    /\ UNCHANGED <<conn, socket, garbled, serverVars, connected, toClient, arrived, daemon, exits>>

\* readWithTimout: once there is anything to read it reads four bytes, waiting for the
\* last of them without a timeout, and takes them for a length.
ReadLen ==
    /\ client = "awaitLen"
    /\ toClient # <<>> /\ arrived >= 2
    /\ ~garbled
    /\ client' = "awaitData"
    /\ toClient' = Tail(toClient)
    /\ arrived' = arrived - 2
    /\ UNCHANGED <<calls, conn, socket, garbled, connOf, result, serverVars,
                   connected, toServer, daemon, exits>>

\* ... and reads an object of that length, in the same way.  An answer of true (what the
\* daemon sends when a handler raised) has no errorMsg: the call is rescued, and fails.
ReadData ==
    /\ client = "awaitData"
    /\ toClient # <<>> /\ arrived >= 2
    /\ toClient' = Tail(toClient)
    /\ arrived' = arrived - 2
    /\ Return(Head(toClient).answer.reply, Head(toClient).answer.of)
    /\ UNCHANGED <<calls, conn, socket, garbled, connOf, serverVars,
                   connected, toServer, daemon, exits>>

\* The bytes of an object are taken for a length: the read of that many bytes blocks,
\* without a timeout, ...
ReadGarbage ==
    /\ client = "awaitLen"
    /\ arrived > 0
    /\ garbled
    /\ client' = "blocked"
    /\ toClient' = <<>> /\ arrived' = 0
    /\ UNCHANGED <<calls, conn, socket, garbled, connOf, result, serverVars,
                   connected, toServer, daemon, exits>>

\* ... or ends, with nothing that Marshal can load.
GarbageEnds ==
    /\ client = "blocked"
    /\ Return("garbage", 0)
    /\ toClient' = <<>> /\ arrived' = 0
    /\ UNCHANGED <<calls, conn, socket, garbled, connOf, serverVars,
                   connected, toServer, daemon, exits>>

\* Mutant: only the wait for the length has a timeout.
TimeoutOfLen ==
    /\ client = "awaitLen"
    /\ arrived = 0
    /\ Return("timeout", 0)
    /\ UNCHANGED <<calls, conn, socket, garbled, connOf, serverVars,
                   connected, toServer, toClient, arrived, daemon, exits>>

\* In one of the two waits nothing comes before the read timeout, not even the end of the
\* connection; the connection is kept.
Timeout ==
    /\ client \in Waiting
    /\ arrived = 0
    /\ Return("timeout", 0)
    /\ garbled' = (garbled \/ client = "awaitData")
    /\ UNCHANGED <<calls, conn, socket, connOf, serverVars,
                   connected, toServer, toClient, arrived, daemon, exits>>

\* connect: a new connection if the daemon is there; otherwise only the old one is
\* closed, and the exception is rescued by sendAndRecv.
Reconnect ==
    IF daemon = "up"
    THEN /\ conn' = conn + 1 /\ connected' = TRUE /\ garbled' = FALSE
         /\ UNCHANGED socket
    ELSE /\ socket' = FALSE
         /\ UNCHANGED <<conn, connected, garbled>>

\* Mutant: the request is sent again on the new connection.
EndOfStreamRetries ==
    /\ client \in Waiting
    /\ arrived = 0 /\ ~connected
    /\ toClient' = <<>>
    /\ Reconnect
    /\ IF daemon = "up"
       THEN client' = "awaitLen" /\ toServer' = <<calls>> /\ UNCHANGED result
       ELSE Return("lost", 0) /\ UNCHANGED toServer
    /\ UNCHANGED <<calls, connOf, serverVars, arrived, daemon, exits>>

\* The daemon's end is gone, and what has not come by then is lost: the call fails, after
\* an attempt to reconnect.
EndOfStream ==
    /\ client \in Waiting
    /\ arrived = 0 /\ ~connected
    /\ toClient' = <<>>
    /\ Reconnect
    /\ Return("lost", 0)
    /\ UNCHANGED <<calls, connOf, serverVars, toServer, arrived, daemon, exits>>

\* It is gone in the middle of a length or an object.  What was read of it cannot be
\* unpacked or loaded, which sendAndRecv rescues; or the read raises, and is taken for the
\* end of the stream.
Truncated ==
    /\ client \in Waiting
    /\ arrived = 1 /\ ~connected
    /\ toClient' = <<>> /\ arrived' = 0
    /\ \/ Return("garbage", 0) /\ UNCHANGED <<conn, connected, garbled, socket>>
       \/ Return("lost", 0) /\ Reconnect
    /\ UNCHANGED <<calls, connOf, serverVars, toServer, daemon, exits>>

\* More of what was sent arrives.
Arrive ==
    /\ arrived < 2 * Len(toClient)
    /\ arrived' = arrived + 1
    /\ UNCHANGED <<clientVars, serverVars, connected, toServer, toClient, daemon, exits>>

-----------------------------------------------------------------------------
(* The daemon: RequestHandler.manage and handle *)

Recv ==
    /\ server = "recv"
    /\ toServer # <<>>
    /\ server' = "handle"
    /\ reply' = [of |-> Head(toServer), reply |-> "no"]
    /\ toServer' = Tail(toServer)
    /\ UNCHANGED <<clientVars, log, connected, toClient, arrived, daemon, exits>>

\* Mutant: nothing is sent when the handler raises.
HandleSilently ==
    /\ server = "handle"
    /\ \E r \in Replies :
          /\ reply' = [reply EXCEPT !.reply = r]
          /\ server' = IF r = "exception" THEN "recv" ELSE "sendLen"
    /\ log' = Append(log, reply.of)
    /\ UNCHANGED <<clientVars, connected, toServer, toClient, arrived, daemon, exits>>

\* The handler runs; whatever it answers, or raises, something is sent.
Handle ==
    /\ server = "handle"
    /\ \E r \in Replies : reply' = [reply EXCEPT !.reply = r]
    /\ log' = Append(log, reply.of)
    /\ server' = "sendLen"
    /\ UNCHANGED <<clientVars, connected, toServer, toClient, arrived, daemon, exits>>

SendPart(at, part, next) ==
    /\ server = at
    /\ server' = next
    /\ toClient' = Append(toClient, Part(part, reply))
    /\ UNCHANGED <<clientVars, reply, log, connected, toServer, arrived, daemon, exits>>

SendLen == SendPart("sendLen", "len", "sendData")
SendData == SendPart("sendData", "data", "recv")

\* The process ends: by a terminate request of somebody, a signal, or a crash.  What
\* has arrived can still be read, and more of what it has sent may arrive.
Exit ==
    /\ daemon = "up"
    /\ exits < MaxExits
    /\ exits' = exits + 1
    /\ daemon' = "down"
    /\ connected' = FALSE
    /\ toServer' = <<>>
    /\ server' = "recv"
    /\ UNCHANGED <<clientVars, reply, log, toClient, arrived>>

Start ==
    /\ daemon = "down"
    /\ daemon' = "up"
    /\ UNCHANGED <<clientVars, serverVars, connected, toServer, toClient, arrived, exits>>

Client ==
    \/ Send \/ ReadLen \/ ReadData \/ ReadGarbage
    \/ Timeout \/ EndOfStream

Server == Recv \/ Handle \/ SendLen \/ SendData

Next == Client \/ Truncated \/ GarbageEnds \/ Arrive \/ Server \/ Exit \/ Start

Spec == Init /\ [][Next]_vars

\* The web request goes on as long as it can.  The daemon may be slow for ever; what it
\* sends may never arrive, and neither may the end of the connection.
FairSpec == Spec /\ WF_vars(Client)

-----------------------------------------------------------------------------
(* Properties *)

\* Calls are executed at most once, in the order in which they were made, although the
\* client goes on after timeouts and lost connections.
ExecutedOnceInOrder == \A i, j \in 1..Len(log) : i < j => log[i] < log[j]

Answered(c) == result[c].outcome \in Replies

TimedOutBefore(c) ==
    {b \in 1..(c - 1) : connOf[b] = connOf[c] /\ result[b].outcome = "timeout"}

\* The answer a call returns was made for a call on the same connection, as many calls
\* earlier as calls have timed out on that connection: each timeout puts all later
\* answers off by one, until the connection is lost.
AnswersLagByTimeouts ==
    \A c \in Calls : Answered(c) =>
        /\ result[c].of = c - Cardinality(TimedOutBefore(c))
        /\ connOf[result[c].of] = connOf[c]

\* No item is touched unless the daemon answered the session check, for this web
\* request, with true.
OnlyWithValidSession ==
    \A i \in 1..Len(log) : log[i] > 1 => result[1] = [outcome |-> "yes", of |-> 1]

\* The two reads have no timeout: a call hangs in one that has got some of its bytes.
InRead == client = "blocked" \/ (client \in Waiting /\ arrived = 1)

\* A call that never returns hangs in one of the reads, for the rest of a length or an
\* object that never arrives or that is none: whatever the daemon or the network fails to
\* do, neither of the two waits is for ever.
EveryCallReturns == <>[](client \notin {"ready", "done"}) => <>[]InRead

=============================================================================
