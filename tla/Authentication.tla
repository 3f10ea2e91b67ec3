--------------------------- MODULE Authentication ---------------------------
(***************************************************************************)
(* daemon/Authentication.rb in the daemon: the login handlers of all       *)
(* connections reload one shared table of accounts from the password file, *)
(* line by line and without a lock, while the adduser and deluser scripts, *)
(* one at a time, change the file: what adduser appends reaches those who  *)
(* are reading it, and deluser puts a new file in its place.  Successful   *)
(* logins start sessions of a limited life; one thread audits them.        *)
(***************************************************************************)
EXTENDS Integers, Sequences

CONSTANTS
    Handlers,     \* handler threads, one per connection
    Users, Passwords, NoPassword,
    Sids, NoSession,
    SessionLife,  \* life of a session (an hour)
    AuditDelay,   \* when the audit runs after the daemon's start (ten seconds)
    MaxTime,      \* bound of the model
    MaxEdits      \* bound: changes of the password file

ASSUME AuthAssumption ==
    /\ NoPassword \notin Passwords
    /\ NoSession \notin [login : Users, expiry : Nat]
    /\ AuditDelay \in Nat /\ SessionLife \in Nat /\ AuditDelay < SessionLife
    /\ MaxTime \in Nat /\ MaxEdits \in Nat

VARIABLES
    now,
    file,       \* the password file: a sequence of lines
    edits,      \* how often it was changed
    accounts,   \* @accounts: the password of each login in it
    pc,         \* where each handler is
    request,    \* the login and password it was given
    lines,      \* the lines it has yet to load of the file it has open
    replaced,   \* the file it has open is no longer the password file
    sessions,   \* @sessions
    audited,    \* the audit thread has run, and ended
    snapshot,   \* history: all lines of the file it opened, up to where it found its end
    disturbed   \* history: another handler changed the table before this one's lookup

vars == <<now, file, edits, accounts, pc, request, lines, replaced, sessions, audited,
          snapshot, disturbed>>

Line == [login : Users, password : Passwords]

\* What a file says of a login: its last line counts.
PasswordIn(f, u) ==
    LET own == {i \in 1..Len(f) : f[i].login = u}
    IN  IF own = {} THEN NoPassword
        ELSE f[CHOOSE i \in own : \A j \in own : j <= i].password

NoRequest == [login |-> CHOOSE u \in Users : TRUE, password |-> NoPassword]

Init ==
    /\ now = 0
    /\ file \in {<<>>} \cup {<<l>> : l \in Line}
    /\ edits = 0
    /\ accounts = [u \in Users |-> PasswordIn(file, u)]
    /\ pc = [h \in Handlers |-> "idle"]
    /\ request = [h \in Handlers |-> NoRequest]
    /\ lines = [h \in Handlers |-> <<>>]
    /\ replaced = [h \in Handlers |-> FALSE]
    /\ sessions = [s \in Sids |-> NoSession]
    /\ audited = FALSE
    /\ snapshot = [h \in Handlers |-> <<>>]
    /\ disturbed = [h \in Handlers |-> FALSE]

-----------------------------------------------------------------------------
(* The password file *)

\* adduser appends a line for a login that has none.  each_line reads until the file ends:
\* a handler that has not come to the end of this file comes to the new line, too.
AddAccount(u, p) ==
    LET line == [login |-> u, password |-> p]
        Read(f) == [h \in Handlers |->
                       IF pc[h] = "load" /\ ~replaced[h] THEN Append(f[h], line) ELSE f[h]]
    IN
    /\ edits < MaxEdits
    /\ PasswordIn(file, u) = NoPassword
    /\ file' = Append(file, line)
    /\ lines' = Read(lines)
    /\ snapshot' = Read(snapshot)
    /\ edits' = edits + 1
    /\ UNCHANGED <<now, accounts, pc, request, replaced, sessions, audited, disturbed>>

\* deluser moves a copy without the login's line over the file; adduser has written one only.
\* Who has the file open goes on reading the old one.
DelAccount(u) ==
    /\ edits < MaxEdits
    /\ \E i \in DOMAIN file :
          /\ file[i].login = u
          /\ file' = SubSeq(file, 1, i - 1) \o SubSeq(file, i + 1, Len(file))
    /\ replaced' = [h \in Handlers |-> TRUE]
    /\ edits' = edits + 1
    /\ UNCHANGED <<now, accounts, pc, request, lines, sessions, audited, snapshot, disturbed>>

-----------------------------------------------------------------------------
(* Logins *)

\* Another handler's lookup that is still to come may now go wrong.
Disturb(h) ==
    disturbed' = [g \in Handlers |->
        disturbed[g] \/ (g # h /\ pc[g] \in {"load", "lookup"})]

\* Mutant: the table is not cleared before it is loaded.
OpenKeepingAccounts(h, u, p) ==
    /\ pc[h] = "idle"
    /\ pc' = [pc EXCEPT ![h] = "load"]
    /\ request' = [request EXCEPT ![h] = [login |-> u, password |-> p]]
    /\ lines' = [lines EXCEPT ![h] = file]
    /\ replaced' = [replaced EXCEPT ![h] = FALSE]
    /\ snapshot' = [snapshot EXCEPT ![h] = file]
    /\ Disturb(h)
    /\ UNCHANGED <<now, file, edits, accounts, sessions, audited>>

\* handleLoginRequest, authorize, loadPasswordFile: the file is opened, the table
\* cleared.
Open(h, u, p) ==
    /\ pc[h] = "idle"
    /\ pc' = [pc EXCEPT ![h] = "load"]
    /\ request' = [request EXCEPT ![h] = [login |-> u, password |-> p]]
    /\ lines' = [lines EXCEPT ![h] = file]
    /\ replaced' = [replaced EXCEPT ![h] = FALSE]
    /\ snapshot' = [snapshot EXCEPT ![h] = file]
    /\ accounts' = [a \in Users |-> NoPassword]
    /\ Disturb(h)
    /\ UNCHANGED <<now, file, edits, sessions, audited>>

\* each_line takes the next line ...
Load(h) ==
    /\ pc[h] = "load"
    /\ lines[h] # <<>>
    /\ accounts' = [accounts EXCEPT ![Head(lines[h]).login] = Head(lines[h]).password]
    /\ lines' = [lines EXCEPT ![h] = Tail(lines[h])]
    /\ Disturb(h)
    /\ UNCHANGED <<now, file, edits, pc, request, replaced, sessions, audited, snapshot>>

\* ... until there is none.
Loaded(h) ==
    /\ pc[h] = "load"
    /\ lines[h] = <<>>
    /\ pc' = [pc EXCEPT ![h] = "lookup"]
    /\ UNCHANGED <<now, file, edits, accounts, request, lines, replaced, sessions, audited,
                   snapshot, disturbed>>

\* authorize looks the login up and compares the hashes.
Lookup(h) ==
    /\ pc[h] = "lookup"
    /\ pc' = [pc EXCEPT ![h] =
                 IF accounts[request[h].login] = request[h].password THEN "accept" ELSE "reject"]
    /\ UNCHANGED <<now, file, edits, accounts, request, lines, replaced, sessions, audited,
                   snapshot, disturbed>>

\* The response is sent; the handler is free for the next request.
Finished(h) ==
    /\ pc' = [pc EXCEPT ![h] = "idle"]
    /\ request' = [request EXCEPT ![h] = NoRequest]
    /\ snapshot' = [snapshot EXCEPT ![h] = <<>>]
    /\ disturbed' = [disturbed EXCEPT ![h] = FALSE]
    /\ UNCHANGED <<now, file, edits, accounts, lines, replaced, audited>>

\* startSession, with a sid that is not in use.
StartSession(h, s) ==
    /\ pc[h] = "accept"
    /\ sessions[s] = NoSession
    /\ sessions' = [sessions EXCEPT ![s] =
                       [login |-> request[h].login, expiry |-> now + SessionLife]]
    /\ Finished(h)

Reject(h) ==
    /\ pc[h] = "reject"
    /\ UNCHANGED sessions
    /\ Finished(h)

-----------------------------------------------------------------------------
(* Sessions *)

\* handleLogoutRequest
EndSession(s) ==
    /\ sessions[s] # NoSession
    /\ sessions' = [sessions EXCEPT ![s] = NoSession]
    /\ UNCHANGED <<now, file, edits, accounts, pc, request, lines, replaced, audited,
                   snapshot, disturbed>>

\* validSession?: what handleAuthSessionRequest answers.
ValidSession(s) == sessions[s] # NoSession

Expired(s) == sessions[s] # NoSession /\ sessions[s].expiry < now

\* Mutant: the comparison is the wrong way round.
AuditUnexpired ==
    /\ ~audited
    /\ now = AuditDelay
    /\ audited' = TRUE
    /\ sessions' = [s \in Sids |-> IF Expired(s) THEN sessions[s] ELSE NoSession]
    /\ UNCHANGED <<now, file, edits, accounts, pc, request, lines, replaced, snapshot, disturbed>>

\* The thread that Authentication.new starts: it sleeps, audits the sessions, and ends.
Audit ==
    /\ ~audited
    /\ now = AuditDelay
    /\ audited' = TRUE
    /\ sessions' = [s \in Sids |-> IF Expired(s) THEN NoSession ELSE sessions[s]]
    /\ UNCHANGED <<now, file, edits, accounts, pc, request, lines, replaced, snapshot, disturbed>>

\* The audit's delay is far shorter than a session's life.
Tick ==
    /\ now < MaxTime
    /\ audited \/ now < AuditDelay
    /\ now' = now + 1
    /\ UNCHANGED <<file, edits, accounts, pc, request, lines, replaced, sessions, audited,
                   snapshot, disturbed>>

Logins ==
    \E h \in Handlers :
        \/ \E u \in Users, p \in Passwords : Open(h, u, p)
        \/ Load(h) \/ Loaded(h) \/ Lookup(h) \/ Reject(h)
        \/ \E s \in Sids : StartSession(h, s)

Next ==
    \/ Logins
    \/ \E u \in Users : DelAccount(u) \/ \E p \in Passwords : AddAccount(u, p)
    \/ \E s \in Sids : EndSession(s)
    \/ Audit \/ Tick

Spec == Init /\ [][Next]_vars

-----------------------------------------------------------------------------
(* Properties *)

\* A login is accepted exactly when the file that the handler opened had the login with that
\* password by the time the handler came to its end, unless another login reloads the table
\* in between: accounts added before it opened the file are known, those added while it reads
\* are judged as it found them, and those deleted before it opened the file are not known.
LoginCorrect ==
    \A h \in Handlers :
        /\ pc[h] = "accept" /\ ~disturbed[h] =>
              PasswordIn(snapshot[h], request[h].login) = request[h].password
        /\ pc[h] = "reject" /\ ~disturbed[h] =>
              PasswordIn(snapshot[h], request[h].login) # request[h].password

\* A session that was started ends by its user's logout, or by the one audit if it has expired
\* by then; what expires later is valid for as long as the daemon runs.
NoSessionLost ==
    [][\A s \in Sids : ValidSession(s) /\ ~ValidSession(s)' =>
          (Expired(s) /\ ~audited) \/ EndSession(s)]_vars
=============================================================================
