------------------------ MODULE Authentication_proofs ------------------------
(***************************************************************************)
(* That a login is judged by the password file, for any number of          *)
(* connections, users and changes of the file.  While a handler loads the  *)
(* table and no other one touches it, what the lines that are left say,    *)
(* and the table where they say nothing, is what the whole file says; a    *)
(* line that is appended meanwhile is added to both.                       *)
(* And that sessions end by logout only: the one audit comes before the    *)
(* first of them can expire.                                               *)
(***************************************************************************)
EXTENDS Authentication, WellFoundedInduction, TLAPS

-----------------------------------------------------------------------------
Own(f, u) == {i \in 1..Len(f) : f[i].login = u}

LEMMA LeastNumber ==
    ASSUME NEW T \in SUBSET Nat, T # {}
    PROVE  \E x \in T : \A y \in T : x <= y
<1> DEFINE R == OpToRel(<, Nat)
<1>1. IsWellFoundedOn(R, Nat)
  BY NatLessThanWellFounded
<1>2. \A x, y \in Nat : <<y, x>> \in R <=> y < x
  BY DEF OpToRel
<1> HIDE DEF R
<1>3. PICK x \in T : \A y \in T : ~ (<<y, x>> \in R)
  BY <1>1, WFMin
<1>4. \A y \in T : ~ (y < x)
  BY <1>2, <1>3
<1> QED
  BY <1>3, <1>4

LEMMA LastOwn ==
    ASSUME NEW f \in Seq(Line), NEW u, Own(f, u) # {}
    PROVE  \E i \in Own(f, u) : \A j \in Own(f, u) : j <= i
<1> DEFINE T == {Len(f) - i : i \in Own(f, u)}
<1>1. T \in SUBSET Nat /\ T # {}
  BY DEF Own
<1>2. PICK x \in T : \A y \in T : x <= y
  <2> HIDE DEF T
  <2> QED
    BY <1>1, LeastNumber
<1>3. PICK i \in Own(f, u) : x = Len(f) - i
  BY <1>2
<1>4. \A j \in Own(f, u) : Len(f) - i <= Len(f) - j
  BY <1>2, <1>3
<1> QED
  BY <1>3, <1>4 DEF Own

LEMMA PasswordOfLast ==
    ASSUME NEW f \in Seq(Line), NEW u,
           NEW i \in Own(f, u), \A j \in Own(f, u) : j <= i
    PROVE  PasswordIn(f, u) = f[i].password /\ PasswordIn(f, u) \in Passwords
<1>1. \A k \in Own(f, u) : (\A j \in Own(f, u) : j <= k) => k = i
  BY DEF Own
<1>2. (CHOOSE k \in Own(f, u) : \A j \in Own(f, u) : j <= k) = i
  BY <1>1
<1>3. PasswordIn(f, u) = f[CHOOSE k \in Own(f, u) : \A j \in Own(f, u) : j <= k].password
  BY DEF PasswordIn, Own
<1>4. f[i] \in Line
  BY DEF Own
<1> QED
  BY <1>2, <1>3, <1>4 DEF Line

LEMMA PasswordOfNone ==
    ASSUME NEW f, NEW u, Own(f, u) = {}
    PROVE  PasswordIn(f, u) = NoPassword
BY DEF PasswordIn, Own

\* The first line of a file counts if no other line is of the same login.
LEMMA PasswordOfTail ==
    ASSUME NEW f \in Seq(Line), f # <<>>, NEW u
    PROVE  PasswordIn(f, u) = IF PasswordIn(Tail(f), u) # NoPassword THEN PasswordIn(Tail(f), u)
                              ELSE IF Head(f).login = u THEN Head(f).password ELSE NoPassword
<1>1. Tail(f) \in Seq(Line) /\ Len(Tail(f)) = Len(f) - 1 /\ Head(f) = f[1] /\ Len(f) \in Nat \ {0}
  OBVIOUS
<1>2. \A i \in 1..Len(Tail(f)) : Tail(f)[i] = f[i + 1]
  OBVIOUS
<1>3. \A i \in Own(Tail(f), u) : i + 1 \in Own(f, u)
  BY <1>1, <1>2 DEF Own
<1>4. \A i \in Own(f, u) : i = 1 \/ i - 1 \in Own(Tail(f), u)
  <2> SUFFICES ASSUME NEW i \in Own(f, u), i # 1
               PROVE  i - 1 \in Own(Tail(f), u)
    OBVIOUS
  <2>1. i - 1 \in 1..Len(Tail(f)) /\ i \in 1..Len(f)
    BY <1>1 DEF Own
  <2>2. Tail(f)[i - 1] = f[i]
    BY <1>1, <1>2, <2>1
  <2> QED
    BY <2>1, <2>2 DEF Own
<1>5. CASE Own(Tail(f), u) # {}
  <2>1. PICK i \in Own(Tail(f), u) : \A j \in Own(Tail(f), u) : j <= i
    BY <1>1, <1>5, LastOwn
  <2>2. PasswordIn(Tail(f), u) = Tail(f)[i].password /\ PasswordIn(Tail(f), u) \in Passwords
    BY <1>1, <2>1, PasswordOfLast
  <2>3. i + 1 \in Own(f, u) /\ i \in 1..Len(Tail(f))
    BY <1>3, <2>1 DEF Own
  <2>4. \A j \in Own(f, u) : j <= i + 1
    <3> SUFFICES ASSUME NEW j \in Own(f, u)
                 PROVE  j <= i + 1
      OBVIOUS
    <3>1. j \in Nat /\ i \in Nat
      BY <1>1, <2>3 DEF Own
    <3>2. CASE j = 1
      BY <3>1, <3>2
    <3>3. CASE j - 1 \in Own(Tail(f), u)
      BY <2>1, <3>1, <3>3
    <3> QED
      BY <1>4, <3>2, <3>3
  <2>5. PasswordIn(f, u) = f[i + 1].password
    BY <2>3, <2>4, PasswordOfLast
  <2> QED
    BY <1>2, <2>2, <2>3, <2>5, AuthAssumption
<1>6. CASE Own(Tail(f), u) = {}
  <2>1. PasswordIn(Tail(f), u) = NoPassword
    BY <1>6, PasswordOfNone
  <2>2. CASE Head(f).login = u
    <3>1. 1 \in Own(f, u)
      BY <1>1, <2>2 DEF Own
    <3>2. \A j \in Own(f, u) : j <= 1
      BY <1>4, <1>6
    <3>3. PasswordIn(f, u) = f[1].password
      BY <3>1, <3>2, PasswordOfLast
    <3> QED
      BY <1>1, <2>1, <2>2, <3>3
  <2>3. CASE Head(f).login # u
    <3>1. Own(f, u) = {}
      BY <1>1, <1>4, <1>6, <2>3 DEF Own
    <3> QED
      BY <2>1, <2>3, <3>1, PasswordOfNone
  <2> QED
    BY <2>2, <2>3
<1> QED
  BY <1>5, <1>6

\* A line at the end counts, whatever the others are.
LEMMA PasswordOfAppend ==
    ASSUME NEW f \in Seq(Line), NEW l \in Line, NEW u
    PROVE  PasswordIn(Append(f, l), u) = IF l.login = u THEN l.password ELSE PasswordIn(f, u)
<1> DEFINE g == Append(f, l)
           n == Len(f) + 1
<1>1. g \in Seq(Line) /\ Len(g) = n /\ Len(f) \in Nat /\ g[n] = l
  OBVIOUS
<1>2. \A i \in 1..Len(f) : g[i] = f[i]
  OBVIOUS
<1> HIDE DEF g
<1>3. CASE l.login = u
  <2>1. n \in Own(g, u) /\ \A j \in Own(g, u) : j <= n
    BY <1>1, <1>3 DEF Own
  <2>2. PasswordIn(g, u) = g[n].password
    BY <1>1, <2>1, PasswordOfLast
  <2> QED
    BY <1>1, <1>3, <2>2 DEF g
<1>4. CASE l.login # u
  <2>1. Own(g, u) = Own(f, u)
    BY <1>1, <1>2, <1>4 DEF Own
  <2>2. CASE Own(f, u) = {}
    BY <1>4, <2>1, <2>2, PasswordOfNone DEF g
  <2>3. CASE Own(f, u) # {}
    <3>1. PICK i \in Own(f, u) : \A j \in Own(f, u) : j <= i
      BY <2>3, LastOwn
    <3>2. PasswordIn(f, u) = f[i].password
      BY <3>1, PasswordOfLast
    <3>3. PasswordIn(g, u) = g[i].password
      BY <1>1, <2>1, <3>1, PasswordOfLast
    <3>4. g[i] = f[i]
      BY <1>2, <3>1 DEF Own
    <3> QED
      BY <1>4, <3>2, <3>3, <3>4 DEF g
  <2> QED
    BY <2>2, <2>3
<1> QED
  BY <1>3, <1>4
-----------------------------------------------------------------------------

-----------------------------------------------------------------------------
States == {"idle", "load", "lookup", "accept", "reject"}

Typed ==
    /\ file \in Seq(Line)
    /\ accounts \in [Users -> Passwords \cup {NoPassword}]
    /\ pc \in [Handlers -> States]
    /\ lines \in [Handlers -> Seq(Line)]
    /\ snapshot \in [Handlers -> Seq(Line)]
    /\ request \in [Handlers -> Line \cup {NoRequest}]
    /\ \A h \in Handlers : pc[h] # "idle" => request[h] \in Line
    /\ disturbed \in [Handlers -> BOOLEAN]

\* What the lines that a handler has yet to load say, and the table where they say nothing.
ToBe(h, u) == IF PasswordIn(lines[h], u) # NoPassword THEN PasswordIn(lines[h], u) ELSE accounts[u]

LoadsSnapshot(h) ==
    /\ pc[h] \in {"load", "lookup"} /\ ~ disturbed[h] =>
          \A u \in Users : PasswordIn(snapshot[h], u) = ToBe(h, u)
    /\ pc[h] = "lookup" => lines[h] = <<>>

Judged(h) ==
    /\ pc[h] = "accept" /\ ~ disturbed[h] =>
          PasswordIn(snapshot[h], request[h].login) = request[h].password
    /\ pc[h] = "reject" /\ ~ disturbed[h] =>
          PasswordIn(snapshot[h], request[h].login) # request[h].password

IInv == Typed /\ \A h \in Handlers : LoadsSnapshot(h) /\ Judged(h)

LEMMA PasswordTyped ==
    ASSUME NEW f \in Seq(Line), NEW u
    PROVE  PasswordIn(f, u) \in Passwords \cup {NoPassword}
<1>1. CASE Own(f, u) = {}
  BY <1>1, PasswordOfNone
<1>2. CASE Own(f, u) # {}
  <2>1. PICK i \in Own(f, u) : \A j \in Own(f, u) : j <= i
    BY <1>2, LastOwn
  <2> QED
    BY <2>1, PasswordOfLast
<1> QED
  BY <1>1, <1>2

\* While a handler that nobody disturbs loads the next line, the others keep their facts or are
\* disturbed; everything else leaves what the facts are about alone.
Logging == <<accounts, pc, request, lines, snapshot, disturbed>>

LEMMA OpenPreserves ==
    ASSUME IInv, NEW h \in Handlers, NEW u \in Users, NEW p \in Passwords, Open(h, u, p)
    PROVE  IInv'
<1>1. Typed'
  BY DEF IInv, Typed, Open, Disturb, States, Line
<1>2. LoadsSnapshot(h)'
  <2>1. lines'[h] = file /\ snapshot'[h] = file /\ pc'[h] = "load"
    BY DEF IInv, Typed, Open
  <2>2. \A a \in Users : accounts'[a] = NoPassword
    BY DEF Open
  <2> QED
    BY <2>1, <2>2 DEF LoadsSnapshot, ToBe
<1>3. Judged(h)'
  BY DEF IInv, Typed, Open, Judged
<1>4. ASSUME NEW g \in Handlers, g # h
      PROVE  LoadsSnapshot(g)' /\ Judged(g)'
  <2>1. /\ pc'[g] = pc[g] /\ lines'[g] = lines[g] /\ snapshot'[g] = snapshot[g]
        /\ request'[g] = request[g]
        /\ disturbed'[g] = (disturbed[g] \/ pc[g] \in {"load", "lookup"})
    BY <1>4 DEF IInv, Typed, Open, Disturb
  <2>2. LoadsSnapshot(g) /\ Judged(g) /\ disturbed[g] \in BOOLEAN
    BY DEF IInv, Typed
  <2> QED
    BY <2>1, <2>2 DEF LoadsSnapshot, Judged
<1> QED
  BY <1>1, <1>2, <1>3, <1>4 DEF IInv

LEMMA LoadPreserves ==
    ASSUME IInv, NEW h \in Handlers, Load(h)
    PROVE  IInv'
<1>1. lines[h] \in Seq(Line) /\ lines[h] # <<>> /\ pc[h] = "load"
  BY DEF IInv, Typed, Load
<1>2. Head(lines[h]) \in Line /\ Tail(lines[h]) \in Seq(Line)
  BY <1>1
<1>3. /\ accounts' = [accounts EXCEPT ![Head(lines[h]).login] = Head(lines[h]).password]
      /\ lines' = [lines EXCEPT ![h] = Tail(lines[h])]
      /\ UNCHANGED <<file, pc, request, snapshot>>
  BY DEF Load
<1>4. Typed'
  <2>1. accounts' \in [Users -> Passwords \cup {NoPassword}]
    BY <1>2, <1>3 DEF IInv, Typed, Line
  <2>2. lines' \in [Handlers -> Seq(Line)]
    BY <1>2, <1>3 DEF IInv, Typed
  <2>3. disturbed' \in [Handlers -> BOOLEAN]
    BY DEF Load, Disturb, IInv, Typed
  <2> QED
    BY <1>3, <2>1, <2>2, <2>3 DEF IInv, Typed
<1>5. LoadsSnapshot(h)'
  <2>1. pc'[h] = "load" /\ snapshot'[h] = snapshot[h] /\ lines'[h] = Tail(lines[h])
    BY <1>1, <1>3 DEF IInv, Typed
  <2>2. disturbed'[h] = disturbed[h]
    BY DEF Load, Disturb, IInv, Typed
  <2>3. ASSUME NEW u \in Users, ~ disturbed[h]
        PROVE  PasswordIn(snapshot[h], u) = ToBe(h, u)'
    <3>1. PasswordIn(snapshot[h], u) = ToBe(h, u)
      BY <1>1, <2>3 DEF IInv, LoadsSnapshot
    <3>2. accounts'[u] = IF Head(lines[h]).login = u THEN Head(lines[h]).password ELSE accounts[u]
      BY <1>2, <1>3 DEF IInv, Typed, Line
    <3>3. Head(lines[h]).password # NoPassword
      BY <1>2, AuthAssumption DEF Line
    <3>4. PasswordIn(lines[h], u) =
             IF PasswordIn(Tail(lines[h]), u) # NoPassword THEN PasswordIn(Tail(lines[h]), u)
             ELSE IF Head(lines[h]).login = u THEN Head(lines[h]).password ELSE NoPassword
      BY <1>1, PasswordOfTail
    <3>5. ToBe(h, u)' = IF PasswordIn(Tail(lines[h]), u) # NoPassword
                          THEN PasswordIn(Tail(lines[h]), u) ELSE accounts'[u]
      BY <2>1 DEF ToBe
    <3> QED
      BY <3>1, <3>2, <3>3, <3>4, <3>5 DEF ToBe
  <2> QED
    BY <2>1, <2>2, <2>3 DEF LoadsSnapshot
<1>6. Judged(h)'
  BY <1>1, <1>3 DEF Judged
<1>7. ASSUME NEW g \in Handlers, g # h
      PROVE  LoadsSnapshot(g)' /\ Judged(g)'
  <2>1. /\ pc'[g] = pc[g] /\ lines'[g] = lines[g] /\ snapshot'[g] = snapshot[g]
        /\ request'[g] = request[g]
        /\ disturbed'[g] = (disturbed[g] \/ pc[g] \in {"load", "lookup"})
    BY <1>7 DEF IInv, Typed, Load, Disturb
  <2>2. LoadsSnapshot(g) /\ Judged(g) /\ disturbed[g] \in BOOLEAN
    BY DEF IInv, Typed
  <2> QED
    BY <2>1, <2>2 DEF LoadsSnapshot, Judged
<1> QED
  BY <1>4, <1>5, <1>6, <1>7 DEF IInv

LEMMA LoadedPreserves ==
    ASSUME IInv, NEW h \in Handlers, Loaded(h)
    PROVE  IInv'
<1>1. Typed'
  BY DEF IInv, Typed, Loaded, States
<1>2. ASSUME NEW g \in Handlers
      PROVE  LoadsSnapshot(g)' /\ Judged(g)'
  <2>1. /\ lines'[g] = lines[g] /\ snapshot'[g] = snapshot[g] /\ request'[g] = request[g]
        /\ disturbed'[g] = disturbed[g] /\ accounts' = accounts
        /\ g # h => pc'[g] = pc[g]
        /\ g = h => pc[g] = "load" /\ pc'[g] = "lookup" /\ lines[g] = <<>>
    BY DEF IInv, Typed, Loaded
  <2>2. LoadsSnapshot(g) /\ Judged(g)
    BY DEF IInv
  <2>3. \A u \in Users : ToBe(g, u)' = ToBe(g, u)
    BY <2>1 DEF ToBe
  <2> QED
    BY <2>1, <2>2, <2>3 DEF LoadsSnapshot, Judged
<1> QED
  BY <1>1, <1>2 DEF IInv

LEMMA LookupPreserves ==
    ASSUME IInv, NEW h \in Handlers, Lookup(h)
    PROVE  IInv'
<1>1. Typed'
  BY DEF IInv, Typed, Lookup, States
<1>2. ASSUME NEW g \in Handlers, g # h
      PROVE  LoadsSnapshot(g)' /\ Judged(g)'
  <2>1. /\ lines'[g] = lines[g] /\ snapshot'[g] = snapshot[g] /\ request'[g] = request[g]
        /\ disturbed'[g] = disturbed[g] /\ accounts' = accounts /\ pc'[g] = pc[g]
    BY <1>2 DEF IInv, Typed, Lookup
  <2>2. LoadsSnapshot(g) /\ Judged(g)
    BY DEF IInv
  <2>3. \A u \in Users : ToBe(g, u)' = ToBe(g, u)
    BY <2>1 DEF ToBe
  <2> QED
    BY <2>1, <2>2, <2>3 DEF LoadsSnapshot, Judged
<1>3. LoadsSnapshot(h)' /\ Judged(h)'
  <2>1. pc[h] = "lookup" /\ lines[h] = <<>> /\ request[h] \in Line
    BY DEF IInv, Typed, Lookup, LoadsSnapshot
  <2>2. pc'[h] = IF accounts[request[h].login] = request[h].password THEN "accept" ELSE "reject"
    BY DEF IInv, Typed, Lookup
  <2>3. PasswordIn(<<>>, request[h].login) = NoPassword
    BY PasswordOfNone DEF Own
  <2>4. request[h].login \in Users
    BY <2>1 DEF Line
  <2>5. ~ disturbed[h] => PasswordIn(snapshot[h], request[h].login) = accounts[request[h].login]
    BY <2>1, <2>3, <2>4 DEF IInv, LoadsSnapshot, ToBe
  <2>6. UNCHANGED <<snapshot, request, disturbed>>
    BY DEF Lookup
  <2> QED
    BY <2>2, <2>5, <2>6 DEF LoadsSnapshot, Judged
<1> QED
  BY <1>1, <1>2, <1>3 DEF IInv

LEMMA FinishedPreserves ==
    ASSUME IInv, NEW h \in Handlers, Finished(h)
    PROVE  IInv'
<1>1. Typed'
  BY DEF IInv, Typed, Finished, States
<1>2. ASSUME NEW g \in Handlers
      PROVE  LoadsSnapshot(g)' /\ Judged(g)'
  <2>1. CASE g = h
    BY <2>1 DEF IInv, Typed, Finished, LoadsSnapshot, Judged
  <2>2. CASE g # h
    <3>1. /\ lines'[g] = lines[g] /\ snapshot'[g] = snapshot[g] /\ request'[g] = request[g]
          /\ disturbed'[g] = disturbed[g] /\ accounts' = accounts /\ pc'[g] = pc[g]
      BY <2>2 DEF IInv, Typed, Finished
    <3>2. LoadsSnapshot(g) /\ Judged(g)
      BY DEF IInv
    <3>3. \A u \in Users : ToBe(g, u)' = ToBe(g, u)
      BY <3>1 DEF ToBe
    <3> QED
      BY <3>1, <3>2, <3>3 DEF LoadsSnapshot, Judged
  <2> QED
    BY <2>1, <2>2
<1> QED
  BY <1>1, <1>2 DEF IInv

\* What adduser appends is added to what a handler is still to load, and to what it is judged
\* by, or to neither.
LEMMA AddPreserves ==
    ASSUME IInv, NEW u \in Users, NEW p \in Passwords, AddAccount(u, p)
    PROVE  IInv'
<1> DEFINE line == [login |-> u, password |-> p]
<1>1. line \in Line /\ line.login = u /\ line.password = p /\ p # NoPassword
  BY AuthAssumption DEF Line
<1>2. /\ file' = Append(file, line)
      /\ lines' = [h \in Handlers |->
                     IF pc[h] = "load" /\ ~replaced[h] THEN Append(lines[h], line) ELSE lines[h]]
      /\ snapshot' = [h \in Handlers |->
                        IF pc[h] = "load" /\ ~replaced[h] THEN Append(snapshot[h], line)
                        ELSE snapshot[h]]
      /\ UNCHANGED <<accounts, pc, request, disturbed>>
  BY DEF AddAccount
<1> HIDE DEF line
<1>3. Typed'
  <2>1. \A h \in Handlers : lines[h] \in Seq(Line) /\ snapshot[h] \in Seq(Line)
    BY DEF IInv, Typed
  <2>2. \A f \in Seq(Line) : Append(f, line) \in Seq(Line)
    BY <1>1
  <2>3. lines' \in [Handlers -> Seq(Line)] /\ snapshot' \in [Handlers -> Seq(Line)]
    BY <1>2, <2>1, <2>2, Zenon
  <2>4. file' \in Seq(Line)
    BY <1>1, <1>2 DEF IInv, Typed
  <2> QED
    BY <1>2, <2>3, <2>4 DEF IInv, Typed
<1>4. ASSUME NEW h \in Handlers
      PROVE  LoadsSnapshot(h)' /\ Judged(h)'
  <2>1. LoadsSnapshot(h) /\ Judged(h) /\ lines[h] \in Seq(Line) /\ snapshot[h] \in Seq(Line)
    BY DEF IInv, Typed
  <2>2. CASE pc[h] = "load" /\ ~replaced[h]
    <3>1. lines'[h] = Append(lines[h], line) /\ snapshot'[h] = Append(snapshot[h], line)
      BY <1>2, <2>2
    <3>2. ASSUME NEW v \in Users, ~ disturbed[h]
          PROVE  PasswordIn(snapshot'[h], v) = ToBe(h, v)'
      <4>1. PasswordIn(snapshot[h], v) = ToBe(h, v)
        BY <2>1, <2>2, <3>2 DEF LoadsSnapshot
      <4>2. /\ PasswordIn(lines'[h], v) = IF u = v THEN p ELSE PasswordIn(lines[h], v)
            /\ PasswordIn(snapshot'[h], v) = IF u = v THEN p ELSE PasswordIn(snapshot[h], v)
        BY <1>1, <2>1, <3>1, PasswordOfAppend
      <4> QED
        BY <1>1, <1>2, <4>1, <4>2 DEF ToBe
    <3> QED
      BY <1>2, <2>2, <3>2 DEF LoadsSnapshot, Judged
  <2>3. CASE ~ (pc[h] = "load" /\ ~replaced[h])
    <3>1. lines'[h] = lines[h] /\ snapshot'[h] = snapshot[h]
      BY <1>2, <2>3
    <3> QED
      BY <1>2, <2>1, <3>1 DEF LoadsSnapshot, Judged, ToBe
  <2> QED
    BY <2>2, <2>3
<1> QED
  BY <1>3, <1>4 DEF IInv

\* deluser, the sessions and time leave logins alone.
LEMMA OthersPreserve ==
    ASSUME IInv, UNCHANGED Logging, file' \in Seq(Line)
    PROVE  IInv'
<1>1. Typed'
  BY DEF IInv, Typed, Logging
<1>2. ASSUME NEW g \in Handlers
      PROVE  LoadsSnapshot(g)' /\ Judged(g)'
  BY DEF IInv, Logging, LoadsSnapshot, Judged, ToBe
<1> QED
  BY <1>1, <1>2 DEF IInv

LEMMA FileTyped ==
    ASSUME IInv, Next
    PROVE  file' \in Seq(Line)
<1>1. file \in Seq(Line)
  BY DEF IInv, Typed
<1>2. ASSUME NEW u \in Users, NEW p \in Passwords, AddAccount(u, p)
      PROVE  file' \in Seq(Line)
  BY <1>1, <1>2 DEF AddAccount, Line
<1>3. ASSUME NEW u \in Users, DelAccount(u)
      PROVE  file' \in Seq(Line)
  <2>1. PICK i \in DOMAIN file : file' = SubSeq(file, 1, i - 1) \o SubSeq(file, i + 1, Len(file))
    BY <1>3 DEF DelAccount
  <2>2. i \in 1..Len(file)
    BY <1>1
  <2>3. SubSeq(file, 1, i - 1) \in Seq(Line)
    BY <1>1, <2>2
  <2>4. SubSeq(file, i + 1, Len(file)) \in Seq(Line)
    BY <1>1, <2>2
  <2> QED
    BY <2>1, <2>3, <2>4
<1>4. CASE UNCHANGED file
  BY <1>1, <1>4
<1> QED
  BY <1>2, <1>3, <1>4
     DEF Next, Logins, Open, Load, Loaded, Lookup, Reject, StartSession, Finished, EndSession,
         Audit, Tick

\* The lines left and the table say what the file said, for every login that is not disturbed.
THEOREM InductiveInvariant == Spec => []IInv
<1>1. ASSUME Init
      PROVE  IInv
  <2>1. file \in Seq(Line)
    <3>1. \A l : l \in Line => <<l>> \in Seq(Line)
      OBVIOUS
    <3>2. <<>> \in Seq(Line)
      OBVIOUS
    <3>3. file = <<>> \/ \E l \in Line : file = <<l>>
      BY <1>1, Zenon DEF Init
    <3> QED
      BY <3>1, <3>2, <3>3, Zenon
  <2>2. accounts \in [Users -> Passwords \cup {NoPassword}]
    BY <1>1, <2>1, PasswordTyped DEF Init
  <2> QED
    BY <1>1, <2>1, <2>2 DEF Init, IInv, Typed, States, LoadsSnapshot, Judged
<1>2. ASSUME IInv, [Next]_vars
      PROVE  IInv'
  <2>1. CASE UNCHANGED vars
    BY <1>2, <2>1, OthersPreserve DEF vars, Logging, IInv, Typed
  <2>2. ASSUME NEW h \in Handlers,
               \/ \E u \in Users, p \in Passwords : Open(h, u, p)
               \/ Load(h) \/ Loaded(h) \/ Lookup(h) \/ Reject(h)
               \/ \E s \in Sids : StartSession(h, s)
        PROVE  IInv'
    BY <1>2, <2>2, OpenPreserves, LoadPreserves, LoadedPreserves, LookupPreserves,
       FinishedPreserves DEF Reject, StartSession
  <2>3. CASE \E u \in Users : DelAccount(u) \/ \E p \in Passwords : AddAccount(u, p)
    <3>1. ASSUME NEW u \in Users, DelAccount(u)
          PROVE  IInv'
      <4>1. UNCHANGED Logging /\ Next
        BY <3>1 DEF DelAccount, Logging, Next
      <4> QED
        BY <1>2, <4>1, FileTyped, OthersPreserve
    <3> QED
      BY <1>2, <2>3, <3>1, AddPreserves
  <2>4. CASE (\E s \in Sids : EndSession(s)) \/ Audit \/ Tick
    <3>1. UNCHANGED Logging
      BY <2>4 DEF EndSession, Audit, Tick, Logging
    <3>2. Next
      BY <2>4 DEF Next
    <3> QED
      BY <1>2, <3>1, <3>2, FileTyped, OthersPreserve
  <2> QED
    BY <1>2, <2>1, <2>2, <2>3, <2>4 DEF Next, Logins
<1> QED
  BY <1>1, <1>2, PTL DEF Spec

\* For any number of connections, users and changes of the password file, a login that no other
\* one disturbs is accepted exactly when the file it opened had its password by the time that it
\* had read that file to the end, whatever was appended or put in the file's place meanwhile.
THEOREM LoginJudgedByFile == Spec => []LoginCorrect
<1>1. IInv => LoginCorrect
  BY DEF IInv, Judged, LoginCorrect
<1> QED
  BY <1>1, InductiveInvariant, PTL
-----------------------------------------------------------------------------
(* Sessions. *)

Session == [login : Users, expiry : Nat]

\* The audit's time has not passed without it, and a session lives on beyond that time.
SessionsInv ==
    /\ now \in Nat
    /\ sessions \in [Sids -> Session \cup {NoSession}]
    /\ audited \/ now <= AuditDelay
    /\ \A s \in Sids : ValidSession(s) => sessions[s].expiry >= SessionLife

\* The one audit finds no session to end: it runs before the first could expire.
LEMMA AuditEndsNone ==
    ASSUME SessionsInv, Audit
    PROVE  UNCHANGED sessions
<1>1. AuditDelay \in Nat /\ SessionLife \in Nat /\ AuditDelay < SessionLife
  BY AuthAssumption
<1>2. \A s \in Sids : ~ Expired(s)
  <2> SUFFICES ASSUME NEW s \in Sids, Expired(s)
               PROVE  FALSE
    OBVIOUS
  <2>1. sessions[s] \in Session /\ sessions[s].expiry >= SessionLife
    BY DEF SessionsInv, ValidSession, Expired
  <2>2. sessions[s].expiry < AuditDelay
    BY DEF Expired, Audit
  <2> QED
    BY <1>1, <2>1, <2>2 DEF Session
<1>3. sessions' = [s \in Sids |-> sessions[s]]
  BY <1>2 DEF Audit
<1> QED
  BY <1>3 DEF SessionsInv

LEMMA NextSessions == IInv /\ SessionsInv /\ [Next]_vars => SessionsInv'
<1> SUFFICES ASSUME IInv, SessionsInv, [Next]_vars
             PROVE  SessionsInv'
  OBVIOUS
<1>1. AuditDelay \in Nat /\ SessionLife \in Nat
  BY AuthAssumption
<1>2. CASE UNCHANGED <<now, sessions, audited>>
  BY <1>2 DEF SessionsInv, ValidSession
<1>3. ASSUME NEW h \in Handlers, NEW s \in Sids, StartSession(h, s)
      PROVE  SessionsInv'
  <2> DEFINE new == [login |-> request[h].login, expiry |-> now + SessionLife]
  <2>1. UNCHANGED <<now, audited>> /\ sessions' = [sessions EXCEPT ![s] = new]
    BY <1>3 DEF StartSession, Finished
  <2>2. request[h] \in Line
    BY <1>3 DEF StartSession, IInv, Typed
  <2>3. new \in Session /\ new.expiry >= SessionLife
    BY <1>1, <2>2 DEF Line, Session, SessionsInv
  <2> HIDE DEF new
  <2>4. sessions' \in [Sids -> Session \cup {NoSession}]
    BY <2>1, <2>3 DEF SessionsInv
  <2>5. \A t \in Sids : ValidSession(t)' => sessions'[t].expiry >= SessionLife
    BY <2>1, <2>3 DEF SessionsInv, ValidSession
  <2> QED
    BY <2>1, <2>4, <2>5 DEF SessionsInv
<1>4. ASSUME NEW s \in Sids, EndSession(s)
      PROVE  SessionsInv'
  <2>1. UNCHANGED <<now, audited>> /\ sessions' = [sessions EXCEPT ![s] = NoSession]
    BY <1>4 DEF EndSession
  <2> QED
    BY <2>1 DEF SessionsInv, ValidSession
<1>5. CASE Audit
  <2>1. UNCHANGED <<now, sessions>> /\ audited'
    BY <1>5, AuditEndsNone DEF Audit
  <2> QED
    BY <2>1 DEF SessionsInv, ValidSession
<1>6. CASE Tick
  <2>1. UNCHANGED <<sessions, audited>> /\ now' = now + 1 /\ (audited \/ now < AuditDelay)
    BY <1>6 DEF Tick
  <2>2. now' \in Nat /\ (audited' \/ now' <= AuditDelay)
    BY <1>1, <2>1 DEF SessionsInv
  <2> QED
    BY <2>1, <2>2 DEF SessionsInv, ValidSession
<1> QED
  BY <1>2, <1>3, <1>4, <1>5, <1>6
     DEF Next, vars, Logins, Open, Load, Loaded, Lookup, Reject, Finished, AddAccount, DelAccount

\* A session ends in no step but its own logout.
LEMMA EndsByLogout ==
    ASSUME IInv, SessionsInv, [Next]_vars,
           NEW s \in Sids, ValidSession(s), ~ ValidSession(s)'
    PROVE  EndSession(s)
<1>0. sessions \in [Sids -> Session \cup {NoSession}] /\ NoSession \notin Session
  BY AuthAssumption DEF SessionsInv, Session
<1>1. CASE UNCHANGED sessions
  BY <1>1 DEF ValidSession
<1>2. ASSUME NEW h \in Handlers, NEW t \in Sids, StartSession(h, t)
      PROVE  EndSession(s)
  BY <1>0, <1>2 DEF StartSession, ValidSession
<1>3. ASSUME NEW t \in Sids, EndSession(t)
      PROVE  EndSession(s)
  BY <1>0, <1>3 DEF EndSession, ValidSession
<1>4. CASE Audit
  BY <1>1, <1>4, AuditEndsNone
<1> QED
  BY <1>1, <1>2, <1>3, <1>4
     DEF Next, vars, Logins, Open, Load, Loaded, Lookup, Reject, AddAccount, DelAccount, Tick

\* The audit that Authentication.new starts ends no session whatever the life of a session and
\* the delay are, as long as the delay is the shorter: a session ends by its user's logout only.
THEOREM SessionsEndByLogout ==
    Spec => [][\A s \in Sids : ValidSession(s) /\ ~ ValidSession(s)' => EndSession(s)]_vars
<1>1. Init => SessionsInv
  BY AuthAssumption DEF Init, SessionsInv, ValidSession
<1>2. IInv /\ SessionsInv /\ [Next]_vars
        => [\A s \in Sids : ValidSession(s) /\ ~ ValidSession(s)' => EndSession(s)]_vars
  BY EndsByLogout
<1> QED
  BY <1>1, <1>2, NextSessions, InductiveInvariant, PTL DEF Spec

\* No session is lost: what ends one is its user's logout, or the one audit once it has expired.
THEOREM SessionsKept == Spec => NoSessionLost
<1>1. [\A s \in Sids : ValidSession(s) /\ ~ ValidSession(s)' => EndSession(s)]_vars
        => [\A s \in Sids : ValidSession(s) /\ ~ ValidSession(s)' =>
               (Expired(s) /\ ~ audited) \/ EndSession(s)]_vars
  OBVIOUS
<1> QED
  BY <1>1, SessionsEndByLogout, PTL DEF NoSessionLost
=============================================================================
