----------------------- MODULE TorrentRegistry_proofs -----------------------
(***************************************************************************)
(* That the four places agree on every torrent that nothing got in the way *)
(* of, for any number of connections, torrents, names and files.  What     *)
(* holds of such a torrent (Clear) says, for each step of a handler that   *)
(* adds or deletes it, what was done already, and that no other torrent    *)
(* uses its file or its name; and of a link, that there is neither a file  *)
(* nor an info yet.                                                        *)
(***************************************************************************)
EXTENDS TorrentRegistry, TLAPS

-----------------------------------------------------------------------------
(* The inductive invariant *)

Steps == {"idle", "add", "adjust", "remove", "rm", "forget"}

Typed ==
    /\ disk \in [Files -> Torrents \cup {NoTorrent}]
    /\ session \in SUBSET Torrents
    /\ table \in [Names -> Info \cup {NoInfo}]
    /\ watcher \in [Torrents -> 0..NoWatcher]
    /\ link \in [Torrents -> {"none", "wait", "adjust"}]
    /\ adds \in 0..MaxAdds
    /\ handler \in [Handlers -> [step : Steps, torrent : Torrents \cup {NoTorrent},
                                 file : Files \cup {NoFile}, info : Info \cup {NoInfo}]]
    /\ \A h \in Handlers :
          /\ At(h, "idle") => Subject(h) = NoTorrent
          /\ ~At(h, "idle") => Subject(h) \in Torrents
          /\ handler[h].step \in {"add", "adjust"} => handler[h].file \in Files
          /\ handler[h].step \notin {"add", "adjust"} => handler[h].file = NoFile
          /\ At(h, "forget") => handler[h].info \in Info
    /\ deleted \in SUBSET Torrents
    /\ mixed \in SUBSET Torrents

HasInfo(t) == table[NameOf[t]] # NoInfo /\ table[NameOf[t]].torrent = t

\* The file in the torrent's info is its own.
HasFile(t) ==
    /\ HasInfo(t)
    /\ table[NameOf[t]].file \in Files
    /\ disk[table[NameOf[t]].file] = t

\* An info is under the name of its torrent, and is looked up there.
Named ==
    /\ \A n \in Names : table[n] # NoInfo => NameOf[table[n].torrent] = n
    /\ \A h \in Handlers :
          At(h, "forget") => NameOf[handler[h].info.torrent] = NameOfSubject(h)

\* The threads of a torrent end with it, the one that waits for its metadata as well.
Unwatched == \A t \in Torrents : t \notin session => watcher[t] = NoWatcher /\ link[t] # "wait"

AtStep(t, step) == \E h \in Handlers : Subject(h) = t /\ At(h, step)

OneFile(t) == \A f, g \in Files : disk[f] = t /\ disk[g] = t => f = g
OwnFiles(t) == \A f \in Files : t \in UsersOf(f) => UsersOf(f) \subseteq {t}
OwnName(t) == Around(t) => \A u \in Namesakes(t) : ~Around(u)

OneAtATime(t) ==
    /\ ~ (Adding(t) /\ Deleting(t))
    /\ \A h, k \in Handlers : Subject(h) = t /\ Subject(k) = t =>
          /\ At(h, "adjust") /\ At(k, "adjust") => h = k
          /\ handler[h].step \in {"rm", "forget"} /\ handler[k].step \in {"rm", "forget"}
                => h = k

\* What a handler that adds, or deletes, the torrent has done so far.
AddSteps(t) ==
    \A h \in Handlers : Subject(h) = t =>
        /\ handler[h].step \in {"add", "adjust"} => disk[handler[h].file] = t
        /\ At(h, "adjust") => t \in session

DelSteps(t) ==
    \A h \in Handlers : Subject(h) = t =>
        /\ At(h, "rm") => t \notin session /\ (OnDisk(t) => HasFile(t))
        /\ At(h, "forget") => t \notin session /\ ~OnDisk(t) /\ t \in deleted

\* What is fetched by a link is not on the disk.
LinkSteps(t) ==
    /\ link[t] # "none" =>
          /\ t \in session /\ ~OnDisk(t) /\ ~HasInfo(t)
          /\ \A h \in Handlers : Subject(h) = t => At(h, "remove")
    /\ HasInfo(t) /\ table[NameOf[t]].file = LinkFile => ~OnDisk(t)

\* Only a torrent that is around has an info, and only its own deletion looks that up.
OwnInfo(t) ==
    /\ HasInfo(t) => t \in session \/ OnDisk(t) \/ AtStep(t, "rm") \/ AtStep(t, "forget")
    /\ \A h \in Handlers : At(h, "forget") /\ handler[h].info.torrent = t => Subject(h) = t

Kept(t) ==
    t \in session /\ ~AtStep(t, "adjust") /\ link[t] = "none" =>
        /\ HasInfo(t)
        /\ watcher[t] \in {table[NameOf[t]].id, NoWatcher}
        /\ table[NameOf[t]].file = LinkFile \/ HasFile(t)

Gone(t) ==
    t \in deleted => /\ t \notin session /\ ~OnDisk(t) /\ ~Adding(t)
                     /\ HasInfo(t) => AtStep(t, "forget")

Clear(t) ==
    /\ OneFile(t) /\ OwnFiles(t) /\ OwnName(t) /\ OneAtATime(t)
    /\ AddSteps(t) /\ DelSteps(t) /\ LinkSteps(t) /\ OwnInfo(t) /\ Kept(t) /\ Gone(t)

IInv == Typed /\ Named /\ Unwatched /\ \A t \in Torrents \ mixed : Clear(t)

-----------------------------------------------------------------------------
(* A torrent that a step does not concern *)

\* Of the torrent t, and of the other torrents that use its name or files, nothing is new.
Untouched(t) ==
    /\ \A f \in Files : disk'[f] = t <=> disk[f] = t
    /\ \A f \in Files : t \in UsersOf(f)' => t \in UsersOf(f) /\ UsersOf(f)' \subseteq UsersOf(f)
    /\ Around(t) => \A u \in Torrents : NameOf[u] = NameOf[t] /\ Around(u)' => Around(u)
    /\ t \in session' <=> t \in session
    /\ t \in deleted' <=> t \in deleted
    /\ watcher'[t] = watcher[t] /\ link'[t] = link[t]
    /\ HasInfo(t)' <=> HasInfo(t)
    /\ HasInfo(t) => table'[NameOf[t]] = table[NameOf[t]]
    /\ \A h \in Handlers : handler'[h].torrent = t <=> handler[h].torrent = t
    /\ \A h \in Handlers : handler[h].torrent = t => handler'[h] = handler[h]
    /\ \A h \in Handlers : handler'[h].step = "forget" /\ handler'[h].info.torrent = t =>
          handler[h].step = "forget" /\ handler[h].info.torrent = t

\* No other torrent comes to use its files, or its name, if none does anything new.
LEMMA StaysOwn ==
    ASSUME NEW t \in Torrents, OwnFiles(t), OwnName(t),
           \A f \in Files : UsersOf(f)' \subseteq UsersOf(f),
           \A u \in Torrents : Around(u)' => Around(u)
    PROVE  OwnFiles(t)' /\ OwnName(t)'
<1>1. OwnFiles(t)'
  BY DEF OwnFiles
<1>2. OwnName(t)'
  BY DEF OwnName, Namesakes
<1> QED
  BY <1>1, <1>2

LEMMA UntouchedStaysClear ==
    ASSUME Typed, NEW t \in Torrents, Clear(t), Untouched(t)
    PROVE  Clear(t)'
<1>1. /\ OnDisk(t)' <=> OnDisk(t)
      /\ Adding(t)' <=> Adding(t)
      /\ Deleting(t)' <=> Deleting(t)
  BY DEF Untouched, OnDisk, Adding, Deleting, Occupied
<1>2. Around(t)' <=> Around(t)
  BY <1>1 DEF Untouched, Around
<1>3. \A step : AtStep(t, step)' <=> AtStep(t, step)
  BY DEF Untouched, AtStep, At, Subject
<1>4. OneFile(t)'
  BY DEF Clear, OneFile, Untouched
<1>5. OwnFiles(t)'
  BY DEF Clear, OwnFiles, Untouched
<1>6. OwnName(t)'
  BY <1>2 DEF Clear, OwnName, Namesakes, Untouched
<1>7. OneAtATime(t)'
  BY <1>1 DEF Clear, OneAtATime, Untouched, At, Subject
<1>8. AddSteps(t)'
  BY DEF Clear, AddSteps, Untouched, At, Subject, Typed
<1>9. HasFile(t)' <=> HasFile(t)
  BY DEF Untouched, HasFile
<1>10. DelSteps(t)'
  BY <1>1, <1>9 DEF Clear, DelSteps, Untouched, At, Subject
<1>11. LinkSteps(t)'
  BY <1>1 DEF Clear, LinkSteps, Untouched, At, Subject
<1>12. OwnInfo(t)'
  BY <1>1, <1>3 DEF Clear, OwnInfo, Untouched, At, Subject
<1>13. Kept(t)'
  BY <1>3, <1>9 DEF Clear, Kept, Untouched
<1>14. Gone(t)'
  BY <1>1, <1>3 DEF Clear, Gone, Untouched
<1> QED
  BY <1>4, <1>5, <1>6, <1>7, <1>8, <1>10, <1>11, <1>12, <1>13, <1>14 DEF Clear

\* Of two namesakes of which one is not mixed, at most one is around.
LEMMA NoNamesakeAround ==
    ASSUME NEW t \in Torrents, Clear(t), NEW u \in Torrents,
           u # t, NameOf[u] = NameOf[t], Around(u)
    PROVE  ~Around(t) /\ ~HasInfo(t)
<1>1. ~Around(t)
  BY DEF Clear, OwnName, Namesakes
<1>2. HasInfo(t) => Around(t)
  BY DEF Clear, OwnInfo, Around, AtStep, Deleting, Occupied, At, Subject
<1> QED
  BY <1>1, <1>2

-----------------------------------------------------------------------------
(* Adding *)

LEMMA AddFindsPreserves ==
    ASSUME IInv, NEW h \in Handlers, NEW f \in Files, AddFinds(h, f)
    PROVE  IInv'
<1> DEFINE s == disk[f]
<1>1. s \in Torrents /\ s \notin session /\ Subject(h) = NoTorrent
  BY DEF IInv, Typed, AddFinds, Subject
<1>2. /\ handler'[h] = [step |-> "add", torrent |-> s, file |-> f, info |-> NoInfo]
      /\ \A k \in Handlers \ {h} : handler'[k] = handler[k]
  BY DEF IInv, Typed, AddFinds
<1>3. Typed'
  <2>1. [step |-> "add", torrent |-> s, file |-> f, info |-> NoInfo]
            \in [step : Steps, torrent : Torrents \cup {NoTorrent},
                 file : Files \cup {NoFile}, info : Info \cup {NoInfo}]
    BY <1>1 DEF Steps
  <2> QED
    BY <1>1, <1>2, <2>1 DEF IInv, Typed, AddFinds, diskVars, At, Subject
<1>4. Named' /\ Unwatched'
  BY <1>2 DEF IInv, Named, Unwatched, AddFinds, diskVars, At, NameOfSubject
<1>5. UNCHANGED <<disk, deleted, session, table, watcher, link>>
  BY DEF AddFinds, diskVars
<1>6. \A g \in Files : UsersOf(g)' \subseteq UsersOf(g)
  BY <1>2, <1>5 DEF UsersOf
<1>7. \A u \in Torrents : Around(u)' => Around(u)
  <2>1. \A u \in Torrents : Adding(u)' => Adding(u) \/ u = s
    BY <1>2, <1>5 DEF Adding, Occupied
  <2>2. \A u \in Torrents : Deleting(u)' => Deleting(u)
    BY <1>2 DEF Deleting, Occupied
  <2>3. OnDisk(s)
    BY DEF OnDisk
  <2> QED
    BY <1>5, <2>1, <2>2, <2>3 DEF Around, OnDisk
<1>8. ASSUME NEW t \in Torrents \ mixed'
      PROVE  Clear(t)'
  <2>1. t \notin mixed /\ Clear(t)
    BY DEF IInv, AddFinds
  <2>2. CASE t # s
    <3>1. Untouched(t)
      BY <1>1, <1>2, <1>5, <1>6, <1>7, <2>2, RegistryAssumption DEF Untouched, HasInfo, Subject
    <3> QED
      BY <2>1, <3>1, UntouchedStaysClear DEF IInv
  <2>3. CASE t = s
    <3>1. ~Deleting(t) /\ OnDisk(t) /\ t \notin deleted
      BY <2>1, <2>3 DEF AddFinds, OnDisk, Clear, Gone
    <3>2. ~Deleting(t)'
      BY <1>2, <3>1 DEF Deleting, Occupied
    <3>3. OneFile(t)' /\ OwnFiles(t)' /\ OwnName(t)'
      BY <1>5, <1>6, <1>7, <2>1, StaysOwn DEF Clear, OneFile
    <3>4. OneAtATime(t)' /\ AddSteps(t)' /\ DelSteps(t)'
      BY <1>2, <1>5, <2>1, <2>3, <3>1, <3>2
         DEF Clear, OneAtATime, AddSteps, DelSteps, At, Subject, Deleting, Occupied
    <3>5. OwnInfo(t)' /\ Kept(t)' /\ Gone(t)'
      BY <1>1, <1>2, <1>5, <2>1, <2>3, <3>1
         DEF Clear, OwnInfo, Kept, Gone, OnDisk, HasInfo, At, Subject
    <3>6. LinkSteps(t)'
      BY <1>5, <2>1, <3>1 DEF Clear, LinkSteps, HasInfo, OnDisk
    <3> QED
      BY <3>3, <3>4, <3>5, <3>6 DEF Clear
  <2> QED
    BY <2>2, <2>3
<1> QED
  BY <1>3, <1>4, <1>8 DEF IInv


LEMMA AddAddsPreserves ==
    ASSUME IInv, NEW h \in Handlers, AddAdds(h)
    PROVE  IInv'
<1> DEFINE s == Subject(h)
<1>1. s \in Torrents /\ handler[h].file \in Files
  BY RegistryAssumption DEF IInv, Typed, AddAdds, At, Subject
<1>2. /\ s \in session => handler'[h] = Idle
      /\ s \notin session => handler'[h] = [handler[h] EXCEPT !.step = "adjust"]
      /\ \A k \in Handlers \ {h} : handler'[k] = handler[k]
  BY DEF IInv, Typed, AddAdds, Goto, Done
<1>3. UNCHANGED <<disk, deleted, table, watcher, link, adds, mixed>> /\ session' = session \cup {s}
  BY DEF AddAdds, diskVars
<1>4. handler[h].step = "add"
  BY DEF AddAdds, At
<1>5. s \notin session => /\ handler'[h].step = "adjust" /\ handler'[h].torrent = s
                         /\ handler'[h].file = handler[h].file
                         /\ handler'[h].info = handler[h].info
  BY <1>2 DEF IInv, Typed, Subject
<1>6. Typed'
  <2>1. handler' \in [Handlers -> [step : Steps, torrent : Torrents \cup {NoTorrent},
                                 file : Files \cup {NoFile}, info : Info \cup {NoInfo}]]
    BY DEF IInv, Typed, AddAdds, Goto, Done, Idle, Steps
  <2> QED
    BY <1>1, <1>2, <1>3, <1>4, <1>5, <2>1 DEF IInv, Typed, At, Subject, Idle, NoWatcher
<1>7. Named' /\ Unwatched'
  BY <1>1, <1>2, <1>3, <1>4, <1>5 DEF IInv, Named, Unwatched, At, NameOfSubject, Idle
<1>8. \A g \in Files : UsersOf(g)' \subseteq UsersOf(g)
  BY <1>2, <1>3, <1>5, RegistryAssumption DEF UsersOf, Idle, Subject
<1>9. \A u \in Torrents : Around(u)' => Around(u)
  <2>1. \A u \in Torrents : Adding(u)' => Adding(u)
    BY <1>2, <1>3, <1>4, <1>5, RegistryAssumption DEF Adding, Occupied, Idle, Subject
  <2>2. \A u \in Torrents : Deleting(u)' => Deleting(u)
    BY <1>2, <1>5 DEF Deleting, Occupied, Idle
  <2>3. Adding(s)
    BY <1>4 DEF Adding, Occupied, Subject
  <2> QED
    BY <1>3, <2>1, <2>2, <2>3 DEF Around, OnDisk
<1>10. ASSUME NEW t \in Torrents \ mixed'
       PROVE  Clear(t)'
  <2>1. Clear(t)
    BY <1>3 DEF IInv
  <2>2. CASE t # s
    <3>1. Untouched(t)
      BY <1>2, <1>3, <1>5, <1>8, <1>9, <2>2, RegistryAssumption
         DEF Untouched, HasInfo, Subject, Idle
    <3> QED
      BY <2>1, <3>1, UntouchedStaysClear DEF IInv
  <2>3. CASE t = s
    <3>1. ~Deleting(t) /\ t \notin deleted /\ disk[handler[h].file] = t
      BY <1>4, <2>1, <2>3
         DEF Clear, OneAtATime, Gone, AddSteps, Adding, Occupied, Subject
    <3>2. \A k \in Handlers : Subject(k)' = t =>
              Subject(k) = t /\ handler[k].step \notin {"remove", "rm", "forget"}
                /\ handler'[k].step \notin {"remove", "rm", "forget"}
      BY <1>1, <1>2, <1>4, <1>5, <2>3, <3>1, RegistryAssumption
         DEF Deleting, Occupied, Subject, Idle
    <3>3. OneFile(t)' /\ OwnFiles(t)' /\ OwnName(t)'
      BY <1>3, <1>8, <1>9, <2>1, StaysOwn DEF Clear, OneFile
    <3>4. OneAtATime(t)'
      <4>1. ~Deleting(t)'
        BY <3>2 DEF Deleting, Occupied, Subject
      <4>2. \A k \in Handlers : Subject(k)' = t /\ At(k, "adjust")' => k = h \/ t \in session
        BY <1>2, <2>1, <3>2 DEF Clear, AddSteps, At, Subject
      <4>3. \A k \in Handlers : k # h => handler'[k] = handler[k]
        BY <1>2
      <4>4. At(h, "adjust")' => t \notin session
        BY <1>2, <2>3 DEF At, Idle
      <4> QED
        BY <2>1, <3>2, <4>1, <4>2, <4>3, <4>4 DEF Clear, OneAtATime, At, Subject
    <3>5. AddSteps(t)' /\ DelSteps(t)'
      BY <1>2, <1>3, <1>4, <1>5, <2>1, <2>3, <3>1, <3>2
         DEF Clear, AddSteps, DelSteps, At, Subject, Idle
    <3>6. OwnInfo(t)'
      BY <1>2, <1>3, <1>5, <2>1, <2>3 DEF Clear, OwnInfo, At, Subject, Idle
    <3>7. Kept(t)' /\ Gone(t)'
      BY <1>2, <1>3, <1>4, <1>5, <2>1, <2>3, <3>1
         DEF Clear, Kept, Gone, HasFile, HasInfo, AtStep, At, Subject, Idle
    <3>8. LinkSteps(t)'
      BY <1>1, <1>3, <2>1, <3>1 DEF Clear, LinkSteps, HasInfo, OnDisk
    <3> QED
      BY <3>3, <3>4, <3>5, <3>6, <3>7, <3>8 DEF Clear
  <2> QED
    BY <2>2, <2>3
<1> QED
  BY <1>6, <1>7, <1>10 DEF IInv

LEMMA AdjustEffect ==
    ASSUME Typed, NEW s \in Torrents, NEW file \in Files \cup {LinkFile}, Adjust(s, file)
    PROVE  LET info == [id |-> adds', file |-> file, torrent |-> s]
           IN  /\ info \in Info /\ info # NoInfo
               /\ adds' \in 0..MaxAdds
               /\ table' \in [Names -> Info \cup {NoInfo}]
               /\ table'[NameOf[s]] = info
               /\ \A n \in Names \ {NameOf[s]} : table'[n] = table[n]
               /\ watcher' \in [Torrents -> 0..NoWatcher]
               /\ s \in session => watcher'[s] = adds'
               /\ \A u \in Torrents : u # s \/ u \notin session => watcher'[u] = watcher[u]
<1> DEFINE info == [id |-> adds', file |-> file, torrent |-> s]
<1>1. adds' \in 0..MaxAdds /\ NameOf[s] \in Names
  BY RegistryAssumption DEF Typed, Adjust
<1>2. info \in Info /\ info # NoInfo
  BY <1>1, NoInfoAssumption DEF Info
<1>3. table' = [table EXCEPT ![NameOf[s]] = info]
  BY DEF Adjust
<1>4. /\ table' \in [Names -> Info \cup {NoInfo}]
      /\ table'[NameOf[s]] = info
      /\ \A n \in Names \ {NameOf[s]} : table'[n] = table[n]
  <2> HIDE DEF info
  <2> QED
    BY <1>1, <1>2, <1>3 DEF Typed
<1>5. /\ watcher' \in [Torrents -> 0..NoWatcher]
      /\ s \in session => watcher'[s] = adds'
      /\ \A u \in Torrents : u # s \/ u \notin session => watcher'[u] = watcher[u]
  BY <1>1, RegistryAssumption DEF Typed, Adjust, NoWatcher
<1> QED
  BY <1>1, <1>2, <1>4, <1>5

\* A name's entry is only written for the torrent of that name that is around.
LEMMA OtherInfos ==
    ASSUME NEW s \in Torrents, Around(s), NEW t \in Torrents, Clear(t), t # s,
           \A n \in Names \ {NameOf[s]} : table'[n] = table[n],
           table'[NameOf[s]] # NoInfo => table'[NameOf[s]].torrent = s
    PROVE  /\ HasInfo(t)' <=> HasInfo(t)
           /\ HasInfo(t) => table'[NameOf[t]] = table[NameOf[t]]
<1>1. CASE NameOf[t] = NameOf[s]
  BY <1>1, NoNamesakeAround DEF HasInfo
<1>2. CASE NameOf[t] # NameOf[s]
  BY <1>2, RegistryAssumption DEF HasInfo
<1> QED
  BY <1>1, <1>2

LEMMA AddAdjustsPreserves ==
    ASSUME IInv, NEW h \in Handlers, AddAdjusts(h)
    PROVE  IInv'
<1> DEFINE s == Subject(h)
           file == handler[h].file
           info == [id |-> adds', file |-> file, torrent |-> s]
<1>1. /\ s \in Torrents /\ file \in Files /\ NameOf[s] \in Names
      /\ handler[h].step = "adjust" /\ Adjust(s, file)
  BY RegistryAssumption DEF IInv, Typed, AddAdjusts, At, Subject
<1>2. handler'[h] = Idle /\ \A k \in Handlers \ {h} : handler'[k] = handler[k]
  BY DEF IInv, Typed, AddAdjusts, Done
<1>3. /\ info \in Info /\ info # NoInfo /\ adds' \in 0..MaxAdds
      /\ table' \in [Names -> Info \cup {NoInfo}]
      /\ watcher' \in [Torrents -> 0..NoWatcher]
  BY <1>1, AdjustEffect DEF IInv
<1>4. table'[NameOf[s]] = info /\ \A n \in Names \ {NameOf[s]} : table'[n] = table[n]
  BY <1>1, AdjustEffect DEF IInv
<1>5. /\ s \in session => watcher'[s] = adds'
      /\ \A u \in Torrents : u # s \/ u \notin session => watcher'[u] = watcher[u]
  BY <1>1, AdjustEffect DEF IInv
<1>6. UNCHANGED <<disk, deleted, session, link, mixed>>
  BY DEF AddAdjusts, diskVars
<1>7. Typed'
  <2>1. handler' \in [Handlers -> [step : Steps, torrent : Torrents \cup {NoTorrent},
                                 file : Files \cup {NoFile}, info : Info \cup {NoInfo}]]
    BY DEF IInv, Typed, AddAdjusts, Done, Idle, Steps
  <2> QED
    BY <1>2, <1>3, <1>6, <2>1 DEF IInv, Typed, At, Subject, Idle
<1>8. Named' /\ Unwatched'
  <2>1. \A m \in Names : table'[m] # NoInfo => NameOf[table'[m].torrent] = m
    BY <1>4 DEF IInv, Named
  <2> QED
    BY <1>2, <1>5, <1>6, <2>1 DEF IInv, Named, Unwatched, At, NameOfSubject, Idle
<1>9. \A g \in Files : UsersOf(g)' \subseteq UsersOf(g)
  <2> SUFFICES ASSUME NEW g \in Files, NEW u \in UsersOf(g)'
               PROVE  u \in UsersOf(g)
    OBVIOUS
  <2>1. CASE disk'[g] = u
    BY <1>6, <2>1 DEF UsersOf
  <2>2. CASE \E m \in Names : table'[m] # NoInfo /\ table'[m].file = g /\ table'[m].torrent = u
    <3>1. PICK m \in Names : table'[m] # NoInfo /\ table'[m].file = g /\ table'[m].torrent = u
      BY <2>2
    <3>2. CASE m = NameOf[s]
      BY <1>1, <1>4, <3>1, <3>2 DEF UsersOf, Subject
    <3>3. CASE m # NameOf[s]
      BY <1>4, <3>1, <3>3 DEF UsersOf
    <3> QED
      BY <3>2, <3>3
  <2>3. CASE \E k \in Handlers : handler'[k].file = g /\ handler'[k].torrent = u
    BY <1>2, <2>3, RegistryAssumption DEF UsersOf, Idle
  <2> QED
    BY <2>1, <2>2, <2>3 DEF UsersOf
<1>10. \A u \in Torrents : Around(u)' => Around(u)
  BY <1>2, <1>6 DEF Around, OnDisk, Adding, Deleting, Occupied, Idle
<1>11. Around(s)
  BY <1>1 DEF Around, Adding, Occupied, Subject
<1>12. ASSUME NEW t \in Torrents \ mixed'
       PROVE  Clear(t)'
  <2>1. Clear(t)
    BY <1>6 DEF IInv
  <2>2. CASE t # s
    <3>1. /\ HasInfo(t)' <=> HasInfo(t)
          /\ HasInfo(t) => table'[NameOf[t]] = table[NameOf[t]]
      <4>1. table'[NameOf[s]].torrent = s
        BY <1>4
      <4> HIDE DEF s
      <4> QED
        BY <1>1, <1>4, <1>11, <2>1, <2>2, <4>1, OtherInfos
    <3>2. Untouched(t)
      BY <1>2, <1>5, <1>6, <1>9, <1>10, <2>2, <3>1, RegistryAssumption
         DEF Untouched, Subject, Idle
    <3> QED
      BY <2>1, <3>2, UntouchedStaysClear DEF IInv
  <2>3. CASE t = s
    <3>1. /\ t \in session /\ disk[file] = t /\ OnDisk(t) /\ t \notin deleted
          /\ link[t] = "none"
      BY <1>1, <2>1, <2>3
         DEF Clear, AddSteps, Gone, LinkSteps, OnDisk, At, Subject, IInv, Typed
    <3>2. HasInfo(t)' /\ table'[NameOf[t]] = info
      BY <1>3, <1>4, <2>3 DEF HasInfo
    <3>3. OneFile(t)' /\ OwnFiles(t)' /\ OwnName(t)'
      BY <1>6, <1>9, <1>10, <2>1, StaysOwn DEF Clear, OneFile
    <3>4. \A k \in Handlers : Subject(k)' = t =>
              handler'[k] = handler[k] /\ Subject(k) = t /\ handler[k].step \notin {"rm", "forget"}
      BY <1>2, <2>1, <3>1, RegistryAssumption DEF Clear, DelSteps, At, Subject, Idle
    <3>5. OneAtATime(t)'
      BY <1>2, <1>6, <2>1, <3>4 DEF Clear, OneAtATime, Adding, Deleting, Occupied, At, Subject
    <3>6. AddSteps(t)' /\ DelSteps(t)'
      BY <1>6, <2>1, <3>4 DEF Clear, AddSteps, DelSteps, At, Subject
    <3>7. OwnInfo(t)'
      BY <1>2, <1>6, <2>1, <3>1 DEF Clear, OwnInfo, At, Subject, Idle
    <3>8. LinkSteps(t)'
      BY <1>1, <1>6, <3>1, <3>2, RegistryAssumption DEF LinkSteps
    <3>9. Kept(t)' /\ Gone(t)'
      BY <1>1, <1>5, <1>6, <2>3, <3>1, <3>2 DEF Kept, HasFile, Gone
    <3> QED
      BY <3>3, <3>5, <3>6, <3>7, <3>8, <3>9 DEF Clear
  <2> QED
    BY <2>2, <2>3
<1> QED
  BY <1>7, <1>8, <1>12 DEF IInv

-----------------------------------------------------------------------------
(* Deleting *)

LEMMA DelFindsPreserves ==
    ASSUME IInv, NEW h \in Handlers, NEW s \in Torrents, DelFinds(h, s)
    PROVE  IInv'
<1>1. s \in session /\ Subject(h) = NoTorrent /\ handler[h].step = "idle"
  BY DEF IInv, Typed, DelFinds, At, Subject
<1>2. /\ handler'[h] = [step |-> "remove", torrent |-> s, file |-> NoFile, info |-> NoInfo]
      /\ \A k \in Handlers \ {h} : handler'[k] = handler[k]
  BY DEF IInv, Typed, DelFinds
<1>3. UNCHANGED <<disk, deleted, session, table, watcher, link, adds>>
  BY DEF DelFinds, diskVars
<1>4. Typed'
  <2>1. [step |-> "remove", torrent |-> s, file |-> NoFile, info |-> NoInfo]
            \in [step : Steps, torrent : Torrents \cup {NoTorrent},
                 file : Files \cup {NoFile}, info : Info \cup {NoInfo}]
    BY DEF Steps
  <2> QED
    BY <1>2, <1>3, <2>1 DEF IInv, Typed, DelFinds, At, Subject, NoWatcher
<1>5. Named' /\ Unwatched'
  BY <1>2, <1>3 DEF IInv, Named, Unwatched, At, NameOfSubject
<1>6. \A g \in Files : UsersOf(g)' \subseteq UsersOf(g)
  BY <1>2, <1>3, RegistryAssumption DEF UsersOf
<1>7. \A u \in Torrents : Around(u)' => Around(u)
  <2>1. \A u \in Torrents : Adding(u)' => Adding(u)
    BY <1>2, <1>3 DEF Adding, Occupied
  <2>2. \A u \in Torrents : Deleting(u)' => Deleting(u) \/ u = s
    BY <1>2 DEF Deleting, Occupied
  <2> QED
    BY <1>1, <1>3, <2>1, <2>2 DEF Around, OnDisk
<1>8. ASSUME NEW t \in Torrents \ mixed'
      PROVE  Clear(t)'
  <2>1. t \notin mixed /\ Clear(t)
    BY DEF IInv, DelFinds
  <2>2. CASE t # s
    <3>1. Untouched(t)
      BY <1>1, <1>2, <1>3, <1>6, <1>7, <2>2, RegistryAssumption DEF Untouched, HasInfo, Subject
    <3> QED
      BY <2>1, <3>1, UntouchedStaysClear DEF IInv
  <2>3. CASE t = s
    <3>1. ~Adding(t) /\ t \in session /\ t \notin deleted
      BY <1>1, <2>1, <2>3 DEF DelFinds, Clear, Gone
    <3>2. ~Adding(t)'
      BY <1>2, <1>3, <3>1 DEF Adding, Occupied
    <3>3. OneFile(t)' /\ OwnFiles(t)' /\ OwnName(t)'
      BY <1>3, <1>6, <1>7, <2>1, StaysOwn DEF Clear, OneFile
    <3>4. OneAtATime(t)'
      BY <1>2, <2>1, <3>2 DEF Clear, OneAtATime, At, Subject
    <3>5. AddSteps(t)' /\ DelSteps(t)'
      BY <1>2, <1>3, <2>1, <3>1 DEF Clear, AddSteps, DelSteps, At, Subject
    <3>6. OwnInfo(t)' /\ Kept(t)' /\ Gone(t)'
      BY <1>1, <1>2, <1>3, <2>1, <2>3, <3>1, RegistryAssumption
         DEF Clear, OwnInfo, Kept, Gone, HasFile, HasInfo, AtStep, At, Subject
    <3>7. LinkSteps(t)'
      BY <1>1, <1>2, <1>3, <2>1, <2>3, <3>1 DEF Clear, LinkSteps, HasInfo, OnDisk, At, Subject
    <3> QED
      BY <3>3, <3>4, <3>5, <3>6, <3>7 DEF Clear
  <2> QED
    BY <2>2, <2>3
<1> QED
  BY <1>4, <1>5, <1>8 DEF IInv

LEMMA DelRemovesPreserves ==
    ASSUME IInv, NEW h \in Handlers, DelRemoves(h)
    PROVE  IInv'
<1> DEFINE s == Subject(h)
<1>1. s \in Torrents /\ handler[h].step = "remove" /\ handler[h].file = NoFile
  BY DEF IInv, Typed, DelRemoves, At, Subject
<1>2. /\ \/ handler'[h] = Idle
         \/ s \in session /\ handler'[h] = [handler[h] EXCEPT !.step = "rm"]
      /\ \A k \in Handlers \ {h} : handler'[k] = handler[k]
  BY DEF IInv, Typed, DelRemoves, Goto, Done
<1>3. /\ UNCHANGED <<disk, table, adds, mixed>>
      /\ session' = session \ {s}
      /\ watcher' = [watcher EXCEPT ![s] = NoWatcher]
      /\ link' = [link EXCEPT ![s] = IF @ = "wait" THEN "none" ELSE @]
  BY DEF DelRemoves, Leaves
<1>4. \/ handler'[h] = Idle
      \/ /\ s \in session
         /\ handler'[h].step = "rm" /\ handler'[h].torrent = s
         /\ handler'[h].file = NoFile
         /\ handler'[h].info = handler[h].info
  BY <1>1, <1>2 DEF IInv, Typed, Subject
<1>5. watcher'[s] = NoWatcher /\ \A u \in Torrents \ {s} : watcher'[u] = watcher[u]
  BY <1>1, <1>3 DEF IInv, Typed
<1>6. /\ link'[s] = IF link[s] = "wait" THEN "none" ELSE link[s]
      /\ \A u \in Torrents \ {s} : link'[u] = link[u]
  BY <1>1, <1>3 DEF IInv, Typed
<1>7. \/ s \notin session /\ deleted' = deleted /\ handler'[h] = Idle
      \/ link[s] = "wait" /\ deleted' = deleted \cup {s} /\ handler'[h] = Idle
      \/ s \in session /\ deleted' = deleted /\ handler'[h].step = "rm"
  BY <1>1 DEF IInv, Typed, DelRemoves, Goto, Done
<1>8. Typed'
  <2>1. handler' \in [Handlers -> [step : Steps, torrent : Torrents \cup {NoTorrent},
                                 file : Files \cup {NoFile}, info : Info \cup {NoInfo}]]
    BY DEF IInv, Typed, DelRemoves, Goto, Done, Idle, Steps
  <2>2. watcher' \in [Torrents -> 0..NoWatcher]
    BY <1>1, <1>3, RegistryAssumption DEF IInv, Typed, NoWatcher
  <2>3. link' \in [Torrents -> {"none", "wait", "adjust"}] /\ deleted' \in SUBSET Torrents
    BY <1>1, <1>3, <1>7 DEF IInv, Typed
  <2> QED
    BY <1>1, <1>2, <1>3, <1>4, <2>1, <2>2, <2>3 DEF IInv, Typed, At, Subject, Idle
<1>9. Named' /\ Unwatched'
  BY <1>2, <1>3, <1>4, <1>5, <1>6 DEF IInv, Named, Unwatched, At, NameOfSubject, Idle
<1>10. \A g \in Files : UsersOf(g)' \subseteq UsersOf(g)
  BY <1>2, <1>3, <1>4, RegistryAssumption DEF UsersOf, Idle, Subject
<1>11. \A u \in Torrents : Around(u)' => Around(u)
  <2>1. \A u \in Torrents : Adding(u)' => Adding(u)
    BY <1>2, <1>4, <1>6 DEF Adding, Occupied, Idle
  <2>2. \A u \in Torrents : Deleting(u)' => Deleting(u)
    BY <1>1, <1>2, <1>4 DEF Deleting, Occupied, Idle, Subject
  <2> QED
    BY <1>3, <2>1, <2>2 DEF Around, OnDisk
<1>12. ASSUME NEW t \in Torrents \ mixed'
       PROVE  Clear(t)'
  <2>1. Clear(t)
    BY <1>3 DEF IInv
  <2>2. CASE t # s
    <3>1. Untouched(t)
      BY <1>2, <1>3, <1>4, <1>5, <1>6, <1>7, <1>10, <1>11, <2>2, RegistryAssumption
         DEF Untouched, HasInfo, Subject, Idle
    <3> QED
      BY <2>1, <3>1, UntouchedStaysClear DEF IInv
  <2>3. CASE t = s
    <3>1. /\ \A k \in Handlers : Subject(k) = t => handler[k].step \notin {"add", "adjust"}
          /\ link[t] \in {"none", "wait"}
      BY <1>1, <2>1, <2>3
         DEF Clear, OneAtATime, Adding, Deleting, Occupied, Subject, IInv, Typed
    <3>2. link'[t] = "none" /\ t \notin session'
      BY <1>3, <1>6, <2>3, <3>1
    <3>3. \A k \in Handlers :
             Subject(k)' = t => Subject(k) = t /\ (k # h => handler'[k] = handler[k])
      BY <1>2, <2>3, RegistryAssumption DEF Subject, Idle
    <3>4. OneFile(t)' /\ OwnFiles(t)' /\ OwnName(t)'
      BY <1>3, <1>10, <1>11, <2>1, StaysOwn DEF Clear, OneFile
    <3>5. ~Adding(t)' /\ AddSteps(t)'
      BY <1>2, <1>4, <2>3, <3>1, <3>2, <3>3 DEF Adding, Occupied, AddSteps, At, Subject, Idle
    <3>6. t \in session =>
             /\ OnDisk(t) => HasFile(t)
             /\ t \notin deleted
             /\ \A k \in Handlers : Subject(k) = t => handler[k].step \notin {"rm", "forget"}
      BY <2>1, <3>1 DEF Clear, Kept, Gone, DelSteps, LinkSteps, HasFile, AtStep, At, Subject
    <3>7. t \notin session => \A k \in Handlers : Subject(k)' = t => k # h
      BY <1>1, <1>4, <2>3, RegistryAssumption DEF Subject, Idle
    <3>8. /\ OnDisk(t)' <=> OnDisk(t)
          /\ HasInfo(t)' <=> HasInfo(t)
          /\ HasFile(t)' <=> HasFile(t)
      BY <1>3 DEF OnDisk, HasFile, HasInfo
    <3>9. OneAtATime(t)'
      <4>1. \A k \in Handlers : Subject(k)' = t => ~At(k, "adjust")'
        BY <3>5 DEF Adding, Occupied, At, Subject
      <4>2. CASE t \in session
        <5>1. \A k \in Handlers : Subject(k)' = t /\ handler'[k].step \in {"rm", "forget"} => k = h
          BY <3>3, <3>6, <4>2
        <5> QED
          BY <3>5, <4>1, <5>1 DEF OneAtATime
      <4>3. CASE t \notin session
        <5>1. \A k \in Handlers : Subject(k)' = t => Subject(k) = t /\ handler'[k] = handler[k]
          BY <3>3, <3>7, <4>3
        <5> QED
          BY <2>1, <3>5, <4>1, <5>1 DEF Clear, OneAtATime
      <4> QED
        BY <4>2, <4>3
    <3>10. DelSteps(t)'
      <4>1. CASE t \in session
        <5>1. \A k \in Handlers : Subject(k)' = t => ~At(k, "forget")'
          BY <1>4, <3>3, <3>6, <4>1 DEF At, Subject, Idle
        <5> QED
          BY <3>2, <3>6, <3>8, <4>1, <5>1 DEF DelSteps
      <4>2. CASE t \notin session
        <5>1. \A k \in Handlers : Subject(k)' = t => Subject(k) = t /\ handler'[k] = handler[k]
          BY <3>3, <3>7, <4>2
        <5>2. t \in deleted => t \in deleted'
          BY <1>7
        <5> QED
          BY <2>1, <3>2, <3>8, <5>1, <5>2 DEF Clear, DelSteps, At, Subject
      <4> QED
        BY <4>1, <4>2
    <3>11. LinkSteps(t)'
      BY <1>3, <2>1, <3>2, <3>8 DEF Clear, LinkSteps
    <3>12. link[t] = "wait" => t \in session /\ ~OnDisk(t) /\ ~HasInfo(t)
      BY <2>1 DEF Clear, LinkSteps
    <3>13. OwnInfo(t)'
      <4>1. HasInfo(t) /\ t \in session => AtStep(t, "rm")'
        BY <1>1, <1>4, <1>7, <2>3, <3>12 DEF AtStep, At, Subject, Idle
      <4>2. \A step : AtStep(t, step) /\ step \in {"rm", "forget"} => AtStep(t, step)'
        BY <1>1, <1>2 DEF AtStep, At, Subject
      <4>3. \A k \in Handlers :
               At(k, "forget")' /\ (handler[k].info.torrent = t)' => Subject(k)' = t
        BY <1>2, <1>4, <2>1 DEF Clear, OwnInfo, At, Subject, Idle
      <4> QED
        BY <2>1, <3>8, <4>1, <4>2, <4>3 DEF Clear, OwnInfo
    <3>14. Kept(t)' /\ Gone(t)'
      <4>1. AtStep(t, "forget") => AtStep(t, "forget")'
        BY <1>1, <1>2 DEF AtStep, At, Subject
      <4> QED
        BY <1>7, <2>1, <2>3, <3>2, <3>5, <3>8, <3>12, <4>1 DEF Clear, Kept, Gone
    <3> QED
      BY <3>4, <3>5, <3>9, <3>10, <3>11, <3>13, <3>14 DEF Clear
  <2> QED
    BY <2>2, <2>3
<1> QED
  BY <1>8, <1>9, <1>12 DEF IInv

LEMMA DelRmsPreserves ==
    ASSUME IInv, NEW h \in Handlers, DelRms(h)
    PROVE  IInv'
<1> DEFINE s == Subject(h)
           info == table[NameOfSubject(h)]
<1>1. /\ s \in Torrents /\ handler[h].step = "rm" /\ handler[h].file = NoFile
      /\ NameOfSubject(h) \in Names /\ info \in Info \cup {NoInfo}
  BY RegistryAssumption DEF IInv, Typed, DelRms, At, Subject, NameOfSubject
<1>2. /\ info = NoInfo => handler'[h] = Idle /\ disk' = disk
      /\ info # NoInfo =>
            /\ handler'[h] = [handler[h] EXCEPT !.step = "forget", !.info = info]
            /\ disk' = [f \in Files |-> IF f = info.file THEN NoTorrent ELSE disk[f]]
      /\ \A k \in Handlers \ {h} : handler'[k] = handler[k]
  BY DEF IInv, Typed, DelRms, Done
<1>3. UNCHANGED <<session, table, watcher, link, adds, mixed>> /\ deleted' = deleted \cup {s}
  BY DEF DelRms
<1>4. info # NoInfo => /\ handler'[h].step = "forget" /\ handler'[h].torrent = s
                       /\ handler'[h].file = NoFile /\ handler'[h].info = info
                       /\ info \in Info /\ info.torrent \in Torrents
  BY <1>1, <1>2 DEF IInv, Typed, Subject, Info
<1>5. \A g \in Files : \/ disk'[g] = disk[g]
                       \/ disk'[g] = NoTorrent /\ info # NoInfo /\ g = info.file
  BY <1>2
<1>6. Typed'
  <2>1. handler' \in [Handlers -> [step : Steps, torrent : Torrents \cup {NoTorrent},
                                 file : Files \cup {NoFile}, info : Info \cup {NoInfo}]]
    BY <1>1 DEF IInv, Typed, DelRms, Done, Idle, Steps
  <2>2. disk' \in [Files -> Torrents \cup {NoTorrent}] /\ deleted' \in SUBSET Torrents
    BY <1>1, <1>2, <1>3 DEF IInv, Typed
  <2> QED
    BY <1>1, <1>2, <1>3, <1>4, <2>1, <2>2 DEF IInv, Typed, At, Subject, Idle, NoWatcher
<1>7. Named' /\ Unwatched'
  <2>1. info # NoInfo => NameOf[info.torrent] = NameOf[s]
    BY <1>1 DEF IInv, Named, NameOfSubject, Subject
  <2> QED
    BY <1>2, <1>3, <1>4, <2>1
       DEF IInv, Named, Unwatched, At, NameOfSubject, Subject, Idle
<1>8. \A g \in Files : UsersOf(g)' \subseteq UsersOf(g)
  BY <1>2, <1>3, <1>4, <1>5, RegistryAssumption DEF UsersOf, Idle
<1>9. \A u \in Torrents : Around(u)' => Around(u)
  <2>1. \A u \in Torrents : Adding(u)' => Adding(u)
    BY <1>2, <1>3, <1>4 DEF Adding, Occupied, Idle
  <2>2. \A u \in Torrents : Deleting(u)' => Deleting(u)
    BY <1>1, <1>2, <1>4 DEF Deleting, Occupied, Idle, Subject
  <2>3. \A u \in Torrents : OnDisk(u)' => OnDisk(u)
    BY <1>5, RegistryAssumption DEF OnDisk
  <2> QED
    BY <1>3, <2>1, <2>2, <2>3 DEF Around
<1>10. Around(s)
  BY <1>1 DEF Around, Deleting, Occupied, Subject
<1>11. ASSUME NEW t \in Torrents \ mixed'
       PROVE  Clear(t)'
  <2>1. Clear(t)
    BY <1>3 DEF IInv
  <2>2. CASE t # s
    <3>1. info # NoInfo => info.torrent # t
      <4>1. info # NoInfo => NameOf[info.torrent] = NameOf[s]
        BY <1>1 DEF IInv, Named, NameOfSubject, Subject
      <4>2. SUFFICES ASSUME info # NoInfo, info.torrent = t
                     PROVE  FALSE
        OBVIOUS
      <4>3. NameOf[t] = NameOf[s]
        BY <4>1, <4>2
      <4>4. HasInfo(t)
        BY <4>2, <4>3 DEF HasInfo, NameOfSubject, Subject
      <4> QED
        BY <1>1, <1>10, <2>1, <2>2, <4>3, <4>4, NoNamesakeAround
    <3>2. \A g \in Files : disk'[g] = t <=> disk[g] = t
      <4>1. info # NoInfo /\ info.file \in Files => info.torrent \in UsersOf(info.file)
        BY <1>1, <1>4 DEF UsersOf
      <4>2. info # NoInfo /\ info.file \in Files => disk[info.file] # t
        BY <1>4, <2>1, <3>1, <4>1 DEF Clear, OwnFiles, UsersOf
      <4> QED
        BY <1>5, <4>2, RegistryAssumption
    <3>3. Untouched(t)
      <4>2. \A k \in Handlers : handler'[k].step = "forget" /\ handler'[k].info.torrent = t =>
                handler[k].step = "forget" /\ handler[k].info.torrent = t
        BY <1>2, <1>4, <3>1 DEF Idle
      <4>3. \A k \in Handlers : handler'[k].torrent = t <=> handler[k].torrent = t
        BY <1>2, <1>4, <2>2, RegistryAssumption DEF Subject, Idle
      <4>4. \A k \in Handlers : handler[k].torrent = t => handler'[k] = handler[k]
        BY <1>2, <2>2 DEF Subject
      <4> QED
        BY <1>3, <1>8, <1>9, <2>2, <3>2, <4>2, <4>3, <4>4 DEF Untouched, HasInfo
    <3> QED
      BY <2>1, <3>3, UntouchedStaysClear DEF IInv
  <2>3. CASE t = s
    <3>1. t \notin session /\ (OnDisk(t) => HasFile(t)) /\ info = table[NameOf[t]]
      BY <1>1, <2>1, <2>3 DEF Clear, DelSteps, At, Subject, NameOfSubject
    <3>2. ~OnDisk(t)'
      <4>1. CASE OnDisk(t)
        <5>1. info # NoInfo /\ info.file \in Files /\ disk[info.file] = t
          BY <3>1, <4>1 DEF HasFile, HasInfo
        <5>2. \A g \in Files : disk[g] = t => disk'[g] = NoTorrent
          BY <1>2, <2>1, <5>1 DEF Clear, OneFile
        <5> QED
          BY <1>5, <5>2, RegistryAssumption DEF OnDisk
      <4>2. CASE ~OnDisk(t)
        BY <1>5, <4>2, RegistryAssumption DEF OnDisk
      <4> QED
        BY <4>1, <4>2
    <3>3. t \in deleted' /\ link'[t] = "none"
      BY <1>3, <2>1, <2>3, <3>1 DEF Clear, LinkSteps
    <3>4. \A k \in Handlers : Subject(k)' = t =>
             /\ handler'[k].step \notin {"add", "adjust"}
             /\ handler'[k].step \in {"rm", "forget"} => k = h
             /\ ~At(h, "rm")'
      BY <1>1, <1>2, <1>4, <2>1, <2>3
         DEF Clear, OneAtATime, Adding, Deleting, Occupied, At, Subject, Idle
    <3>5. ~Adding(t)'
      BY <3>3, <3>4 DEF Adding, Occupied, Subject
    <3>6. OneFile(t)' /\ OwnFiles(t)' /\ OwnName(t)'
      BY <1>8, <1>9, <2>1, <3>2, StaysOwn DEF Clear, OneFile, OnDisk
    <3>7. OneAtATime(t)' /\ AddSteps(t)'
      BY <3>4, <3>5 DEF OneAtATime, AddSteps, At, Subject
    <3>8. DelSteps(t)'
      BY <1>3, <3>1, <3>2, <3>3, <3>4 DEF DelSteps, At, Subject
    <3>9. LinkSteps(t)'
      BY <3>2, <3>3 DEF LinkSteps
    <3>10. HasInfo(t)' => AtStep(t, "forget")'
      BY <1>3, <1>4, <2>3, <3>1 DEF HasInfo, AtStep, At, Subject
    <3>11. OwnInfo(t)'
      BY <1>2, <1>4, <2>1, <2>3, <3>10 DEF Clear, OwnInfo, At, Subject, Idle
    <3>12. Kept(t)' /\ Gone(t)'
      BY <1>3, <3>1, <3>2, <3>5, <3>10 DEF Kept, Gone
    <3> QED
      BY <3>6, <3>7, <3>8, <3>9, <3>11, <3>12 DEF Clear
  <2> QED
    BY <2>2, <2>3
<1> QED
  BY <1>6, <1>7, <1>11 DEF IInv

LEMMA DelForgetsPreserves ==
    ASSUME IInv, NEW h \in Handlers, DelForgets(h)
    PROVE  IInv'
<1> DEFINE s == Subject(h)
           n == NameOfSubject(h)
           info == handler[h].info
<1>1. /\ s \in Torrents /\ handler[h].step = "forget" /\ n \in Names /\ info \in Info
  BY RegistryAssumption DEF IInv, Typed, DelForgets, At, Subject, NameOfSubject
<1>2. handler'[h] = Idle /\ \A k \in Handlers \ {h} : handler'[k] = handler[k]
  BY DEF IInv, Typed, DelForgets, Done
<1>3. UNCHANGED <<disk, deleted, session, link, adds, mixed>>
  BY DEF DelForgets, diskVars
<1>4. table'[n] = NoInfo /\ \A m \in Names \ {n} : table'[m] = table[m]
  BY <1>1 DEF IInv, Typed, DelForgets
<1>5. watcher' = watcher \/ watcher' = [watcher EXCEPT ![info.torrent] = NoWatcher]
  BY DEF DelForgets
<1>6. Typed'
  <2>1. handler' \in [Handlers -> [step : Steps, torrent : Torrents \cup {NoTorrent},
                                 file : Files \cup {NoFile}, info : Info \cup {NoInfo}]]
    BY DEF IInv, Typed, DelForgets, Done, Idle, Steps
  <2>2. table' \in [Names -> Info \cup {NoInfo}]
    BY DEF IInv, Typed, DelForgets
  <2>3. watcher' \in [Torrents -> 0..NoWatcher]
    BY <1>5, RegistryAssumption DEF IInv, Typed, NoWatcher
  <2> QED
    BY <1>2, <1>3, <2>1, <2>2, <2>3 DEF IInv, Typed, At, Subject, Idle
<1>7. Named' /\ Unwatched'
  <2>1. \A u \in Torrents : watcher'[u] = watcher[u] \/ watcher'[u] = NoWatcher
    BY <1>5 DEF IInv, Typed
  <2> QED
    BY <1>2, <1>3, <1>4, <2>1 DEF IInv, Named, Unwatched, At, NameOfSubject, Idle
<1>8. \A g \in Files : UsersOf(g)' \subseteq UsersOf(g)
  BY <1>2, <1>3, <1>4, RegistryAssumption DEF UsersOf, Idle
<1>9. \A u \in Torrents : Around(u)' => Around(u)
  BY <1>2, <1>3 DEF Around, OnDisk, Adding, Deleting, Occupied, Idle
<1>10. Around(s)
  BY <1>1 DEF Around, Deleting, Occupied, Subject
<1>11. ASSUME NEW t \in Torrents \ mixed'
       PROVE  Clear(t)'
  <2>1. Clear(t)
    BY <1>3 DEF IInv
  <2>2. CASE t # s
    <3>1. info.torrent # t
      BY <1>1, <2>1, <2>2 DEF Clear, OwnInfo, At
    <3>2. watcher'[t] = watcher[t]
      BY <1>5, <3>1 DEF IInv, Typed
    <3>3. /\ HasInfo(t)' <=> HasInfo(t)
          /\ HasInfo(t) => table'[NameOf[t]] = table[NameOf[t]]
      <4>1. n = NameOf[s]
        BY DEF NameOfSubject, Subject
      <4> HIDE DEF s, n
      <4> QED
        BY <1>1, <1>4, <1>10, <2>1, <2>2, <4>1, OtherInfos
    <3>4. Untouched(t)
      BY <1>2, <1>3, <1>8, <1>9, <2>2, <3>2, <3>3, RegistryAssumption
         DEF Untouched, Subject, Idle
    <3> QED
      BY <2>1, <3>4, UntouchedStaysClear DEF IInv
  <2>3. CASE t = s
    <3>1. t \notin session /\ ~OnDisk(t) /\ ~HasInfo(t)' /\ link'[t] = "none"
      BY <1>1, <1>3, <1>4, <2>1, <2>3
         DEF Clear, DelSteps, LinkSteps, HasInfo, At, Subject, NameOfSubject
    <3>2. \A k \in Handlers : Subject(k)' = t =>
             /\ Subject(k) = t /\ handler'[k] = handler[k] /\ k # h
             /\ handler[k].step \notin {"add", "adjust", "rm", "forget"}
      BY <1>1, <1>2, <2>1, <2>3, RegistryAssumption
         DEF Clear, OneAtATime, Adding, Deleting, Occupied, Subject, Idle
    <3>3. ~Adding(t)'
      BY <3>1, <3>2 DEF Adding, Occupied, Subject
    <3>4. OneFile(t)' /\ OwnFiles(t)' /\ OwnName(t)'
      BY <1>3, <1>8, <1>9, <2>1, StaysOwn DEF Clear, OneFile
    <3>5. OneAtATime(t)' /\ AddSteps(t)' /\ DelSteps(t)'
      BY <3>2, <3>3 DEF OneAtATime, AddSteps, DelSteps, At, Subject
    <3>6. OwnInfo(t)'
      BY <1>2, <2>1, <3>1 DEF Clear, OwnInfo, At, Subject, Idle
    <3>7. Kept(t)' /\ Gone(t)'
      BY <1>3, <3>1, <3>3 DEF Kept, Gone, OnDisk
    <3>8. LinkSteps(t)'
      BY <3>1 DEF LinkSteps
    <3> QED
      BY <3>4, <3>5, <3>6, <3>7, <3>8 DEF Clear
  <2> QED
    BY <2>2, <2>3
<1> QED
  BY <1>6, <1>7, <1>11 DEF IInv

-----------------------------------------------------------------------------
(* Fetching, and starting again *)

LEMMA GetTorrentPreserves ==
    ASSUME IInv, NEW s \in Torrents, NEW f \in Files, GetTorrent(s, f)
    PROVE  IInv'
<1>1. /\ UNCHANGED <<session, table, watcher, link, adds, handler>>
      /\ deleted' = deleted \ {s} /\ mixed \subseteq mixed' /\ mixed' \subseteq Torrents
  BY DEF IInv, Typed, GetTorrent, UsersOf, Clash, Namesakes
<1>2. disk'[f] = s /\ \A g \in Files \ {f} : disk'[g] = disk[g]
  BY DEF IInv, Typed, GetTorrent
<1>3. Typed' /\ Named' /\ Unwatched'
  <2>1. disk' \in [Files -> Torrents \cup {NoTorrent}]
    BY DEF IInv, Typed, GetTorrent
  <2> QED
    BY <1>1, <2>1
       DEF IInv, Typed, Named, Unwatched, At, Subject, NameOfSubject, NoWatcher
<1>4. \A g \in Files : \A u \in UsersOf(g)' : u \in UsersOf(g) \/ (g = f /\ u = s)
  BY <1>1, <1>2 DEF UsersOf
<1>5. \A u \in Torrents : Around(u)' => Around(u) \/ u = s
  BY <1>1, <1>2 DEF Around, OnDisk, Adding, Deleting, Occupied
<1>6. \A u : /\ Adding(u)' <=> Adding(u)
             /\ Deleting(u)' <=> Deleting(u)
             /\ HasInfo(u)' <=> HasInfo(u)
             /\ \A step : AtStep(u, step)' <=> AtStep(u, step)
  BY <1>1 DEF Adding, Deleting, Occupied, HasInfo, AtStep, At, Subject
<1>7. ASSUME NEW t \in Torrents \ mixed'
      PROVE  Clear(t)'
  <2>1. t \notin mixed /\ Clear(t)
    BY <1>1 DEF IInv
  <2>2. CASE t # s
    <3>1. t \notin UsersOf(f)
      BY <2>2 DEF GetTorrent
    <3>2. NameOf[s] = NameOf[t] => ~Around(t)
      BY <2>2 DEF GetTorrent, Clash, Namesakes
    <3>3. \A g \in Files : disk'[g] = t <=> disk[g] = t
      BY <1>2, <2>2, <3>1 DEF UsersOf
    <3>4. \A g \in Files : t \in UsersOf(g)' => t \in UsersOf(g) /\ UsersOf(g)' \subseteq UsersOf(g)
      BY <1>4, <2>2, <3>1
    <3>5. Untouched(t)
      BY <1>1, <1>5, <1>6, <2>2, <3>2, <3>3, <3>4 DEF Untouched
    <3> QED
      BY <2>1, <3>5, UntouchedStaysClear DEF IInv
  <2>3. CASE t = s
    <3>1. /\ UsersOf(f) \subseteq {t} /\ ~Deleting(t) /\ ~Linked(t)
          /\ \A g \in Files \ {f} : disk[g] # t
          /\ \A u \in Namesakes(t) : ~Around(u)
      BY <2>3 DEF GetTorrent, Clash
    <3>2. OnDisk(t)' /\ t \notin deleted'
      BY <1>1, <1>2, <2>3 DEF OnDisk
    <3>3. /\ link[t] = "none"
          /\ HasInfo(t) => /\ table[NameOf[t]].file \in Files
                           /\ table[NameOf[t]].file # LinkFile
      BY <3>1, RegistryAssumption DEF Linked, HasInfo, IInv, Typed, Info
    <3>4. HasFile(t) => HasFile(t)'
      BY <1>1, <1>2, <2>3 DEF HasFile, HasInfo
    <3>5. OneFile(t)' /\ OwnName(t)'
      BY <1>2, <1>5, <2>3, <3>1 DEF OneFile, OwnName, Namesakes
    <3>6. OwnFiles(t)'
      BY <1>4, <2>1, <2>3, <3>1 DEF Clear, OwnFiles
    <3>7. OneAtATime(t)'
      BY <1>1, <1>6, <2>1 DEF Clear, OneAtATime, At, Subject
    <3>8. AddSteps(t)' /\ DelSteps(t)'
      <4>1. \A k \in Handlers : Subject(k) = t => handler[k].step \notin {"rm", "forget"}
        BY <3>1 DEF Deleting, Occupied, Subject
      <4>2. \A k \in Handlers : handler[k].step \in {"add", "adjust"} => handler[k].file \in Files
        BY DEF IInv, Typed
      <4> QED
        BY <1>1, <1>2, <2>1, <2>3, <4>1, <4>2 DEF Clear, AddSteps, DelSteps, At, Subject
    <3>9. LinkSteps(t)'
      BY <1>1, <3>3 DEF LinkSteps, HasInfo
    <3>10. OwnInfo(t)'
      BY <1>1, <2>1, <3>2 DEF Clear, OwnInfo, At, Subject
    <3>11. Kept(t)' /\ Gone(t)'
      BY <1>1, <1>6, <2>1, <3>2, <3>4 DEF Clear, Kept, Gone
    <3> QED
      BY <3>5, <3>6, <3>7, <3>8, <3>9, <3>10, <3>11 DEF Clear
  <2> QED
    BY <2>2, <2>3
<1> QED
  BY <1>3, <1>7 DEF IInv

LEMMA GetMagnetPreserves ==
    ASSUME IInv, NEW s \in Torrents, GetMagnet(s)
    PROVE  IInv'
<1>1. /\ UNCHANGED <<disk, table, watcher, adds, handler>>
      /\ s \notin session /\ session' = session \cup {s}
      /\ deleted' = deleted \ {s} /\ mixed \subseteq mixed' /\ mixed' \subseteq Torrents
  BY DEF IInv, Typed, GetMagnet, Clash, Namesakes
<1>2. link'[s] = "wait" /\ \A u \in Torrents \ {s} : link'[u] = link[u]
  BY DEF IInv, Typed, GetMagnet
<1>3. Typed' /\ Named' /\ Unwatched'
  <2>1. link' \in [Torrents -> {"none", "wait", "adjust"}]
    BY DEF IInv, Typed, GetMagnet
  <2> QED
    BY <1>1, <1>2, <2>1
       DEF IInv, Typed, Named, Unwatched, At, Subject, NameOfSubject, NoWatcher
<1>4. \A g \in Files : UsersOf(g)' = UsersOf(g)
  BY <1>1 DEF UsersOf
<1>5. \A u \in Torrents : Around(u)' => Around(u) \/ u = s
  BY <1>1, <1>2 DEF Around, OnDisk, Adding, Deleting, Occupied
<1>6. ASSUME NEW t \in Torrents \ mixed'
      PROVE  Clear(t)'
  <2>1. t \notin mixed /\ Clear(t)
    BY <1>1 DEF IInv
  <2>2. CASE t # s
    <3>1. NameOf[s] = NameOf[t] => ~Around(t)
      BY <2>2 DEF GetMagnet, Clash, Namesakes
    <3>2. Untouched(t)
      BY <1>1, <1>2, <1>4, <1>5, <2>2, <3>1 DEF Untouched, HasInfo
    <3> QED
      BY <2>1, <3>2, UntouchedStaysClear DEF IInv
  <2>3. CASE t = s
    <3>1. /\ ~OnDisk(t) /\ ~Adding(t) /\ ~Deleting(t)
          /\ \A u \in Namesakes(t) : ~Around(u)
      BY <2>3 DEF GetMagnet, Clash
    <3>2. \A k \in Handlers : Subject(k) # t
      BY <3>1, RegistryAssumption
         DEF IInv, Typed, Steps, Adding, Deleting, Occupied, At, Subject
    <3>3. ~HasInfo(t)
      BY <1>1, <2>1, <2>3, <3>1, <3>2 DEF Clear, OwnInfo, AtStep
    <3>4. OneFile(t)' /\ OwnFiles(t)' /\ OwnName(t)'
      BY <1>1, <1>4, <1>5, <2>1, <2>3, <3>1 DEF Clear, OneFile, OwnFiles, OwnName, Namesakes
    <3>5. ~Deleting(t)' /\ ~Adding(t)'
      BY <1>1, <1>2, <2>3, <3>2 DEF Adding, Deleting, Occupied, Subject
    <3>6. OneAtATime(t)' /\ AddSteps(t)' /\ DelSteps(t)'
      BY <1>1, <3>2, <3>5 DEF OneAtATime, AddSteps, DelSteps, Subject
    <3>7. LinkSteps(t)' /\ OwnInfo(t)'
      BY <1>1, <2>1, <2>3, <3>1, <3>2, <3>3
         DEF Clear, LinkSteps, OwnInfo, OnDisk, HasInfo, At, Subject
    <3>8. Kept(t)' /\ Gone(t)'
      BY <1>1, <1>2, <2>3 DEF Kept, Gone
    <3> QED
      BY <3>4, <3>6, <3>7, <3>8 DEF Clear
  <2> QED
    BY <2>2, <2>3
<1> QED
  BY <1>3, <1>6 DEF IInv

LEMMA LinkReadyPreserves ==
    ASSUME IInv, NEW s \in Torrents, LinkReady(s)
    PROVE  IInv'
<1>1. /\ UNCHANGED <<disk, deleted, session, table, watcher, adds, handler>>
      /\ mixed \subseteq mixed' /\ mixed' \subseteq Torrents
  BY DEF IInv, Typed, LinkReady, diskVars
<1>2. /\ link[s] = "wait" /\ link'[s] = "adjust" /\ s \in session
      /\ \A u \in Torrents \ {s} : link'[u] = link[u]
  BY DEF IInv, Typed, Unwatched, LinkReady
<1>3. Typed' /\ Named' /\ Unwatched'
  <2>1. link' \in [Torrents -> {"none", "wait", "adjust"}]
    BY DEF IInv, Typed, LinkReady
  <2> QED
    BY <1>1, <1>2, <2>1
       DEF IInv, Typed, Named, Unwatched, At, Subject, NameOfSubject, NoWatcher
<1>4. \A g \in Files : UsersOf(g)' \subseteq UsersOf(g)
  BY <1>1 DEF UsersOf
<1>5. \A u \in Torrents : Around(u)' => Around(u)
  BY <1>1, <1>2 DEF Around, OnDisk, Adding, Deleting, Occupied
<1>6. ASSUME NEW t \in Torrents \ mixed'
      PROVE  Clear(t)'
  <2>1. t \notin mixed /\ Clear(t)
    BY <1>1 DEF IInv
  <2>2. CASE t # s
    <3>1. Untouched(t)
      BY <1>1, <1>2, <1>4, <1>5, <2>2 DEF Untouched, HasInfo
    <3> QED
      BY <2>1, <3>1, UntouchedStaysClear DEF IInv
  <2>3. CASE t = s
    <3>1. ~Deleting(t)
      BY <2>1, <2>3 DEF LinkReady
    <3>2. \A k \in Handlers : Subject(k) # t
      BY <1>2, <2>1, <2>3, <3>1 DEF Clear, LinkSteps, Deleting, Occupied, At, Subject
    <3>3. OneFile(t)' /\ OwnFiles(t)' /\ OwnName(t)'
      BY <1>1, <1>4, <1>5, <2>1, StaysOwn DEF Clear, OneFile
    <3>4. OneAtATime(t)' /\ AddSteps(t)' /\ DelSteps(t)'
      BY <1>1, <3>2 DEF OneAtATime, AddSteps, DelSteps, Deleting, Occupied, Subject
    <3>5. LinkSteps(t)' /\ OwnInfo(t)'
      BY <1>1, <1>2, <2>1, <2>3
         DEF Clear, LinkSteps, OwnInfo, OnDisk, HasInfo, AtStep, At, Subject
    <3>6. Kept(t)' /\ Gone(t)'
      BY <1>1, <1>2, <2>1, <2>3 DEF Clear, Kept, Gone
    <3> QED
      BY <3>3, <3>4, <3>5, <3>6 DEF Clear
  <2> QED
    BY <2>2, <2>3
<1> QED
  BY <1>3, <1>6 DEF IInv

LEMMA LinkAdjustsPreserves ==
    ASSUME IInv, NEW s \in Torrents, LinkAdjusts(s)
    PROVE  IInv'
<1> DEFINE info == [id |-> adds', file |-> LinkFile, torrent |-> s]
<1>1. /\ UNCHANGED <<disk, deleted, session, handler, mixed>>
      /\ link[s] = "adjust" /\ link'[s] = "none"
      /\ \A u \in Torrents \ {s} : link'[u] = link[u]
  BY DEF IInv, Typed, LinkAdjusts, diskVars
<1>2. CASE Adjust(s, LinkFile)
  <2>1. /\ info \in Info /\ info # NoInfo /\ adds' \in 0..MaxAdds
        /\ table' \in [Names -> Info \cup {NoInfo}]
        /\ watcher' \in [Torrents -> 0..NoWatcher]
    BY <1>2, AdjustEffect DEF IInv
  <2>2. table'[NameOf[s]] = info /\ \A n \in Names \ {NameOf[s]} : table'[n] = table[n]
    BY <1>2, AdjustEffect DEF IInv
  <2>3. /\ s \in session => watcher'[s] = adds'
        /\ \A u \in Torrents : u # s \/ u \notin session => watcher'[u] = watcher[u]
    BY <1>2, AdjustEffect DEF IInv
  <2>4. Typed' /\ Named' /\ Unwatched'
    <3>1. link' \in [Torrents -> {"none", "wait", "adjust"}]
      BY DEF IInv, Typed, LinkAdjusts
    <3>2. \A m \in Names : table'[m] # NoInfo => NameOf[table'[m].torrent] = m
      BY <2>2 DEF IInv, Named
    <3> QED
      BY <1>1, <2>1, <2>3, <3>1, <3>2
         DEF IInv, Typed, Named, Unwatched, At, Subject, NameOfSubject
  <2>5. \A g \in Files : UsersOf(g)' \subseteq UsersOf(g)
    BY <1>1, <2>2, RegistryAssumption DEF UsersOf
  <2>6. \A u \in Torrents : Around(u)' => Around(u)
    BY <1>1 DEF Around, OnDisk, Adding, Deleting, Occupied
  <2>7. Around(s)
    BY <1>1 DEF Around, Adding
  <2>8. ASSUME NEW t \in Torrents \ mixed'
        PROVE  Clear(t)'
    <3>1. Clear(t)
      BY <1>1 DEF IInv
    <3>2. CASE t # s
      <4>1. /\ HasInfo(t)' <=> HasInfo(t)
            /\ HasInfo(t) => table'[NameOf[t]] = table[NameOf[t]]
        BY <2>2, <2>7, <3>1, <3>2, OtherInfos
      <4>2. Untouched(t)
        BY <1>1, <2>3, <2>5, <2>6, <3>2, <4>1 DEF Untouched
      <4> QED
        BY <3>1, <4>2, UntouchedStaysClear DEF IInv
    <3>3. CASE t = s
      <4>1. t \in session /\ ~OnDisk(t) /\ ~Deleting(t)
        BY <1>1, <3>1, <3>3 DEF Clear, LinkSteps, OneAtATime, Adding
      <4>2. \A k \in Handlers : Subject(k) # t
        BY <1>1, <3>1, <3>3, <4>1 DEF Clear, LinkSteps, Deleting, Occupied, At, Subject
      <4>3. HasInfo(t)' /\ table'[NameOf[t]] = info
        BY <2>1, <2>2, <3>3 DEF HasInfo
      <4>4. OneFile(t)' /\ OwnFiles(t)' /\ OwnName(t)'
        BY <1>1, <2>5, <2>6, <3>1, StaysOwn DEF Clear, OneFile
      <4>5. OneAtATime(t)' /\ AddSteps(t)' /\ DelSteps(t)'
        BY <1>1, <4>2 DEF OneAtATime, AddSteps, DelSteps, Deleting, Occupied, Subject
      <4>6. LinkSteps(t)' /\ OwnInfo(t)'
        BY <1>1, <3>1, <3>3, <4>1 DEF Clear, LinkSteps, OwnInfo, OnDisk, At, Subject
      <4>7. Kept(t)' /\ Gone(t)'
        BY <1>1, <2>3, <3>1, <3>3, <4>1, <4>3 DEF Clear, Kept, Gone
      <4> QED
        BY <4>4, <4>5, <4>6, <4>7 DEF Clear
    <3> QED
      BY <3>2, <3>3
  <2> QED
    BY <1>1, <2>4, <2>8 DEF IInv
<1>3. CASE s \notin session /\ UNCHANGED <<table, watcher, adds>>
  <2>1. Typed' /\ Named' /\ Unwatched'
    <3>1. link' \in [Torrents -> {"none", "wait", "adjust"}]
      BY DEF IInv, Typed, LinkAdjusts
    <3> QED
      BY <1>1, <1>3, <3>1
         DEF IInv, Typed, Named, Unwatched, At, Subject, NameOfSubject, NoWatcher
  <2>2. ASSUME NEW t \in Torrents \ mixed'
        PROVE  Clear(t)'
    <3>1. Clear(t) /\ t # s
      BY <1>1, <1>3 DEF IInv, Clear, LinkSteps
    <3>2. \A g \in Files : UsersOf(g)' \subseteq UsersOf(g)
      BY <1>1, <1>3 DEF UsersOf
    <3>3. \A u \in Torrents : Around(u)' => Around(u)
      BY <1>1 DEF Around, OnDisk, Adding, Deleting, Occupied
    <3>4. Untouched(t)
      BY <1>1, <1>3, <3>1, <3>2, <3>3 DEF Untouched, HasInfo
    <3> QED
      BY <3>1, <3>4, UntouchedStaysClear DEF IInv
  <2> QED
    BY <2>1, <2>2 DEF IInv
<1> QED
  BY <1>2, <1>3 DEF LinkAdjusts

LEMMA LinkGivesUpPreserves ==
    ASSUME IInv, NEW s \in Torrents, LinkGivesUp(s)
    PROVE  IInv'
<1>1. /\ UNCHANGED <<disk, deleted, table, adds, handler, mixed>>
      /\ link[s] = "wait" /\ session' = session \ {s}
  BY DEF LinkGivesUp, diskVars
<1>2. /\ link'[s] = "none" /\ watcher'[s] = NoWatcher
      /\ \A u \in Torrents \ {s} : link'[u] = link[u] /\ watcher'[u] = watcher[u]
  BY DEF IInv, Typed, LinkGivesUp
<1>3. Typed' /\ Named' /\ Unwatched'
  <2>1. /\ link' \in [Torrents -> {"none", "wait", "adjust"}]
        /\ watcher' \in [Torrents -> 0..NoWatcher]
    BY RegistryAssumption DEF IInv, Typed, LinkGivesUp, NoWatcher
  <2> QED
    BY <1>1, <1>2, <2>1
       DEF IInv, Typed, Named, Unwatched, At, Subject, NameOfSubject
<1>4. \A g \in Files : UsersOf(g)' \subseteq UsersOf(g)
  BY <1>1 DEF UsersOf
<1>5. \A u \in Torrents : Around(u)' => Around(u)
  BY <1>1, <1>2 DEF Around, OnDisk, Adding, Deleting, Occupied
<1>6. ASSUME NEW t \in Torrents \ mixed'
      PROVE  Clear(t)'
  <2>1. Clear(t)
    BY <1>1 DEF IInv
  <2>2. CASE t # s
    <3>1. Untouched(t)
      BY <1>1, <1>2, <1>4, <1>5, <2>2 DEF Untouched, HasInfo
    <3> QED
      BY <2>1, <3>1, UntouchedStaysClear DEF IInv
  <2>3. CASE t = s
    <3>1. /\ t \in session /\ ~OnDisk(t) /\ ~HasInfo(t) /\ t \notin deleted
          /\ \A k \in Handlers : Subject(k) = t => At(k, "remove")
      BY <1>1, <2>1, <2>3 DEF Clear, LinkSteps, Gone
    <3>2. OneFile(t)' /\ OwnFiles(t)' /\ OwnName(t)'
      BY <1>1, <1>4, <1>5, <2>1, StaysOwn DEF Clear, OneFile
    <3>3. ~Adding(t)'
      BY <1>1, <1>2, <2>3, <3>1 DEF Adding, Occupied, At, Subject
    <3>4. OneAtATime(t)' /\ AddSteps(t)' /\ DelSteps(t)'
      BY <1>1, <3>1, <3>3 DEF OneAtATime, AddSteps, DelSteps, At, Subject
    <3>5. LinkSteps(t)' /\ OwnInfo(t)'
      BY <1>1, <1>2, <2>1, <2>3, <3>1 DEF Clear, LinkSteps, OwnInfo, HasInfo, At, Subject
    <3>6. Kept(t)' /\ Gone(t)'
      BY <1>1, <2>3, <3>1 DEF Kept, Gone
    <3> QED
      BY <3>2, <3>4, <3>5, <3>6 DEF Clear
  <2> QED
    BY <2>2, <2>3
<1> QED
  BY <1>3, <1>6 DEF IInv

\* What is loaded for a name is one of the files of torrents of that name.
LEMMA LoadedInfo ==
    ASSUME NEW d \in [Files -> Torrents \cup {NoTorrent}], NEW tb \in Loads(d), NEW n \in Names
    PROVE  /\ tb[n] # NoInfo => \E f \in Files :
                  /\ d[f] \in Torrents /\ NameOf[d[f]] = n
                  /\ tb[n] = [id |-> 0, file |-> f, torrent |-> d[f]]
           /\ tb[n] = NoInfo => \A f \in Files : d[f] = NoTorrent \/ NameOf[d[f]] # n
<1> DEFINE FilesOf == {f \in Files : d[f] # NoTorrent /\ NameOf[d[f]] = n}
           InfoOf(f) == [id |-> 0, file |-> f, torrent |-> d[f]]
<1>1. IF FilesOf = {} THEN tb[n] = NoInfo ELSE tb[n] \in {InfoOf(f) : f \in FilesOf}
  BY DEF Loads
<1>2. \A f \in Files : d[f] # NoTorrent => d[f] \in Torrents /\ InfoOf(f) \in Info
  BY RegistryAssumption DEF Info
<1>3. \A f \in FilesOf : InfoOf(f) # NoInfo
  BY <1>2, NoInfoAssumption
<1>4. CASE FilesOf = {}
  BY <1>1, <1>4
<1>5. CASE FilesOf # {}
  <2>1. PICK f \in FilesOf : tb[n] = InfoOf(f)
    BY <1>1, <1>5
  <2> QED
    BY <1>2, <1>3, <2>1
<1> QED
  BY <1>4, <1>5

LEMMA RestartPreserves ==
    ASSUME IInv, Restart
    PROVE  IInv'
<1>1. /\ UNCHANGED <<disk, deleted, mixed>> /\ adds' = 0
      /\ session' = Loaded(disk) /\ table' \in Loads(disk)
      /\ watcher' = [t \in Torrents |-> IF t \in session' THEN 0 ELSE NoWatcher]
      /\ handler' = [h \in Handlers |-> Idle]
      /\ link' = [t \in Torrents |-> "none"]
  BY DEF Restart, diskVars
<1>2. disk \in [Files -> Torrents \cup {NoTorrent}]
  BY DEF IInv, Typed
<1>3. \A n \in Names : table'[n] # NoInfo => \E f \in Files :
          /\ disk[f] \in Torrents /\ NameOf[disk[f]] = n
          /\ table'[n] = [id |-> 0, file |-> f, torrent |-> disk[f]]
  BY <1>1, <1>2, LoadedInfo
<1>4. \A n \in Names : table'[n] # NoInfo =>
          /\ table'[n].file \in Files /\ table'[n].torrent \in Torrents /\ table'[n].id = 0
          /\ disk[table'[n].file] = table'[n].torrent
          /\ NameOf[table'[n].torrent] = n
  <2> TAKE n \in Names
  <2> HAVE table'[n] # NoInfo
  <2>1. PICK f \in Files : /\ disk[f] \in Torrents /\ NameOf[disk[f]] = n
                           /\ table'[n] = [id |-> 0, file |-> f, torrent |-> disk[f]]
    BY <1>3
  <2> QED
    BY <2>1
<1>5. \A n \in Names : table'[n] = NoInfo =>
          \A f \in Files : disk[f] = NoTorrent \/ NameOf[disk[f]] # n
  BY <1>1, <1>2, LoadedInfo
<1>6. \A t \in Torrents : t \in session' <=> OnDisk(t)
  BY <1>1, RegistryAssumption DEF Loaded, OnDisk
<1>7. Typed'
  <2>1. session' \in SUBSET Torrents
    BY <1>1, <1>2 DEF Loaded
  <2>2. table' \in [Names -> Info \cup {NoInfo}]
    <3>1. \A f \in Files :
             disk[f] \in Torrents => [id |-> 0, file |-> f, torrent |-> disk[f]] \in Info
      BY RegistryAssumption DEF Info
    <3>2. \A n \in Names : table'[n] \in Info \cup {NoInfo}
      BY <1>3, <3>1
    <3>3. table' = [n \in Names |-> table'[n]]
      BY <1>1 DEF Loads
    <3> QED
      BY <3>2, <3>3
  <2>3. watcher' \in [Torrents -> 0..NoWatcher]
    BY <1>1, RegistryAssumption DEF NoWatcher
  <2>4. Idle \in [step : Steps, torrent : Torrents \cup {NoTorrent},
                  file : Files \cup {NoFile}, info : Info \cup {NoInfo}]
    BY DEF Idle, Steps
  <2> QED
    BY <1>1, <2>1, <2>2, <2>3, <2>4, RegistryAssumption
       DEF IInv, Typed, At, Subject, Idle
<1>8. Named' /\ Unwatched'
  BY <1>1, <1>4 DEF Named, Unwatched, At, Idle
<1>9. \A h \in Handlers : handler'[h].step = "idle" /\ handler'[h].torrent = NoTorrent
                         /\ handler'[h].file = NoFile
  BY <1>1 DEF Idle
<1>10. \A g \in Files : UsersOf(g)' \subseteq UsersOf(g)
  <2> SUFFICES ASSUME NEW g \in Files, NEW u \in Torrents, u \in UsersOf(g)'
               PROVE  disk[g] = u
    BY DEF UsersOf
  <2>1. CASE disk'[g] = u
    BY <1>1, <2>1
  <2>2. CASE \E n \in Names : table'[n] # NoInfo /\ table'[n].file = g /\ table'[n].torrent = u
    BY <1>4, <2>2
  <2>3. ~ \E h \in Handlers : handler'[h].file = g /\ handler'[h].torrent = u
    BY <1>9, RegistryAssumption
  <2> QED
    BY <2>1, <2>2, <2>3 DEF UsersOf
<1>11. \A u \in Torrents : ~Adding(u)' /\ ~Deleting(u)' /\ (OnDisk(u)' <=> OnDisk(u))
  BY <1>1, <1>9 DEF Adding, Deleting, Occupied, OnDisk
<1>12. \A u \in Torrents : Around(u)' => Around(u)
  BY <1>6, <1>11 DEF Around
<1>13. ASSUME NEW t \in Torrents \ mixed'
       PROVE  Clear(t)'
  <2>1. Clear(t)
    BY <1>1 DEF IInv
  <2>2. OneFile(t)' /\ OwnFiles(t)' /\ OwnName(t)'
    BY <1>1, <1>10, <1>12, <2>1, StaysOwn DEF Clear, OneFile
  <2>3. OneAtATime(t)' /\ AddSteps(t)' /\ DelSteps(t)'
    BY <1>9, <1>11 DEF OneAtATime, AddSteps, DelSteps, At, Subject
  <2>4. HasInfo(t)' => OnDisk(t)'
    BY <1>1, <1>4, RegistryAssumption DEF HasInfo, OnDisk
  <2>5. OwnInfo(t)'
    BY <1>9, <2>4 DEF OwnInfo, At, Subject
  <2>6. OnDisk(t) =>
            /\ HasInfo(t)' /\ table'[NameOf[t]].id = 0
            /\ table'[NameOf[t]].file \in Files
            /\ disk[table'[NameOf[t]].file] = t
    <3>1. SUFFICES ASSUME NEW f \in Files, disk[f] = t
                   PROVE  /\ HasInfo(t)' /\ table'[NameOf[t]].id = 0
                          /\ table'[NameOf[t]].file \in Files
                          /\ disk[table'[NameOf[t]].file] = t
      BY DEF OnDisk
    <3>2. NameOf[t] \in Names /\ table'[NameOf[t]] # NoInfo
      BY <1>5, <3>1, RegistryAssumption
    <3>3. PICK g \in Files : /\ disk[g] \in Torrents /\ NameOf[disk[g]] = NameOf[t]
                             /\ table'[NameOf[t]] = [id |-> 0, file |-> g, torrent |-> disk[g]]
      BY <1>3, <3>2
    <3>4. disk[g] = t
      BY <2>1, <3>1, <3>3 DEF Clear, OwnName, Namesakes, Around, OnDisk
    <3> QED
      BY <3>2, <3>3, <3>4 DEF HasInfo
  <2>7. Kept(t)'
    BY <1>1, <1>6, <2>6 DEF Kept, HasFile
  <2>8. Gone(t)'
    BY <1>1, <1>6, <1>11, <2>1, <2>4 DEF Clear, Gone
  <2>9. LinkSteps(t)'
    <3>1. NameOf[t] \in Names /\ link'[t] = "none"
      BY <1>1, RegistryAssumption
    <3>2. HasInfo(t)' => table'[NameOf[t]].file # LinkFile
      BY <1>4, <3>1, RegistryAssumption DEF HasInfo
    <3> QED
      BY <3>1, <3>2 DEF LinkSteps
  <2> QED
    BY <2>2, <2>3, <2>5, <2>7, <2>8, <2>9 DEF Clear
<1> QED
  BY <1>7, <1>8, <1>13 DEF IInv

-----------------------------------------------------------------------------
(* Threads that end *)

\* Nothing but the watching is over: no other thread takes the place of one that ends.
LEMMA ThreadsEndPreserves ==
    ASSUME IInv, NEW s \in Torrents, ThreadsEnd(s)
    PROVE  IInv'
<1>1. /\ watcher' = [watcher EXCEPT ![s] = NoWatcher]
      /\ UNCHANGED <<disk, deleted, session, table, link, adds, handler, mixed>>
  BY DEF ThreadsEnd, diskVars
<1>2. /\ watcher' \in [Torrents -> 0..NoWatcher]
      /\ \A u \in Torrents : watcher'[u] = watcher[u] \/ watcher'[u] = NoWatcher
  BY <1>1, RegistryAssumption DEF IInv, Typed, NoWatcher
<1>3. Typed' /\ Named' /\ Unwatched'
  BY <1>1, <1>2
     DEF IInv, Typed, Named, Unwatched, At, Subject, NameOfSubject, NoWatcher, Info
<1>4. ASSUME NEW t \in Torrents \ mixed
      PROVE  Clear(t)'
  <2>1. Clear(t)
    BY DEF IInv
  <2>2. Kept(t)'
    BY <1>1, <1>2, <2>1 DEF Clear, Kept, HasInfo, HasFile, AtStep, At, Subject, NoWatcher
  <2> QED
    BY <1>1, <2>1, <2>2
       DEF Clear, OneFile, OwnFiles, OwnName, OneAtATime, AddSteps, DelSteps, OwnInfo, Gone,
           UsersOf, Around, OnDisk, Adding, Deleting, Occupied, HasInfo, HasFile, LinkSteps,
           AtStep, At, Subject
<1> QED
  BY <1>1, <1>3, <1>4 DEF IInv

-----------------------------------------------------------------------------
(* Theorems *)

\* Whatever handlers add and delete, wherever the daemon stops, each torrent that nothing
\* got in the way of is as far in all four places as its own requests.
THEOREM InductiveInvariant == Spec => []IInv
<1>1. ASSUME Init
      PROVE  IInv
  <2>1. Idle \in [step : Steps, torrent : Torrents \cup {NoTorrent},
                  file : Files \cup {NoFile}, info : Info \cup {NoInfo}]
    BY DEF Idle, Steps
  <2>2. Typed /\ Named /\ Unwatched
    BY <1>1, <2>1, RegistryAssumption
       DEF Init, Typed, Named, Unwatched, NoWatcher, At, Subject, Idle
  <2>3. ASSUME NEW t \in Torrents
        PROVE  Clear(t)
    <3>1. ~OnDisk(t) /\ ~Adding(t) /\ ~Deleting(t) /\ ~HasInfo(t) /\ t \notin session
      BY <1>1, RegistryAssumption
         DEF Init, OnDisk, Adding, Deleting, Occupied, HasInfo, Idle
    <3>2. \A h \in Handlers : handler[h].step = "idle" /\ Subject(h) = NoTorrent
      BY <1>1 DEF Init, Subject, Idle
    <3>3. \A f \in Files : UsersOf(f) = {}
      BY <1>1, <3>2, RegistryAssumption DEF Init, UsersOf, Subject
    <3>4. OneFile(t) /\ OwnFiles(t) /\ OwnName(t) /\ OneAtATime(t)
      BY <3>1, <3>2, <3>3, RegistryAssumption
         DEF OneFile, OwnFiles, OwnName, OneAtATime, OnDisk, Around
    <3>5. AddSteps(t) /\ DelSteps(t) /\ OwnInfo(t) /\ Kept(t) /\ Gone(t)
      BY <1>1, <3>1, <3>2 DEF Init, AddSteps, DelSteps, OwnInfo, Kept, Gone, At
    <3>6. LinkSteps(t)
      BY <1>1, <3>1 DEF Init, LinkSteps
    <3> QED
      BY <3>4, <3>5, <3>6 DEF Clear
  <2> QED
    BY <2>2, <2>3 DEF IInv
<1>2. ASSUME IInv, [Next]_vars
      PROVE  IInv'
  <2>1. ASSUME NEW h \in Handlers, Handler(h)
        PROVE  IInv'
    BY <1>2, <2>1, AddFindsPreserves, AddAddsPreserves, AddAdjustsPreserves,
       DelFindsPreserves, DelRemovesPreserves, DelRmsPreserves, DelForgetsPreserves
       DEF Handler
  <2>2. CASE \E t \in Torrents, f \in Files : GetTorrent(t, f)
    BY <1>2, <2>2, GetTorrentPreserves
  <2>3. CASE Restart
    BY <1>2, <2>3, RestartPreserves
  <2>4. CASE UNCHANGED vars
    BY <1>2, <2>4
       DEF vars, diskVars, IInv, Typed, Named, Unwatched, At, Subject, NameOfSubject, Clear,
           OneFile, OwnFiles, OwnName, OneAtATime, AddSteps, DelSteps, OwnInfo, Kept, Gone,
           UsersOf, Around, OnDisk, Adding, Deleting, Occupied, HasInfo, HasFile, LinkSteps, AtStep,
           Info,
           NoWatcher
  <2>5. CASE \E t \in Magnets : GetMagnet(t) \/ LinkReady(t) \/ LinkAdjusts(t) \/ LinkGivesUp(t)
    BY <1>2, <2>5, RegistryAssumption, GetMagnetPreserves, LinkReadyPreserves,
       LinkAdjustsPreserves, LinkGivesUpPreserves
  <2>6. CASE \E t \in Torrents : ThreadsEnd(t)
    BY <1>2, <2>6, ThreadsEndPreserves
  <2> QED
    BY <1>2, <2>1, <2>2, <2>3, <2>4, <2>5, <2>6 DEF Next
<1> QED
  BY <1>1, <1>2, PTL DEF Spec

\* A torrent of the session has its info in the table, no other info's threads watch it, and its
\* file is there for the next start, unless another got in its way; its own threads may end.
THEOREM SessionManaged == Spec => []Managed
<1>1. IInv => Managed
  <2> SUFFICES ASSUME IInv, NEW t \in session, Settled(t)
               PROVE  LET info == table[NameOf[t]]
                      IN  info # NoInfo /\ info.torrent = t /\ watcher[t] \in {info.id, NoWatcher}
                            /\ (info.file = LinkFile \/ disk[info.file] = t)
    BY DEF Managed
  <2>1. t \in Torrents /\ Clear(t)
    BY DEF IInv, Typed, Settled
  <2>2. ~AtStep(t, "adjust") /\ link[t] = "none"
    BY DEF Settled, Adding, Occupied, AtStep, At, Subject
  <2> QED
    BY <2>1, <2>2 DEF Clear, Kept, HasFile, HasInfo
<1> QED
  BY <1>1, InductiveInvariant, PTL

\* A torrent that was deleted has no file that a restart would load, no info and no threads,
\* unless another got in its way.
THEOREM DeletedStaysDeleted == Spec => []DeletedIsGone
<1>1. IInv => DeletedIsGone
  <2> SUFFICES ASSUME IInv, NEW t \in deleted, Settled(t)
               PROVE  /\ t \notin session /\ ~OnDisk(t) /\ watcher[t] = NoWatcher
                      /\ table[NameOf[t]] # NoInfo => table[NameOf[t]].torrent # t
    BY DEF DeletedIsGone
  <2>1. t \in Torrents /\ Clear(t)
    BY DEF IInv, Typed, Settled
  <2>2. ~AtStep(t, "forget")
    BY DEF Settled, Deleting, Occupied, AtStep, At, Subject
  <2> QED
    BY <2>1, <2>2 DEF IInv, Unwatched, Clear, Gone, HasInfo
<1> QED
  BY <1>1, InductiveInvariant, PTL

=============================================================================
