------------------------ MODULE AgentSessionsProofs ------------------------
(***************************************************************************)
(* What AgentSessions guarantees for any jobs, roles, number of starts,    *)
(* losses and entries, whether the server resends or not and whether       *)
(* timestamps collide or not: every variable has its type, a session that  *)
(* knows its job's creation has the agent's roles, no entry is handled     *)
(* more than twice per start, and hydration resumes what is pending.       *)
(***************************************************************************)
EXTENDS AgentSessions, SelectionProofs, FiniteSetTheorems

-----------------------------------------------------------------------------
(* The inductive type invariant: TypeOK, with the parts in the form the    *)
(* proofs take them apart.                                                 *)

SessionType == [job : Jobs, roles : SUBSET AgentRole, entries : Seq(Nat)]
StreamType == [state : {"none", "opening", "open", "listening", "closed"}, next : Nat, last : Nat]
PcType == {"idle", "connect", "jobs", "history", "adopt", "fetch", "done", "failed"}
BootType == [pc : PcType, todo : SUBSET Jobs, hist : Seq(Nat), sess : Nat,
             did : SUBSET [sess : Nat, entry : Nat]]
EntryType == [job : Jobs, kind : Kinds, at : 0 .. MaxEntries]

FeedShape ==
  /\ feed \in Seq(EntryType) /\ Len(feed) <= MaxEntries
  /\ \A i \in 1 .. Len(feed) : feed[i].at <= i
  /\ drops \in 0 .. MaxDrops

StreamShape ==
  /\ streams \in [Starts -> StreamType]
  /\ \A k \in Starts : streams[k].next \in 1 .. Len(feed) + 1 /\ streams[k].last \in 0 .. Len(feed)
  /\ es \in 0 .. MaxStarts /\ onEntry \in BOOLEAN /\ started \in BOOLEAN

\* Entry numbers that are in the feed fd and of job j.
Belong(entries, j, fd) == \A n \in 1 .. Len(entries) : entries[n] \in 1 .. Len(fd) /\ fd[entries[n]].job = j

\* A session has entries of its own job, and at least the one it was made for.
SessionFits(s, fd) == s.roles # {} /\ s.entries # <<>> /\ Belong(s.entries, s.job, fd)

SessionShape ==
  /\ sessions \in Seq(SessionType)
  /\ \A s \in 1 .. Len(sessions) : SessionFits(sessions[s], feed)
  /\ sessionMap \in [Jobs -> 0 .. Len(sessions)]
  /\ \A j \in Jobs : sessionMap[j] # 0 => sessions[sessionMap[j]].job = j

TaskShape == tasks \subseteq [sess : 1 .. Len(sessions), entry : 1 .. Len(feed)]

CallShape == calls \in [1 .. MaxEntries -> Nat]

\* A history is of one room, and the session it is for is of that room.
BootFits(boot, fd, ss) ==
  /\ boot.hist # <<>> <=> boot.pc \in {"adopt", "fetch"}
  /\ boot.sess # 0 <=> boot.pc = "fetch"
  /\ boot.hist # <<>> => Belong(boot.hist, fd[boot.hist[1]].job, fd)
  /\ boot.sess # 0 => boot.sess \in 1 .. Len(ss) /\ ss[boot.sess].job = fd[boot.hist[1]].job
  /\ boot.did \subseteq [sess : 1 .. Len(ss), entry : 1 .. Len(fd)]

BootShape == boots \in [Starts -> BootType] /\ \A k \in Starts : BootFits(boots[k], feed, sessions)

Shape == FeedShape /\ StreamShape /\ SessionShape /\ TaskShape /\ CallShape /\ BootShape

-----------------------------------------------------------------------------
(* The inductive invariants.                                               *)

\* Entry i is the first of its job's room.
First(fd, i) == \A h \in 1 .. i - 1 : fd[h].job # fd[i].job

\* A room begins with its job's creation.
RoomsBegin(fd) == \A i \in 1 .. Len(fd) : First(fd, i) => fd[i].kind = "job.created"

\* Whoever has the creation as his first entry was given the agent's roles.
HeadRole(s, fd) == fd[s.entries[1]].kind = "job.created" => s.roles = TrueRoles(s.job)
HeadRoles(fd, ss) == \A s \in 1 .. Len(ss) : HeadRole(ss[s], fd)

\* A call of start() hydrates each room once: what it did it has not to do.
RoomOf(boot) == feed[boot.hist[1]].job
HydratesOnce(boot, fd) ==
  /\ boot.pc \in {"idle", "connect", "jobs"} => boot.did = {}
  /\ \A d \in boot.did : fd[d.entry].job \notin boot.todo
  /\ boot.hist # <<>> => /\ fd[boot.hist[1]].job \notin boot.todo
                         /\ \A d \in boot.did : fd[d.entry].job # fd[boot.hist[1]].job

\* Entry i is handed on once in the life of the entry handler, and once by
\* each start(): what it was handed on, and what it still can be.
Begun(bs) == {k \in Starts : bs[k].pc # "idle"}
Spent(bs, i) == {k \in Starts : \E d \in bs[k].did : d.entry = i}
Pending(ts, i) == {t \in ts : t.entry = i}
Key(e) == [at |-> e.at, kind |-> e.kind]
Unheard(on, seen, e) == IF on /\ Key(e) \notin seen THEN 1 ELSE 0
Counts(n, ts, i, u, bs) ==
  n + Cardinality(Pending(ts, i)) + u <= Cardinality(Begun(bs)) + Cardinality(Spent(bs, i))
Counted ==
  \A i \in 1 .. Len(feed) : Counts(calls[i], tasks, i, Unheard(onEntry, seenEntries, feed[i]), boots)

CallsInv ==
  /\ IsFiniteSet(tasks)
  /\ \A k \in Starts : HydratesOnce(boots[k], feed)
  /\ onEntry => Begun(boots) # {}
  /\ \A i \in 1 .. MaxEntries : i > Len(feed) => calls[i] = 0
  /\ Counted

-----------------------------------------------------------------------------
(* Facts about entries, rooms and sessions.                                *)

\* The feed and the sessions only grow.
FeedGrows(f, g) == Len(f) <= Len(g) /\ \A i \in 1 .. Len(f) : g[i] = f[i]
SessionsGrow(ss, tt) ==
  /\ Len(ss) <= Len(tt)
  /\ \A s \in 1 .. Len(ss) :
       /\ tt[s].job = ss[s].job /\ tt[s].roles = ss[s].roles
       /\ Len(ss[s].entries) <= Len(tt[s].entries)
       /\ \A n \in 1 .. Len(ss[s].entries) : tt[s].entries[n] = ss[s].entries[n]

LEMMA BelongGrows ==
  ASSUME NEW f \in Seq(EntryType), NEW g \in Seq(EntryType), FeedGrows(f, g),
         NEW entries \in Seq(Nat), NEW j, Belong(entries, j, f)
  PROVE  Belong(entries, j, g)
<1>1. Len(f) \in Nat /\ Len(g) \in Nat /\ 1 .. Len(f) \subseteq 1 .. Len(g)
  BY DEF FeedGrows
<1> SUFFICES ASSUME NEW n \in 1 .. Len(entries)
             PROVE  entries[n] \in 1 .. Len(g) /\ g[entries[n]].job = j
  BY DEF Belong
<1>2. entries[n] \in 1 .. Len(f) /\ f[entries[n]].job = j
  BY DEF Belong
<1> QED
  BY <1>1, <1>2 DEF FeedGrows

LEMMA BootGrows ==
  ASSUME NEW f \in Seq(EntryType), NEW g \in Seq(EntryType), FeedGrows(f, g),
         NEW ss \in Seq(SessionType), NEW tt \in Seq(SessionType), SessionsGrow(ss, tt),
         NEW boot \in BootType, BootFits(boot, f, ss)
  PROVE  BootFits(boot, g, tt)
<1>1. Len(f) \in Nat /\ Len(g) \in Nat /\ Len(ss) \in Nat /\ Len(tt) \in Nat
  OBVIOUS
<1>2. boot.hist \in Seq(Nat) /\ boot.sess \in Nat
  BY DEF BootType
<1>3. ASSUME boot.hist # <<>>
      PROVE  /\ Belong(boot.hist, f[boot.hist[1]].job, f)
             /\ g[boot.hist[1]].job = f[boot.hist[1]].job
             /\ Belong(boot.hist, f[boot.hist[1]].job, g)
  <2>1. Belong(boot.hist, f[boot.hist[1]].job, f)
    BY <1>3 DEF BootFits
  <2>2. 1 \in 1 .. Len(boot.hist)
    BY <1>2, <1>3
  <2>3. boot.hist[1] \in 1 .. Len(f)
    BY <2>1, <2>2 DEF Belong
  <2>4. g[boot.hist[1]] = f[boot.hist[1]]
    BY <2>3 DEF FeedGrows
  <2> QED
    BY <1>2, <2>1, <2>4, BelongGrows
<1>4. boot.sess # 0 => boot.sess \in 1 .. Len(tt) /\ tt[boot.sess].job = g[boot.hist[1]].job
  <2> SUFFICES ASSUME boot.sess # 0
               PROVE  boot.sess \in 1 .. Len(tt) /\ tt[boot.sess].job = g[boot.hist[1]].job
    OBVIOUS
  <2>1. boot.sess \in 1 .. Len(ss) /\ ss[boot.sess].job = f[boot.hist[1]].job /\ boot.hist # <<>>
    BY DEF BootFits
  <2>2. tt[boot.sess].job = ss[boot.sess].job /\ boot.sess \in 1 .. Len(tt)
    BY <1>1, <2>1 DEF SessionsGrow
  <2> QED
    BY <1>3, <2>1, <2>2
<1>5. boot.did \subseteq [sess : 1 .. Len(tt), entry : 1 .. Len(g)]
  <2>1. 1 .. Len(ss) \subseteq 1 .. Len(tt) /\ 1 .. Len(f) \subseteq 1 .. Len(g)
    BY <1>1 DEF SessionsGrow, FeedGrows
  <2>2. boot.did \subseteq [sess : 1 .. Len(ss), entry : 1 .. Len(f)]
    BY DEF BootFits
  <2> QED
    BY <2>1, <2>2
<1> QED
  BY <1>3, <1>4, <1>5 DEF BootFits

\* A room: its entries in the feed, in order.
LEMMA RoomIs ==
  ASSUME FeedShape, NEW j
  PROVE  /\ Room(j) \in Seq(Nat) /\ Ascends(Room(j))
         /\ Lists(Room(j), {i \in 1 .. Len(feed) : feed[i].job = j})
<1> DEFINE n == Len(feed)
           S == {i \in DOMAIN feed : feed[i].job = j}
<1>1. n \in Nat /\ DOMAIN feed = 1 .. n
  BY DEF FeedShape
<1>2. Room(j) = Select(Numbers(n), S)
  BY <1>1 DEF Room, Numbers
<1>3. S \cap 1 .. n = {i \in 1 .. Len(feed) : feed[i].job = j}
  BY <1>1
<1> HIDE DEF n, S
<1> QED
  BY <1>1, <1>2, <1>3, SelectNumbers

LEMMA RoomBelongs ==
  ASSUME FeedShape, NEW j
  PROVE  /\ Belong(Room(j), j, feed)
         /\ \A i \in 1 .. Len(feed) : feed[i].job = j => \E n \in 1 .. Len(Room(j)) : Room(j)[n] = i
         /\ Room(j) # <<>> <=> \E i \in 1 .. Len(feed) : feed[i].job = j
<1>1. Room(j) \in Seq(Nat) /\ Lists(Room(j), {i \in 1 .. Len(feed) : feed[i].job = j})
  BY RoomIs
<1>2. Room(j) # <<>> <=> \E n \in 1 .. Len(Room(j)) : TRUE
  <2>1. Room(j) = <<>> => Len(Room(j)) = 0
    OBVIOUS
  <2>2. Room(j) # <<>> => 1 \in 1 .. Len(Room(j))
    BY <1>1
  <2> QED
    BY <2>1, <2>2
<1> QED
  BY <1>1, <1>2 DEF Lists, Belong

\* inferRoles looks for the creation among the entries it is given.
LEMMA RolesInferred ==
  ASSUME NEW j \in Jobs, NEW entries \in Seq(Nat)
  PROVE  /\ InferRoles(j, entries) \in SUBSET AgentRole /\ InferRoles(j, entries) # {}
         /\ InferRoles(j, entries) =
              IF \E n \in 1 .. Len(entries) : Kind(entries[n]) = "job.created"
                THEN TrueRoles(j) ELSE {"provider"}
<1>1. (\E i \in Range(entries) : Kind(i) = "job.created")
        <=> \E n \in 1 .. Len(entries) : Kind(entries[n]) = "job.created"
  BY DEF Range
<1>2. Party[j] \subseteq AgentRole
  BY ConstantsAssumption
<1> QED
  BY <1>1, <1>2 DEF InferRoles, TrueRoles, AgentRole

-----------------------------------------------------------------------------
(* What a dispatch does to the sessions.                                   *)

OldEntries(j) == IF sessionMap[j] = 0 THEN <<>> ELSE sessions[sessionMap[j]].entries
OldRoles(j) == IF sessionMap[j] = 0 THEN {"provider"} ELSE sessions[sessionMap[j]].roles

\* Entry i is appended to its room's session, if need be a new object with
\* the roles the creation tells; the other sessions stay as they are.
LEMMA DispatchSteps ==
  ASSUME Shape, NEW i \in 1 .. Len(feed), Dispatch(i)
  PROVE  LET j == feed[i].job
             r == sessionMap'[j]
         IN /\ j \in Jobs /\ sessions' \in Seq(SessionType)
            /\ Len(sessions') \in {Len(sessions), Len(sessions) + 1}
            /\ sessionMap' = [sessionMap EXCEPT ![j] = r] /\ r \in 1 .. Len(sessions')
            /\ \/ r = sessionMap[j] /\ Len(sessions') = Len(sessions)
               \/ r = Len(sessions) + 1 /\ Len(sessions') = Len(sessions) + 1
            /\ sessions'[r].job = j /\ sessions'[r].entries = Append(OldEntries(j), i)
            /\ sessions'[r].roles = IF Kind(i) = "job.created" THEN TrueRoles(j) ELSE OldRoles(j)
            /\ \A s \in 1 .. Len(sessions) :
                 /\ sessions'[s].job = sessions[s].job /\ sessions'[s].roles = sessions[s].roles
                 /\ sessions'[s].entries = IF s = sessionMap[j] THEN Append(sessions[s].entries, i)
                                                               ELSE sessions[s].entries
            /\ tasks' = tasks \cup {[sess |-> r, entry |-> i]} /\ calls' = calls
<1> DEFINE j == feed[i].job
           m == sessionMap[j]
           roles == InferRoles(j, <<i>>)
           changed == Kind(i) = "job.created" /\ roles # OldRoles(j)
           appended == [job |-> j, roles |-> OldRoles(j), entries |-> Append(OldEntries(j), i)]
           replaced == [job |-> j, roles |-> roles, entries |-> Append(OldEntries(j), i)]
           N == Len(sessions)
<1>1. j \in Jobs /\ i \in Nat /\ N \in Nat
  <2>1. feed \in Seq(EntryType) /\ sessions \in Seq(SessionType)
    BY DEF Shape, FeedShape, SessionShape
  <2>2. feed[i] \in EntryType /\ i \in Nat /\ N \in Nat
    BY <2>1
  <2> QED
    BY <2>2 DEF EntryType
<1>2. /\ m \in 0 .. N /\ sessions \in Seq(SessionType)
      /\ m # 0 => sessions[m] \in SessionType /\ sessions[m].job = j
  BY <1>1 DEF Shape, SessionShape
<1>3. /\ roles \in SUBSET AgentRole
      /\ Kind(i) = "job.created" => roles = TrueRoles(j)
      /\ InferRoles(j, <<>>) = {"provider"}
  <2>1. <<i>> \in Seq(Nat) /\ <<>> \in Seq(Nat) /\ Len(<<i>>) = 1 /\ <<i>>[1] = i /\ Len(<<>>) = 0
    BY <1>1
  <2>2. roles \in SUBSET AgentRole
    BY <1>1, <2>1, RolesInferred
  <2>3. roles = IF \E n \in 1 .. Len(<<i>>) : Kind(<<i>>[n]) = "job.created"
                 THEN TrueRoles(j) ELSE {"provider"}
    BY <1>1, <2>1, RolesInferred
  <2>4. InferRoles(j, <<>>) = {"provider"}
    BY DEF InferRoles, Range
  <2> QED
    BY <2>1, <2>2, <2>3, <2>4
<1>4. OldEntries(j) \in Seq(Nat) /\ OldRoles(j) \in SUBSET AgentRole
  BY <1>2 DEF OldEntries, OldRoles, SessionType, AgentRole
<1>5. appended \in SessionType /\ replaced \in SessionType
  BY <1>1, <1>3, <1>4 DEF SessionType
<1> DEFINE known == IF m = 0 THEN NewSession(j, <<>>) ELSE sessions[m]
<1>6. /\ known.roles = OldRoles(j)
      /\ [known EXCEPT !.entries = Append(@, i)] = appended
      /\ [appended EXCEPT !.roles = roles] = replaced
  <2>1. known = [job |-> j, roles |-> OldRoles(j), entries |-> OldEntries(j)]
    BY <1>2, <1>3 DEF NewSession, OldRoles, OldEntries, SessionType
  <2> HIDE DEF known, roles, j, m
  <2>2. known.roles = OldRoles(j) /\ known.entries = OldEntries(j)
    BY <2>1
  <2>3. \A a, b, c, d : /\ [[job |-> a, roles |-> b, entries |-> c] EXCEPT !.entries = d]
                              = [job |-> a, roles |-> b, entries |-> d]
                        /\ [[job |-> a, roles |-> b, entries |-> c] EXCEPT !.roles = d]
                              = [job |-> a, roles |-> d, entries |-> c]
    OBVIOUS
  <2>4. [known EXCEPT !.entries = Append(known.entries, i)] = appended
    <3> DEFINE fields == [job |-> j, roles |-> OldRoles(j), entries |-> OldEntries(j)]
    <3>1. [fields EXCEPT !.entries = Append(OldEntries(j), i)] = appended
      BY <2>3
    <3>2. known = fields
      BY <2>1
    <3> HIDE DEF fields, appended
    <3> QED
      BY <2>2, <3>1, <3>2
  <2>5. [appended EXCEPT !.roles = roles] = replaced
    BY <2>3
  <2> QED
    BY <2>2, <2>4, <2>5
<1>7. /\ IF m # 0 /\ ~changed
           THEN sessions' = [sessions EXCEPT ![m] = appended] /\ sessionMap' = sessionMap
           ELSE /\ sessions' = Append(IF m = 0 THEN sessions ELSE [sessions EXCEPT ![m] = appended],
                                     IF changed THEN replaced ELSE appended)
                /\ sessionMap' = [sessionMap EXCEPT ![j] = Len(sessions')]
      /\ tasks' = tasks \cup {[sess |-> sessionMap'[j], entry |-> i]} /\ calls' = calls
  <2> DEFINE a == appended
             b == replaced
  <2>1. known.roles = OldRoles(j) /\ [known EXCEPT !.entries = Append(@, i)] = a /\ [a EXCEPT !.roles = roles] = b
    BY <1>6
  <2> HIDE DEF a, b
  <2>2. /\ IF m # 0 /\ ~changed
             THEN sessions' = [sessions EXCEPT ![m] = a] /\ sessionMap' = sessionMap
             ELSE /\ sessions' = Append(IF m = 0 THEN sessions ELSE [sessions EXCEPT ![m] = a],
                                       IF changed THEN b ELSE a)
                  /\ sessionMap' = [sessionMap EXCEPT ![j] = Len(sessions')]
        /\ tasks' = tasks \cup {[sess |-> sessionMap'[j], entry |-> i]} /\ calls' = calls
    BY <2>1 DEF Dispatch
  <2> QED
    BY <2>2 DEF a, b
<1> HIDE DEF j, roles, known
<1>8. sessionMap \in [Jobs -> 0 .. N]
  BY DEF Shape, SessionShape
<1>9. /\ appended.job = j /\ appended.roles = OldRoles(j) /\ appended.entries = Append(OldEntries(j), i)
      /\ replaced.job = j /\ replaced.roles = roles /\ replaced.entries = Append(OldEntries(j), i)
  OBVIOUS
<1>10. m # 0 => OldEntries(j) = sessions[m].entries /\ OldRoles(j) = sessions[m].roles
  BY DEF OldEntries, OldRoles
<1> HIDE DEF appended, replaced, N
<1>11. ASSUME m # 0
       PROVE  /\ [sessions EXCEPT ![m] = appended] \in Seq(SessionType)
              /\ Len([sessions EXCEPT ![m] = appended]) = N
              /\ \A s \in 1 .. N : [sessions EXCEPT ![m] = appended][s] = IF s = m THEN appended ELSE sessions[s]
  BY <1>2, <1>5, <1>11 DEF N
<1>12. CASE m # 0 /\ ~changed
  <2>1. sessions' = [sessions EXCEPT ![m] = appended] /\ sessionMap' = sessionMap
    BY <1>7, <1>12
  <2>2. sessions' \in Seq(SessionType) /\ Len(sessions') = N
        /\ \A s \in 1 .. N : sessions'[s] = IF s = m THEN appended ELSE sessions[s]
    BY <1>11, <1>12, <2>1
  <2>3. sessionMap' = [sessionMap EXCEPT ![j] = sessionMap'[j]] /\ sessionMap'[j] = m /\ m \in 1 .. N
    BY <1>1, <1>2, <1>8, <1>12, <2>1
  <2>4. OldRoles(j) = IF Kind(i) = "job.created" THEN TrueRoles(j) ELSE OldRoles(j)
    BY <1>3, <1>12
  <2>5. \A s \in 1 .. N :
           /\ sessions'[s].job = sessions[s].job /\ sessions'[s].roles = sessions[s].roles
           /\ sessions'[s].entries = IF s = m THEN Append(sessions[s].entries, i) ELSE sessions[s].entries
    BY <1>2, <1>9, <1>10, <1>12, <2>2
  <2>6. sessions'[m] = appended
    BY <2>2, <2>3
  <2> QED
    BY <1>1, <1>7, <1>9, <2>2, <2>3, <2>4, <2>5, <2>6 DEF j, N
<1>13. CASE m = 0 \/ changed
  <2> DEFINE base == IF m = 0 THEN sessions ELSE [sessions EXCEPT ![m] = appended]
             fresh == IF changed THEN replaced ELSE appended
  <2>1. sessions' = Append(base, fresh) /\ sessionMap' = [sessionMap EXCEPT ![j] = Len(sessions')]
    BY <1>7, <1>13
  <2>2. base \in Seq(SessionType) /\ Len(base) = N
        /\ \A s \in 1 .. N : base[s] = IF s = m THEN appended ELSE sessions[s]
    BY <1>1, <1>2, <1>11 DEF N
  <2>3. fresh \in SessionType /\ fresh.job = j /\ fresh.entries = Append(OldEntries(j), i)
        /\ fresh.roles = IF changed THEN roles ELSE OldRoles(j)
    BY <1>5, <1>9
  <2> HIDE DEF base, fresh
  <2>4. /\ sessions' \in Seq(SessionType) /\ Len(sessions') = N + 1
        /\ sessions'[N + 1] = fresh /\ \A s \in 1 .. N : sessions'[s] = base[s]
    BY <1>1, <2>1, <2>2, <2>3
  <2>5. sessionMap'[j] = N + 1 /\ N + 1 \in 1 .. Len(sessions')
        /\ sessionMap' = [sessionMap EXCEPT ![j] = sessionMap'[j]]
    BY <1>1, <1>8, <2>1, <2>4
  <2>6. fresh.roles = IF Kind(i) = "job.created" THEN TrueRoles(j) ELSE OldRoles(j)
    BY <1>3, <2>3
  <2>7. \A s \in 1 .. N :
           /\ sessions'[s].job = sessions[s].job /\ sessions'[s].roles = sessions[s].roles
           /\ sessions'[s].entries = IF s = m THEN Append(sessions[s].entries, i) ELSE sessions[s].entries
    <3>1. CASE m = 0
      BY <1>1, <2>2, <2>4, <3>1
    <3>2. CASE m # 0
      <4>1. appended.job = sessions[m].job /\ appended.roles = sessions[m].roles
            /\ appended.entries = Append(sessions[m].entries, i)
        BY <1>2, <1>9, <1>10, <3>2
      <4> QED
        BY <2>2, <2>4, <4>1
    <3> QED
      BY <3>1, <3>2
  <2> QED
    BY <1>1, <1>7, <2>3, <2>4, <2>5, <2>6, <2>7 DEF j, N
<1> QED
  BY <1>12, <1>13

-----------------------------------------------------------------------------
(* Every step keeps the shape.                                             *)

\* The backend only appends to its feed.
LEMMA PublishSteps ==
  ASSUME Shape, Publish
  PROVE  /\ FeedShape' /\ FeedGrows(feed, feed') /\ Len(feed') = Len(feed) + 1
         /\ feed'[Len(feed')].kind \in NextKinds(feed'[Len(feed')].job)
<1>1. feed \in Seq(EntryType) /\ Len(feed) \in Nat /\ Len(feed) + 1 <= MaxEntries /\ MaxEntries \in Nat
  BY ConstantsAssumption DEF Shape, FeedShape, Publish
<1>2. PICK j \in Jobs, k \in Kinds, tick \in {0, 1} :
         /\ k \in NextKinds(j)
         /\ feed' = Append(feed, [job |-> j, kind |-> k,
                                  at |-> tick + IF feed = <<>> THEN 0 ELSE Last(feed).at])
  BY DEF Publish
<1> DEFINE at == tick + IF feed = <<>> THEN 0 ELSE Last(feed).at
           e == [job |-> j, kind |-> k, at |-> at]
<1>3. at \in 0 .. Len(feed) + 1
  <2>1. CASE feed = <<>>
    BY <1>1, <2>1
  <2>2. CASE feed # <<>>
    <3>1. Len(feed) \in 1 .. Len(feed)
      BY <1>1, <2>2
    <3>2. feed[Len(feed)] \in EntryType
      BY <1>1, <3>1
    <3>3. feed[Len(feed)].at \in Nat /\ feed[Len(feed)].at <= Len(feed)
      BY <3>1, <3>2 DEF Shape, FeedShape, EntryType
    <3> QED
      BY <1>1, <2>2, <3>3 DEF Last
  <2> QED
    BY <2>1, <2>2
<1>4. e \in EntryType /\ e.at <= Len(feed) + 1 /\ e.job = j /\ e.kind = k
  BY <1>1, <1>3 DEF EntryType
<1>5. feed' = Append(feed, e)
  BY <1>2
<1> HIDE DEF e, at
<1>6. /\ feed' \in Seq(EntryType) /\ Len(feed') = Len(feed) + 1 /\ feed'[Len(feed) + 1] = e
      /\ \A i \in 1 .. Len(feed) : feed'[i] = feed[i]
  BY <1>1, <1>4, <1>5
<1>7. \A i \in 1 .. Len(feed') : feed'[i].at <= i
  <2>1. \A i \in 1 .. Len(feed') : i \in 1 .. Len(feed) \/ i = Len(feed) + 1
    BY <1>1, <1>6
  <2> QED
    BY <1>4, <1>6, <2>1 DEF Shape, FeedShape
<1>8. drops' = drops /\ drops \in 0 .. MaxDrops
  BY DEF Publish, Shape, FeedShape
<1>9. FeedShape' /\ FeedGrows(feed, feed')
  BY <1>1, <1>6, <1>7, <1>8 DEF FeedShape, FeedGrows
<1> QED
  BY <1>2, <1>4, <1>6, <1>9

LEMMA FeedStep ==
  ASSUME Shape, [Next]_vars
  PROVE  FeedShape' /\ FeedGrows(feed, feed')
<1>1. CASE Publish
  BY <1>1, PublishSteps
<1>2. CASE feed' = feed /\ drops' \in 0 .. MaxDrops
  <2>1. Len(feed) \in Nat
    BY DEF Shape, FeedShape
  <2> QED
    BY <1>2, <2>1 DEF Shape, FeedShape, FeedGrows
<1>3. MaxDrops \in Nat /\ drops \in 0 .. MaxDrops
  BY ConstantsAssumption DEF Shape, FeedShape
<1>4. ASSUME ~ Publish PROVE feed' = feed /\ drops' \in 0 .. MaxDrops
  <2>1. CASE Reconnect
    BY <1>3, <2>1 DEF Reconnect
  <2>2. CASE UNCHANGED backend
    BY <1>3, <2>2 DEF backend
  <2>3. ASSUME ~ Reconnect PROVE UNCHANGED backend
    BY <1>4, <2>3 DEF Next, Network, vars, Start, ConnectFails, HydrationFails, Stop, OpenStream,
       Deliver, DispatchSettles, Connected, ListJobs, ReadHistory, Adopt, HydrateRoom
  <2> QED
    BY <2>1, <2>2, <2>3
<1> QED
  BY <1>1, <1>2, <1>4

\* Sessions that fit the feed fit a longer one.
LEMMA SessionFitsGrows ==
  ASSUME NEW f \in Seq(EntryType), NEW g \in Seq(EntryType), FeedGrows(f, g),
         NEW s \in SessionType, SessionFits(s, f)
  PROVE  SessionFits(s, g)
<1>1. s.entries \in Seq(Nat)
  BY DEF SessionType
<1> QED
  BY <1>1, BelongGrows DEF SessionFits

LEMMA SessionsStay ==
  ASSUME Shape
  PROVE  SessionsGrow(sessions, sessions)
<1>1. sessions \in Seq(SessionType)
  BY DEF Shape, SessionShape
<1>2. Len(sessions) \in Nat /\ \A s \in 1 .. Len(sessions) : sessions[s] \in SessionType
  BY <1>1
<1>3. \A s \in 1 .. Len(sessions) : Len(sessions[s].entries) \in Nat
  BY <1>2 DEF SessionType
<1> QED
  BY <1>2, <1>3 DEF SessionsGrow

\* A dispatch keeps the sessions in shape.
LEMMA DispatchShape ==
  ASSUME Shape, NEW i \in 1 .. Len(feed), Dispatch(i), feed' = feed
  PROVE  SessionShape' /\ SessionsGrow(sessions, sessions')
<1> DEFINE j == feed[i].job
           r == sessionMap'[j]
           m == sessionMap[j]
           N == Len(sessions)
<1>1. /\ j \in Jobs /\ sessions' \in Seq(SessionType) /\ Len(sessions') \in {N, N + 1}
      /\ sessionMap' = [sessionMap EXCEPT ![j] = r] /\ r \in 1 .. Len(sessions')
      /\ (r = m /\ Len(sessions') = N) \/ (r = N + 1 /\ Len(sessions') = N + 1)
  <2>1. j \in Jobs /\ sessions' \in Seq(SessionType) /\ Len(sessions') \in {N, N + 1}
    BY DispatchSteps
  <2>2. sessionMap' = [sessionMap EXCEPT ![j] = r] /\ r \in 1 .. Len(sessions')
    BY DispatchSteps
  <2>3. (r = m /\ Len(sessions') = N) \/ (r = N + 1 /\ Len(sessions') = N + 1)
    BY DispatchSteps
  <2> QED
    BY <2>1, <2>2, <2>3
<1>2. /\ sessions'[r].job = j /\ sessions'[r].entries = Append(OldEntries(j), i)
      /\ sessions'[r].roles = IF Kind(i) = "job.created" THEN TrueRoles(j) ELSE OldRoles(j)
  BY DispatchSteps
<1>3. \A s \in 1 .. N :
        /\ sessions'[s].job = sessions[s].job /\ sessions'[s].roles = sessions[s].roles
        /\ sessions'[s].entries = IF s = m THEN Append(sessions[s].entries, i) ELSE sessions[s].entries
  BY DispatchSteps
<1>4. /\ N \in Nat /\ sessionMap \in [Jobs -> 0 .. N] /\ sessions \in Seq(SessionType)
      /\ m # 0 => sessions[m].job = j
      /\ \A s \in 1 .. N : sessions[s] \in SessionType /\ SessionFits(sessions[s], feed)
  BY <1>1 DEF Shape, SessionShape
<1> HIDE DEF N
<1>5. \A s \in 1 .. N : sessions[s].entries \in Seq(Nat) /\ Len(sessions[s].entries) \in Nat
  BY <1>4 DEF SessionType
<1>6. OldEntries(j) \in Seq(Nat) /\ Belong(OldEntries(j), j, feed)
  <2>1. CASE m = 0
    BY <2>1 DEF OldEntries, Belong
  <2>2. CASE m # 0
    BY <1>1, <1>4, <1>5, <2>2 DEF OldEntries, SessionFits
  <2> QED
    BY <2>1, <2>2
<1>7. ASSUME NEW old \in Seq(Nat), Belong(old, j, feed)
      PROVE  Append(old, i) # <<>> /\ Belong(Append(old, i), j, feed) /\ i \in Nat
  <2>1. Len(Append(old, i)) = Len(old) + 1 /\ Append(old, i)[Len(old) + 1] = i /\ Len(old) \in Nat
        /\ \A n \in 1 .. Len(old) : Append(old, i)[n] = old[n]
    BY <1>7
  <2>2. \A n \in 1 .. Len(old) + 1 : n \in 1 .. Len(old) \/ n = Len(old) + 1
    BY <2>1
  <2>3. Append(old, i) # <<>>
    BY <1>7
  <2> QED
    BY <1>7, <2>1, <2>2, <2>3 DEF Belong
<1> HIDE DEF j
<1>15. m # 0 => m \in 1 .. N
  BY <1>1, <1>4
<1>8. \A s \in 1 .. N : SessionFits(sessions'[s], feed)
  <2> SUFFICES ASSUME NEW s \in 1 .. N PROVE SessionFits(sessions'[s], feed)
    OBVIOUS
  <2>1. CASE s = m
    <3>1. sessions[s].job = j
      BY <1>4, <2>1
    <3>2. sessions[s].roles # {} /\ Belong(sessions[s].entries, j, feed)
      BY <1>4, <3>1 DEF SessionFits
    <3>3. sessions'[s].entries = Append(sessions[s].entries, i) /\ sessions'[s].job = j
          /\ sessions'[s].roles # {}
      BY <1>3, <2>1, <3>1, <3>2
    <3> QED
      BY <1>5, <1>7, <3>2, <3>3 DEF SessionFits
  <2>2. CASE s # m
    <3>1. sessions'[s].entries = sessions[s].entries /\ sessions'[s].job = sessions[s].job
          /\ sessions'[s].roles = sessions[s].roles
      BY <1>3, <2>2
    <3> QED
      BY <1>4, <3>1 DEF SessionFits
  <2> QED
    BY <2>1, <2>2
<1>9. sessions'[r].roles # {}
  <2>1. TrueRoles(j) # {}
    BY DEF TrueRoles
  <2>2. OldRoles(j) # {}
    BY <1>4, <1>15 DEF OldRoles, SessionFits
  <2> QED
    BY <1>2, <2>1, <2>2
<1>10. SessionFits(sessions'[r], feed)
  BY <1>2, <1>6, <1>7, <1>9 DEF SessionFits
<1>11. \A s \in 1 .. Len(sessions') : SessionFits(sessions'[s], feed')
  <2>1. \A s \in 1 .. Len(sessions') : s \in 1 .. N \/ s = r
    BY <1>1, <1>4
  <2> QED
    BY <1>8, <1>10, <2>1
<1>12. sessionMap' \in [Jobs -> 0 .. Len(sessions')]
  BY <1>1, <1>4
<1>13. \A h \in Jobs : sessionMap'[h] # 0 => sessions'[sessionMap'[h]].job = h
  <2>1. \A h \in Jobs : h # j => sessionMap'[h] = sessionMap[h] /\ sessionMap[h] \in 0 .. N
    BY <1>1, <1>4
  <2>2. \A h \in Jobs : h # j /\ sessionMap[h] # 0 => sessions[sessionMap[h]].job = h
    BY DEF Shape, SessionShape
  <2>3. \A h \in Jobs : h # j /\ sessionMap[h] # 0 => sessionMap[h] \in 1 .. N
    BY <1>4, <2>1
  <2> QED
    BY <1>2, <1>3, <2>1, <2>2, <2>3
<1>14. SessionsGrow(sessions, sessions')
  <2>1. \A s \in 1 .. N :
          /\ Len(sessions[s].entries) <= Len(sessions'[s].entries)
          /\ \A n \in 1 .. Len(sessions[s].entries) : sessions'[s].entries[n] = sessions[s].entries[n]
    <3> SUFFICES ASSUME NEW s \in 1 .. N
                 PROVE  /\ Len(sessions[s].entries) <= Len(sessions'[s].entries)
                        /\ \A n \in 1 .. Len(sessions[s].entries) :
                             sessions'[s].entries[n] = sessions[s].entries[n]
      OBVIOUS
    <3> DEFINE old == sessions[s].entries
    <3>1. old \in Seq(Nat) /\ (sessions'[s].entries = old \/ sessions'[s].entries = Append(old, i))
      BY <1>3, <1>5
    <3> HIDE DEF old
    <3>2. /\ Len(old) \in Nat /\ Len(Append(old, i)) = Len(old) + 1
          /\ \A n \in 1 .. Len(old) : Append(old, i)[n] = old[n]
      BY <3>1
    <3>3. Len(old) <= Len(sessions'[s].entries)
          /\ \A n \in 1 .. Len(old) : sessions'[s].entries[n] = old[n]
      <4>1. CASE sessions'[s].entries = old
        BY <3>2, <4>1
      <4>2. CASE sessions'[s].entries = Append(old, i)
        BY <3>2, <4>2
      <4> QED
        BY <3>1, <4>1, <4>2
    <3> QED
      BY <3>3 DEF old
  <2> QED
    BY <1>1, <1>3, <1>4, <2>1 DEF SessionsGrow, N
<1> QED
  BY <1>1, <1>11, <1>12, <1>13, <1>14 DEF SessionShape

\* getOrCreateSession at hydration: the new session has the history's entries.
LEMMA AdoptShape ==
  ASSUME Shape, Adopt
  PROVE  SessionShape' /\ SessionsGrow(sessions, sessions') /\ BootShape'
<1> DEFINE N == Len(sessions)
<1>1. PICK k \in Starts :
         /\ boots[k].pc = "adopt"
         /\ LET j == feed[Head(boots[k].hist)].job
                new == sessionMap[j] = 0
            IN /\ sessions' = IF new THEN Append(sessions, NewSession(j, boots[k].hist)) ELSE sessions
               /\ sessionMap' = IF new THEN [sessionMap EXCEPT ![j] = Len(sessions) + 1] ELSE sessionMap
               /\ boots' = [boots EXCEPT ![k].pc = "fetch", ![k].sess = sessionMap'[j]]
  BY DEF Adopt
<1> DEFINE boot == boots[k]
           hist == boot.hist
           j == feed[hist[1]].job
           fresh == NewSession(j, hist)
<1>2. feed' = feed
  BY DEF Adopt, backend
<1>3. boots \in [Starts -> BootType] /\ boot \in BootType /\ BootFits(boot, feed, sessions)
  BY DEF Shape, BootShape
<1>4. hist \in Seq(Nat) /\ hist # <<>> /\ Belong(hist, j, feed) /\ boot.sess = 0
  BY <1>1, <1>3 DEF BootType, BootFits
<1>5. hist[1] \in 1 .. Len(feed) /\ Head(hist) = hist[1]
  <2>1. 1 \in 1 .. Len(hist)
    BY <1>4
  <2> QED
    BY <1>4, <2>1 DEF Belong
<1>6. j \in Jobs
  <2>1. feed \in Seq(EntryType)
    BY DEF Shape, FeedShape
  <2>2. feed[hist[1]] \in EntryType
    BY <1>5, <2>1
  <2> QED
    BY <2>2 DEF EntryType
<1>7. fresh \in SessionType /\ fresh.job = j /\ SessionFits(fresh, feed)
  <2>1. InferRoles(j, hist) \in SUBSET AgentRole /\ InferRoles(j, hist) # {}
    BY <1>4, <1>6, RolesInferred
  <2> HIDE DEF j, hist
  <2> QED
    BY <1>4, <1>6, <2>1 DEF NewSession, SessionType, SessionFits
<1>8. /\ N \in Nat /\ sessions \in Seq(SessionType) /\ sessionMap \in [Jobs -> 0 .. N]
      /\ \A s \in 1 .. N : SessionFits(sessions[s], feed)
      /\ \A h \in Jobs : sessionMap[h] # 0 => sessions[sessionMap[h]].job = h
  BY DEF Shape, SessionShape
<1>9. /\ sessions' = IF sessionMap[j] = 0 THEN Append(sessions, fresh) ELSE sessions
      /\ sessionMap' = IF sessionMap[j] = 0 THEN [sessionMap EXCEPT ![j] = N + 1] ELSE sessionMap
      /\ boots' = [boots EXCEPT ![k] = [boot EXCEPT !.pc = "fetch", !.sess = sessionMap'[j]]]
  <2>1. Head(boots[k].hist) = hist[1]
    BY <1>5
  <2>2. /\ sessions' = IF sessionMap[j] = 0 THEN Append(sessions, fresh) ELSE sessions
        /\ sessionMap' = IF sessionMap[j] = 0 THEN [sessionMap EXCEPT ![j] = N + 1] ELSE sessionMap
        /\ boots' = [boots EXCEPT ![k].pc = "fetch", ![k].sess = sessionMap'[j]]
    BY <1>1, <2>1
  <2>3. \A x : [boots EXCEPT ![k].pc = "fetch", ![k].sess = x]
                = [boots EXCEPT ![k] = [boots[k] EXCEPT !.pc = "fetch", !.sess = x]]
    BY <1>3
  <2> QED
    BY <2>2, <2>3
<1> HIDE DEF fresh, j, N
<1>10. SessionsGrow(sessions, sessions) /\ \A s \in 1 .. N : Len(sessions[s].entries) \in Nat
  <2>1. \A s \in 1 .. N : sessions[s] \in SessionType
    BY <1>8 DEF N
  <2> QED
    BY <2>1, SessionsStay DEF SessionType
<1>11. /\ sessions' \in Seq(SessionType) /\ SessionsGrow(sessions, sessions')
       /\ \A s \in 1 .. Len(sessions') : SessionFits(sessions'[s], feed)
       /\ sessionMap' \in [Jobs -> 0 .. Len(sessions')]
       /\ \A h \in Jobs : sessionMap'[h] # 0 => sessions'[sessionMap'[h]].job = h
       /\ sessionMap'[j] \in 1 .. Len(sessions')
  <2>1. CASE sessionMap[j] # 0
    <3>1. sessions' = sessions /\ sessionMap' = sessionMap
      BY <1>9, <2>1
    <3>2. sessionMap[j] \in 1 .. N
      BY <1>6, <1>8, <2>1
    <3> QED
      BY <1>8, <1>10, <3>1, <3>2 DEF N
  <2>2. CASE sessionMap[j] = 0
    <3>1. sessions' = Append(sessions, fresh) /\ sessionMap' = [sessionMap EXCEPT ![j] = N + 1]
      BY <1>9, <2>2
    <3>2. /\ sessions' \in Seq(SessionType) /\ Len(sessions') = N + 1 /\ sessions'[N + 1] = fresh
          /\ \A s \in 1 .. N : sessions'[s] = sessions[s]
      BY <1>7, <1>8, <3>1 DEF N
    <3>3. SessionsGrow(sessions, sessions')
      BY <1>8, <1>10, <3>2 DEF SessionsGrow, N
    <3>4. \A s \in 1 .. Len(sessions') : SessionFits(sessions'[s], feed)
      <4>1. \A s \in 1 .. Len(sessions') : s \in 1 .. N \/ s = N + 1
        BY <1>8, <3>2
      <4> QED
        BY <1>7, <1>8, <3>2, <4>1
    <3>5. sessionMap' \in [Jobs -> 0 .. Len(sessions')] /\ sessionMap'[j] = N + 1
      BY <1>6, <1>8, <3>1, <3>2
    <3>6. \A h \in Jobs : sessionMap'[h] # 0 => sessions'[sessionMap'[h]].job = h
      <4>1. \A h \in Jobs : h # j => sessionMap'[h] = sessionMap[h] /\ sessionMap[h] \in 0 .. N
        BY <1>8, <3>1
      <4>2. \A h \in Jobs : h # j /\ sessionMap[h] # 0 => sessionMap[h] \in 1 .. N
        BY <1>8, <4>1
      <4> QED
        BY <1>7, <1>8, <3>2, <3>5, <4>1, <4>2
    <3> QED
      BY <1>8, <3>2, <3>3, <3>4, <3>5, <3>6
  <2> QED
    BY <2>1, <2>2
<1>12. BootShape'
  <2> DEFINE next == [boot EXCEPT !.pc = "fetch", !.sess = sessionMap'[j]]
  <2>1. FeedGrows(feed, feed)
    BY DEF Shape, FeedShape, FeedGrows
  <2>2. \A h \in Starts : boots[h] \in BootType /\ BootFits(boots[h], feed, sessions)
    BY DEF Shape, BootShape
  <2>3. \A h \in Starts : BootFits(boots[h], feed, sessions')
    <3>1. feed \in Seq(EntryType)
      BY DEF Shape, FeedShape
    <3> QED
      BY <1>8, <1>11, <2>1, <2>2, <3>1, BootGrows
  <2>4. /\ sessionMap'[j] \in Nat \ {0} /\ sessionMap'[j] \in 1 .. Len(sessions')
        /\ sessions'[sessionMap'[j]].job = j
    BY <1>6, <1>11
  <2> DEFINE n == sessionMap'[j]
  <2> HIDE DEF n
  <2>5. /\ next.pc = "fetch" /\ next.sess = n /\ next.hist = hist /\ next.did = boot.did
        /\ next \in BootType
    BY <1>3, <2>4 DEF BootType, PcType, n
  <2>6. boot.did \subseteq [sess : 1 .. Len(sessions'), entry : 1 .. Len(feed)]
    BY <2>3 DEF BootFits
  <2> HIDE DEF next
  <2>7. BootFits(next, feed, sessions')
    <3>1. next.hist # <<>> /\ next.sess # 0
      BY <1>4, <2>4, <2>5 DEF n
    <3>2. Belong(next.hist, feed[next.hist[1]].job, feed)
      BY <1>4, <2>5 DEF j
    <3>3. next.sess \in 1 .. Len(sessions') /\ sessions'[next.sess].job = feed[next.hist[1]].job
      BY <2>4, <2>5 DEF j, n
    <3> QED
      BY <2>5, <2>6, <3>1, <3>2, <3>3 DEF BootFits
  <2>8. boots' = [boots EXCEPT ![k] = next]
    BY <1>9 DEF next
  <2> QED
    BY <1>2, <1>3, <2>3, <2>5, <2>7, <2>8 DEF BootShape
<1> QED
  BY <1>2, <1>11, <1>12 DEF SessionShape

LEMMA SessionStep ==
  ASSUME Shape, [Next]_vars
  PROVE  SessionShape' /\ SessionsGrow(sessions, sessions')
<1>1. FeedGrows(feed, feed') /\ feed \in Seq(EntryType) /\ feed' \in Seq(EntryType)
  BY FeedStep DEF Shape, FeedShape
<1>2. SessionShape /\ SessionsGrow(sessions, sessions)
  BY SessionsStay DEF Shape
<1>3. CASE Deliver
  <2>1. PICK k \in Starts :
           /\ streams[k].next <= Len(feed)
           /\ UNCHANGED agent \/ Dispatch(streams[k].next)
           /\ UNCHANGED backend
    BY <1>3 DEF Deliver
  <2>2. feed' = feed
    BY <2>1 DEF backend
  <2>3. CASE UNCHANGED agent
    BY <1>2, <2>2, <2>3 DEF agent, SessionShape
  <2>4. CASE Dispatch(streams[k].next)
    <3>1. streams[k].next \in 1 .. Len(feed)
      BY <1>1, <2>1 DEF Shape, StreamShape
    <3> QED
      BY <2>2, <2>4, <3>1, DispatchShape
  <2> QED
    BY <2>1, <2>3, <2>4
<1>4. CASE Adopt
  BY <1>4, AdoptShape
<1>5. \A s \in 1 .. Len(sessions) : SessionFits(sessions[s], feed')
  <2>1. sessions \in Seq(SessionType) /\ \A s \in 1 .. Len(sessions) : SessionFits(sessions[s], feed)
    BY <1>2 DEF SessionShape
  <2>2. \A s \in 1 .. Len(sessions) : sessions[s] \in SessionType
    BY <2>1
  <2> QED
    BY <1>1, <2>1, <2>2, SessionFitsGrows
<1>6. CASE Stop
  <2>1. sessions' = sessions /\ sessionMap' = [j \in Jobs |-> 0]
    BY <1>6 DEF Stop
  <2>2. Len(sessions) \in Nat
    BY <1>2 DEF SessionShape
  <2> QED
    BY <1>2, <1>5, <2>1, <2>2 DEF SessionShape
<1>7. ASSUME UNCHANGED <<sessions, sessionMap>>
      PROVE  SessionShape' /\ SessionsGrow(sessions, sessions')
  BY <1>2, <1>5, <1>7 DEF SessionShape
<1>8. ASSUME ~ Deliver, ~ Adopt, ~ Stop
      PROVE  UNCHANGED <<sessions, sessionMap>>
  BY <1>8 DEF Next, Network, vars, agent, Publish, Reconnect, Start, ConnectFails, HydrationFails,
     OpenStream, DispatchSettles, Connected, ListJobs, ReadHistory, HydrateRoom
<1> QED
  BY <1>3, <1>4, <1>6, <1>7, <1>8

LEMMA StreamStep ==
  ASSUME Shape, [Next]_vars
  PROVE  StreamShape'
<1> DEFINE Fits(t, fd) == t \in StreamType /\ t.next \in 1 .. Len(fd) + 1 /\ t.last \in 0 .. Len(fd)
<1>1. /\ Len(feed) \in Nat /\ Len(feed') \in Nat /\ Len(feed) <= Len(feed')
      /\ streams \in [Starts -> StreamType] /\ \A k \in Starts : Fits(streams[k], feed)
      /\ es \in 0 .. MaxStarts /\ onEntry \in BOOLEAN /\ started \in BOOLEAN /\ MaxStarts \in Nat
  BY FeedStep, ConstantsAssumption DEF Shape, StreamShape, FeedShape, FeedGrows
<1>2. \A k \in Starts : Fits(streams[k], feed')
  BY <1>1
<1>3. ASSUME NEW k \in Starts, NEW t, Fits(t, feed'), streams' = [streams EXCEPT ![k] = t],
             es' \in 0 .. MaxStarts, onEntry' \in BOOLEAN, started' \in BOOLEAN
      PROVE  StreamShape'
  BY <1>1, <1>2, <1>3 DEF StreamShape
<1>4. /\ \A k \in Starts : \A x : [streams EXCEPT ![k].state = x]
                                = [streams EXCEPT ![k] = [streams[k] EXCEPT !.state = x]]
      /\ \A k \in Starts : \A x : [streams EXCEPT ![k].next = x]
                                = [streams EXCEPT ![k] = [streams[k] EXCEPT !.next = x]]
      /\ \A k \in Starts : \A x, y : [streams EXCEPT ![k].next = x, ![k].last = y]
                                = [streams EXCEPT ![k] = [streams[k] EXCEPT !.next = x, !.last = y]]
  BY <1>1
<1>5. \A k \in Starts : \A x \in {"none", "opening", "open", "listening", "closed"} :
        Fits([streams[k] EXCEPT !.state = x], feed')
  <2> SUFFICES ASSUME NEW t \in StreamType, Fits(t, feed'),
                      NEW x \in {"none", "opening", "open", "listening", "closed"}
               PROVE  Fits([t EXCEPT !.state = x], feed')
    BY <1>2
  <2> QED
    BY DEF StreamType
<1>6. CASE Reconnect
  <2>1. PICK k \in Starts :
           /\ \E n \in IF ~Replays THEN {Len(feed) + 1}
                       ELSE IF streams[k].last = 0 THEN {streams[k].next}
                            ELSE {streams[k].last, streams[k].last + 1} :
                streams' = [streams EXCEPT ![k].next = n]
           /\ UNCHANGED <<feed, es, onEntry, started>>
    BY <1>6 DEF Reconnect
  <2> PICK n \in IF ~Replays THEN {Len(feed) + 1}
                 ELSE IF streams[k].last = 0 THEN {streams[k].next}
                      ELSE {streams[k].last, streams[k].last + 1} :
              streams' = [streams EXCEPT ![k].next = n]
    BY <2>1
  <2>2. n \in 1 .. Len(feed) + 1
    BY <1>1
  <2>3. Fits([streams[k] EXCEPT !.next = n], feed')
    <3> SUFFICES ASSUME NEW t \in StreamType, Fits(t, feed') PROVE Fits([t EXCEPT !.next = n], feed')
      BY <1>2
    <3> QED
      BY <1>1, <2>1, <2>2 DEF StreamType
  <2> QED
    BY <1>1, <1>3, <1>4, <2>1, <2>3
<1>7. CASE OpenStream
  <2>1. PICK k \in Starts :
           /\ streams' = [streams EXCEPT ![k] =
                            [state |-> "open", next |-> Len(feed) + 1, last |-> 0]]
           /\ UNCHANGED <<feed, es, onEntry, started>>
    BY <1>7 DEF OpenStream, backend
  <2>2. Fits([state |-> "open", next |-> Len(feed) + 1, last |-> 0], feed')
    BY <1>1, <2>1 DEF StreamType
  <2> QED
    BY <1>1, <1>3, <2>1, <2>2
<1>8. CASE Deliver
  <2>1. PICK k \in Starts :
           /\ streams[k].next <= Len(feed)
           /\ streams' = [streams EXCEPT ![k].next = streams[k].next + 1, ![k].last = streams[k].next]
           /\ UNCHANGED <<feed, es, onEntry, started>>
    BY <1>8 DEF Deliver, backend
  <2>2. Fits([streams[k] EXCEPT !.next = streams[k].next + 1, !.last = streams[k].next], feed')
    <3> DEFINE n == streams[k].next
    <3>1. n + 1 \in 1 .. Len(feed) + 1 /\ n \in 0 .. Len(feed) /\ feed' = feed /\ n \in Nat
      BY <1>1, <2>1
    <3> HIDE DEF n
    <3>2. ASSUME NEW t \in StreamType PROVE Fits([t EXCEPT !.next = n + 1, !.last = n], feed')
      <4>1. [t EXCEPT !.next = n + 1, !.last = n] = [[t EXCEPT !.next = n + 1] EXCEPT !.last = n]
        BY DEF StreamType
      <4>2. [t EXCEPT !.next = n + 1] \in StreamType /\ [t EXCEPT !.next = n + 1].next = n + 1
        BY <3>1 DEF StreamType
      <4>3. \A u \in StreamType : /\ [u EXCEPT !.last = n] \in StreamType
                                   /\ [u EXCEPT !.last = n].last = n /\ [u EXCEPT !.last = n].next = u.next
        BY <3>1 DEF StreamType
      <4> QED
        BY <3>1, <4>1, <4>2, <4>3
    <3> QED
      BY <1>1, <3>2 DEF n
  <2>3. streams' = [streams EXCEPT ![k] =
                      [streams[k] EXCEPT !.next = streams[k].next + 1, !.last = streams[k].next]]
    BY <1>4, <2>1
  <2>4. es' \in 0 .. MaxStarts /\ onEntry' \in BOOLEAN /\ started' \in BOOLEAN
    BY <1>1, <2>1
  <2> HIDE DEF Fits
  <2> QED
    BY <1>3, <2>2, <2>3, <2>4
<1>9. CASE Start \/ ConnectFails \/ Connected
  <2>1. PICK k \in Starts, x \in {"none", "opening", "open", "listening", "closed"} :
          /\ streams' = [streams EXCEPT ![k].state = x]
          /\ es' \in 0 .. MaxStarts /\ onEntry' \in BOOLEAN /\ started' \in BOOLEAN
    <3>1. CASE Start
      BY <1>1, <3>1 DEF Start
    <3>2. CASE ConnectFails
      <4>1. \A k \in Starts : streams[k].state \in {"none", "opening", "open", "listening", "closed"}
        BY <1>1 DEF StreamType
      <4> QED
        BY <1>1, <3>2, <4>1 DEF ConnectFails
    <3>3. CASE Connected
      <4>1. \A k \in Starts : k \in 0 .. MaxStarts
        BY DEF Starts
      <4> QED
        BY <1>1, <3>3, <4>1 DEF Connected
    <3> QED
      BY <1>9, <3>1, <3>2, <3>3
  <2> QED
    BY <1>3, <1>4, <1>5, <2>1
<1>10. CASE Stop
  <2>1. /\ streams' = streams \/ (es # 0 /\ streams' = [streams EXCEPT ![es].state = "closed"])
        /\ es' = 0 \/ es' = es
        /\ onEntry' = FALSE \/ onEntry' = onEntry
        /\ started' = FALSE
    BY <1>10 DEF Stop, transport
  <2>2. es' \in 0 .. MaxStarts /\ onEntry' \in BOOLEAN /\ started' \in BOOLEAN
    <3>1. es' \in 0 .. MaxStarts
      BY <1>1, <2>1
    <3>2. onEntry' \in BOOLEAN /\ started' \in BOOLEAN
      BY <1>1, <2>1, Zenon
    <3> QED
      BY <3>1, <3>2
  <2>3. CASE streams' = streams
    BY <1>1, <1>2, <2>2, <2>3 DEF StreamShape
  <2>4. CASE es # 0 /\ streams' = [streams EXCEPT ![es].state = "closed"]
    <3>1. es \in Starts
      BY <1>1, <2>4 DEF Starts
    <3> QED
      BY <1>3, <1>4, <1>5, <2>2, <2>4, <3>1
  <2> QED
    BY <2>1, <2>3, <2>4
<1>11. ASSUME UNCHANGED <<streams, es, onEntry, started>>
       PROVE  StreamShape'
  BY <1>1, <1>2, <1>11 DEF StreamShape
<1>12. ASSUME ~ Reconnect, ~ OpenStream, ~ Deliver, ~ (Start \/ ConnectFails \/ Connected), ~ Stop
       PROVE  UNCHANGED <<streams, es, onEntry, started>>
  BY <1>12 DEF Next, Network, vars, transport, Publish, HydrationFails, DispatchSettles, ListJobs,
     ReadHistory, Adopt, HydrateRoom
<1> QED
  BY <1>6, <1>7, <1>8, <1>9, <1>10, <1>11, <1>12

\* A handler call is counted or not.
LEMMA FireCounts ==
  ASSUME CallShape, NEW s, NEW i, FireHandler(s, i) \/ UNCHANGED calls
  PROVE  calls' \in [1 .. MaxEntries -> Nat]
<1>1. calls \in [1 .. MaxEntries -> Nat]
  BY DEF CallShape
<1>2. calls' = calls \/ calls' = [calls EXCEPT ![i] = @ + 1]
  BY DEF FireHandler
<1>3. [calls EXCEPT ![i] = @ + 1] \in [1 .. MaxEntries -> Nat]
  <2>1. CASE i \in 1 .. MaxEntries
    BY <1>1, <2>1
  <2>2. CASE i \notin 1 .. MaxEntries
    BY <1>1, <2>2
  <2> QED
    BY <2>1, <2>2
<1> QED
  BY <1>1, <1>2, <1>3

LEMMA TaskStep ==
  ASSUME Shape, [Next]_vars
  PROVE  TaskShape' /\ CallShape'
<1>1. /\ Len(feed) \in Nat /\ Len(feed') \in Nat /\ Len(feed) <= Len(feed')
      /\ Len(sessions) \in Nat /\ Len(sessions') \in Nat /\ Len(sessions) <= Len(sessions')
  <2>1. Len(feed) \in Nat /\ Len(feed') \in Nat /\ Len(feed) <= Len(feed')
    BY FeedStep DEF Shape, FeedShape, FeedGrows
  <2> QED
    BY <2>1, SessionStep DEF Shape, SessionShape, SessionsGrow
<1>2. tasks \subseteq [sess : 1 .. Len(sessions'), entry : 1 .. Len(feed')]
  BY <1>1 DEF Shape, TaskShape
<1>3. CallShape
  BY DEF Shape
<1>4. CASE Deliver
  <2>1. PICK k \in Starts : /\ streams[k].next <= Len(feed)
                            /\ UNCHANGED agent \/ Dispatch(streams[k].next)
                            /\ UNCHANGED backend
    BY <1>4 DEF Deliver
  <2>2. streams[k].next \in 1 .. Len(feed)
    BY <1>1, <2>1 DEF Shape, StreamShape
  <2>3. CASE UNCHANGED agent
    BY <1>2, <1>3, <2>3 DEF agent, TaskShape, CallShape
  <2>4. CASE Dispatch(streams[k].next)
    <3> DEFINE i == streams[k].next
               r == sessionMap'[feed[i].job]
    <3>1. r \in 1 .. Len(sessions')
      BY <2>2, <2>4, DispatchSteps
    <3>2. tasks' = tasks \cup {[sess |-> r, entry |-> i]} /\ calls' = calls
      BY <2>2, <2>4, DispatchSteps
    <3>3. i \in 1 .. Len(feed')
      BY <1>1, <2>2
    <3> HIDE DEF r, i
    <3> QED
      BY <1>2, <1>3, <3>1, <3>2, <3>3 DEF TaskShape, CallShape
  <2> QED
    BY <2>1, <2>3, <2>4
<1>5. CASE DispatchSettles
  <2>1. PICK t \in tasks : tasks' = tasks \ {t} /\ (FireHandler(t.sess, t.entry) \/ UNCHANGED calls)
    BY <1>5 DEF DispatchSettles
  <2>2. calls' \in [1 .. MaxEntries -> Nat]
    BY <1>3, <2>1, FireCounts
  <2> QED
    BY <1>2, <2>1, <2>2 DEF TaskShape, CallShape
<1>6. CASE HydrateRoom
  <2>1. tasks' = tasks /\ \E k \in Starts : FireHandler(boots[k].sess, Last(boots[k].hist))
    BY <1>6 DEF HydrateRoom
  <2>2. calls' \in [1 .. MaxEntries -> Nat]
    BY <1>3, <2>1, FireCounts
  <2> QED
    BY <1>2, <2>1, <2>2 DEF TaskShape, CallShape
<1>7. ASSUME UNCHANGED <<tasks, calls>>
      PROVE  TaskShape' /\ CallShape'
  BY <1>2, <1>3, <1>7 DEF TaskShape, CallShape
<1>8. ASSUME ~ Deliver, ~ DispatchSettles, ~ HydrateRoom
      PROVE  UNCHANGED <<tasks, calls>>
  BY <1>8 DEF Next, Network, vars, agent, Publish, Reconnect, Start, ConnectFails, HydrationFails,
     Stop, OpenStream, Connected, ListJobs, ReadHistory, Adopt
<1> QED
  BY <1>4, <1>5, <1>6, <1>7, <1>8

\* A boot that is between two rooms, or done, holds no history.
LEMMA BootIdles ==
  ASSUME NEW f, NEW ss, NEW boot, boot.hist = <<>>, boot.sess = 0, boot.pc \in PcType \ {"adopt", "fetch"},
         boot.did \subseteq [sess : 1 .. Len(ss), entry : 1 .. Len(f)]
  PROVE  BootFits(boot, f, ss)
BY DEF BootFits

LEMMA NextRoomIs ==
  ASSUME NEW boot \in BootType
  PROVE  /\ NextRoom(boot) \in BootType
         /\ NextRoom(boot).pc = IF boot.todo = {} THEN "done" ELSE "history"
         /\ NextRoom(boot).todo = boot.todo /\ NextRoom(boot).hist = boot.hist
         /\ NextRoom(boot).sess = boot.sess /\ NextRoom(boot).did = boot.did
BY DEF NextRoom, BootType, PcType

\* A boot with one field changed.
LEMMA BootField ==
  ASSUME NEW boot \in BootType
  PROVE  /\ \A p \in PcType : LET b == [boot EXCEPT !.pc = p] IN
              b \in BootType /\ b.pc = p /\ b.todo = boot.todo /\ b.hist = boot.hist
              /\ b.sess = boot.sess /\ b.did = boot.did
         /\ \A t \in SUBSET Jobs : LET b == [boot EXCEPT !.todo = t] IN
              b \in BootType /\ b.pc = boot.pc /\ b.todo = t /\ b.hist = boot.hist
              /\ b.sess = boot.sess /\ b.did = boot.did
         /\ \A h \in Seq(Nat) : LET b == [boot EXCEPT !.hist = h] IN
              b \in BootType /\ b.pc = boot.pc /\ b.todo = boot.todo /\ b.hist = h
              /\ b.sess = boot.sess /\ b.did = boot.did
         /\ \A n \in Nat : LET b == [boot EXCEPT !.sess = n] IN
              b \in BootType /\ b.pc = boot.pc /\ b.todo = boot.todo /\ b.hist = boot.hist
              /\ b.sess = n /\ b.did = boot.did
         /\ \A d \in SUBSET [sess : Nat, entry : Nat] : LET b == [boot EXCEPT !.did = d] IN
              b \in BootType /\ b.pc = boot.pc /\ b.todo = boot.todo /\ b.hist = boot.hist
              /\ b.sess = boot.sess /\ b.did = d
BY DEF BootType

\* A boot with its rooms to do, with a room's history, done with it, failed.
WithHistory(boot, t, h) == [boot EXCEPT !.pc = "adopt", !.todo = t, !.hist = h]
WithRooms(boot, t) == [boot EXCEPT !.todo = t]
DoneWith(boot, d) == [boot EXCEPT !.did = d, !.hist = <<>>, !.sess = 0]
GivenUp(boot) == [boot EXCEPT !.pc = "failed", !.hist = <<>>, !.sess = 0]

LEMMA BootRooms ==
  ASSUME NEW boot \in BootType, NEW t \in SUBSET Jobs
  PROVE  LET b == WithRooms(boot, t) IN
           b \in BootType /\ b.pc = boot.pc /\ b.todo = t /\ b.hist = boot.hist
           /\ b.sess = boot.sess /\ b.did = boot.did
BY DEF WithRooms, BootType

LEMMA BootReads ==
  ASSUME NEW boot \in BootType, NEW t \in SUBSET Jobs, NEW h \in Seq(Nat)
  PROVE  LET b == WithHistory(boot, t, h) IN
           b \in BootType /\ b.pc = "adopt" /\ b.todo = t /\ b.hist = h
           /\ b.sess = boot.sess /\ b.did = boot.did
<1> DEFINE a == [boot EXCEPT !.pc = "adopt"]
           c == [a EXCEPT !.todo = t]
           b == [c EXCEPT !.hist = h]
<1>1. WithHistory(boot, t, h) = b
  BY DEF BootType, WithHistory
<1>2. "adopt" \in PcType /\ <<>> \in Seq(Nat) /\ 0 \in Nat
  BY DEF PcType
<1>3. a \in BootType /\ a.pc = "adopt" /\ a.todo = boot.todo /\ a.hist = boot.hist
      /\ a.sess = boot.sess /\ a.did = boot.did
  BY <1>2, BootField
<1> HIDE DEF a
<1>4. c \in BootType /\ c.pc = "adopt" /\ c.todo = t /\ c.hist = boot.hist
      /\ c.sess = boot.sess /\ c.did = boot.did
  BY <1>2, <1>3, BootField
<1> HIDE DEF c
<1>5. b \in BootType /\ b.pc = "adopt" /\ b.todo = t /\ b.hist = h
      /\ b.sess = boot.sess /\ b.did = boot.did
  BY <1>2, <1>4, BootField
<1> HIDE DEF b
<1> QED
  BY <1>1, <1>5

LEMMA BootDid ==
  ASSUME NEW boot \in BootType, NEW d \in SUBSET [sess : Nat, entry : Nat]
  PROVE  LET b == DoneWith(boot, d) IN
           b \in BootType /\ b.pc = boot.pc /\ b.todo = boot.todo /\ b.hist = <<>>
           /\ b.sess = 0 /\ b.did = d
<1> DEFINE a == [boot EXCEPT !.did = d]
           c == [a EXCEPT !.hist = <<>>]
           b == [c EXCEPT !.sess = 0]
<1>1. DoneWith(boot, d) = b
  BY DEF BootType, DoneWith
<1>2.  <<>> \in Seq(Nat) /\ 0 \in Nat
  BY DEF PcType
<1>3. a \in BootType /\ a.pc = boot.pc /\ a.todo = boot.todo /\ a.hist = boot.hist
      /\ a.sess = boot.sess /\ a.did = d
  BY <1>2, BootField
<1> HIDE DEF a
<1>4. c \in BootType /\ c.pc = boot.pc /\ c.todo = boot.todo /\ c.hist = <<>>
      /\ c.sess = boot.sess /\ c.did = d
  BY <1>2, <1>3, BootField
<1> HIDE DEF c
<1>5. b \in BootType /\ b.pc = boot.pc /\ b.todo = boot.todo /\ b.hist = <<>>
      /\ b.sess = 0 /\ b.did = d
  BY <1>2, <1>4, BootField
<1> HIDE DEF b
<1> QED
  BY <1>1, <1>5

LEMMA BootFails ==
  ASSUME NEW boot \in BootType
  PROVE  LET b == GivenUp(boot) IN
           b \in BootType /\ b.pc = "failed" /\ b.todo = boot.todo /\ b.hist = <<>>
           /\ b.sess = 0 /\ b.did = boot.did
<1> DEFINE a == [boot EXCEPT !.pc = "failed"]
           c == [a EXCEPT !.hist = <<>>]
           b == [c EXCEPT !.sess = 0]
<1>1. GivenUp(boot) = b
  BY DEF BootType, GivenUp
<1>2. "failed" \in PcType /\ <<>> \in Seq(Nat) /\ 0 \in Nat
  BY DEF PcType
<1>3. a \in BootType /\ a.pc = "failed" /\ a.todo = boot.todo /\ a.hist = boot.hist
      /\ a.sess = boot.sess /\ a.did = boot.did
  BY <1>2, BootField
<1> HIDE DEF a
<1>4. c \in BootType /\ c.pc = "failed" /\ c.todo = boot.todo /\ c.hist = <<>>
      /\ c.sess = boot.sess /\ c.did = boot.did
  BY <1>2, <1>3, BootField
<1> HIDE DEF c
<1>5. b \in BootType /\ b.pc = "failed" /\ b.todo = boot.todo /\ b.hist = <<>>
      /\ b.sess = 0 /\ b.did = boot.did
  BY <1>2, <1>4, BootField
<1> HIDE DEF b
<1> QED
  BY <1>1, <1>5

\* What the steps of a boot do, one record at a time.
LEMMA BootMoves ==
  ASSUME Shape, NEW k \in Starts, NEW b \in BootType, BootFits(b, feed', sessions'),
         boots' = [boots EXCEPT ![k] = b], [Next]_vars
  PROVE  BootShape'
<1>1. /\ FeedGrows(feed, feed') /\ feed \in Seq(EntryType) /\ feed' \in Seq(EntryType)
      /\ SessionsGrow(sessions, sessions') /\ sessions \in Seq(SessionType) /\ sessions' \in Seq(SessionType)
  BY FeedStep, SessionStep DEF Shape, FeedShape, SessionShape
<1>2. \A h \in Starts : boots[h] \in BootType /\ BootFits(boots[h], feed, sessions)
  BY DEF Shape, BootShape
<1>3. \A h \in Starts : BootFits(boots[h], feed', sessions')
  BY <1>1, <1>2, BootGrows
<1> QED
  BY <1>3 DEF Shape, BootShape

LEMMA BootsStay ==
  ASSUME Shape, [Next]_vars, boots' = boots
  PROVE  BootShape'
<1>1. /\ FeedGrows(feed, feed') /\ feed \in Seq(EntryType) /\ feed' \in Seq(EntryType)
      /\ SessionsGrow(sessions, sessions') /\ sessions \in Seq(SessionType) /\ sessions' \in Seq(SessionType)
  BY FeedStep, SessionStep DEF Shape, FeedShape, SessionShape
<1>2. \A h \in Starts : boots[h] \in BootType /\ BootFits(boots[h], feed, sessions)
  BY DEF Shape, BootShape
<1>3. \A h \in Starts : BootFits(boots[h], feed', sessions')
  BY <1>1, <1>2, BootGrows
<1> QED
  BY <1>3 DEF Shape, BootShape

\* What a step may do to a boot: start, be connected or not, list the rooms,
\* read a history, adopt it, finish with a room, fail.
Quiet(old, b) == b.hist = <<>> /\ b.sess = 0 /\ b.did = old.did
Onward(b) == b.pc = IF b.todo = {} THEN "done" ELSE "history"
Starting(old, b) == old.pc = "idle" /\ b.pc = "connect" /\ b.todo = old.todo /\ Quiet(old, b)
Settling(old, b) ==
  old.pc = "connect" /\ b.pc \in {"failed", "jobs", "done"} /\ b.todo = old.todo /\ Quiet(old, b)
Listing(old, b) == old.pc = "jobs" /\ b.todo = ActiveJobs /\ Onward(b) /\ Quiet(old, b)
Reading(old, b, j) ==
  /\ old.pc = "history" /\ j \in old.todo /\ b.todo = old.todo \ {j}
  /\ b.hist = Room(j) /\ b.sess = 0 /\ b.did = old.did
  /\ IF Room(j) = <<>> THEN Onward(b) ELSE b.pc = "adopt"
Adopting(old, b) ==
  /\ old.pc = "adopt" /\ b.pc = "fetch" /\ b.todo = old.todo /\ b.hist = old.hist /\ b.did = old.did
  /\ b.sess = sessionMap'[RoomOf(old)]
Finishing(old, b) ==
  /\ old.pc = "fetch" /\ b.todo = old.todo /\ Onward(b) /\ b.hist = <<>> /\ b.sess = 0
  /\ b.did = old.did \cup {[sess |-> old.sess, entry |-> Last(old.hist)]}
  /\ FireHandler(old.sess, Last(old.hist))
Failing(old, b) ==
  old.pc \in {"jobs", "history", "fetch"} /\ b.pc = "failed" /\ b.todo = old.todo /\ Quiet(old, b)

BootMove(old, b) ==
  \/ Start /\ Starting(old, b)
  \/ ConnectFails /\ b.pc = "failed" /\ Settling(old, b)
  \/ Connected /\ b.pc = (IF started THEN "jobs" ELSE "done") /\ Settling(old, b)
  \/ ListJobs /\ Listing(old, b)
  \/ ReadHistory /\ \E j \in old.todo : Reading(old, b, j)
  \/ Adopt /\ Adopting(old, b)
  \/ HydrateRoom /\ Finishing(old, b)
  \/ HydrationFails /\ Failing(old, b)

\* hydrateSessions is done with a room.
LEMMA FinishMoves ==
  ASSUME Shape, HydrateRoom
  PROVE  \E k \in Starts : \E b \in BootType :
           boots' = [boots EXCEPT ![k] = b] /\ feed' = feed /\ Finishing(boots[k], b)
<1>1. PICK k \in Starts :
         /\ boots[k].pc = "fetch"
         /\ boots' = [boots EXCEPT ![k] = NextRoom([boots[k] EXCEPT
                 !.did = boots[k].did \cup {[sess |-> boots[k].sess, entry |-> Last(boots[k].hist)]},
                 !.hist = <<>>, !.sess = 0])]
         /\ feed' = feed
         /\ FireHandler(boots[k].sess, Last(boots[k].hist))
  BY DEF HydrateRoom, backend
<1> DEFINE boot == boots[k]
           d == [sess |-> boot.sess, entry |-> Last(boot.hist)]
           a == DoneWith(boot, boot.did \cup {d})
           b == NextRoom(a)
<1>2. d \in [sess : Nat, entry : Nat]
  <2>1. BootFits(boot, feed, sessions) /\ boot \in BootType
    BY DEF Shape, BootShape
  <2>2. boot.hist \in Seq(Nat) /\ boot.hist # <<>> /\ boot.sess \in Nat
    BY <1>1, <2>1 DEF BootFits, BootType
  <2>3. Last(boot.hist) \in Nat
    BY <2>2 DEF Last
  <2> QED
    BY <2>2, <2>3
<1> HIDE DEF d
<1>3. a \in BootType /\ a.todo = boot.todo /\ a.hist = <<>> /\ a.sess = 0 /\ a.did = boot.did \cup {d}
  <2>1. boot.did \cup {d} \in SUBSET [sess : Nat, entry : Nat]
    BY <1>2 DEF Shape, BootShape, BootType
  <2> QED
    BY <2>1, BootDid DEF Shape, BootShape
<1>4. boots' = [boots EXCEPT ![k] = b]
  BY <1>1 DEF d, DoneWith
<1> HIDE DEF a
<1>5. b \in BootType /\ b.pc = (IF a.todo = {} THEN "done" ELSE "history") /\ b.todo = a.todo
      /\ b.hist = a.hist /\ b.sess = a.sess /\ b.did = a.did
  BY <1>3, NextRoomIs
<1> HIDE DEF b
<1>6. Finishing(boots[k], b)
  BY <1>1, <1>3, <1>5 DEF Finishing, Onward, d
<1> QED
  BY <1>1, <1>4, <1>5, <1>6

LEMMA BootChange ==
  ASSUME Shape, [Next]_vars
  PROVE  \/ UNCHANGED boots
         \/ \E k \in Starts : \E b \in BootType :
              boots' = [boots EXCEPT ![k] = b] /\ feed' = feed /\ BootMove(boots[k], b)
<1>1. /\ boots \in [Starts -> BootType]
      /\ \A k \in Starts : boots[k] \in BootType /\ BootFits(boots[k], feed, sessions)
  BY DEF Shape, BootShape
<1>2. /\ \A k \in Starts : \A x : [boots EXCEPT ![k].pc = x]
                                    = [boots EXCEPT ![k] = [boots[k] EXCEPT !.pc = x]]
      /\ \A k \in Starts : \A x, y, z : [boots EXCEPT ![k].pc = x, ![k].hist = y, ![k].sess = z]
           = [boots EXCEPT ![k] = [boots[k] EXCEPT !.pc = x, !.hist = y, !.sess = z]]
      /\ \A k \in Starts : \A x, y : [boots EXCEPT ![k].pc = x, ![k].sess = y]
           = [boots EXCEPT ![k] = [[boots[k] EXCEPT !.pc = x] EXCEPT !.sess = y]]
  <2>1. \A k \in Starts : \A x : [boots EXCEPT ![k].pc = x]
                                 = [boots EXCEPT ![k] = [boots[k] EXCEPT !.pc = x]]
    <3> SUFFICES ASSUME NEW f \in [Starts -> BootType], NEW k \in Starts, NEW x
                 PROVE  [f EXCEPT ![k].pc = x] = [f EXCEPT ![k] = [f[k] EXCEPT !.pc = x]]
      BY <1>1
    <3> QED
      BY DEF BootType
  <2>2. \A k \in Starts : \A x, y, z : [boots EXCEPT ![k].pc = x, ![k].hist = y, ![k].sess = z]
                                 = [boots EXCEPT ![k] = [boots[k] EXCEPT !.pc = x, !.hist = y, !.sess = z]]
    <3> SUFFICES ASSUME NEW f \in [Starts -> BootType], NEW k \in Starts, NEW x, NEW y, NEW z
                 PROVE  [f EXCEPT ![k].pc = x, ![k].hist = y, ![k].sess = z] = [f EXCEPT ![k] = [f[k] EXCEPT !.pc = x, !.hist = y, !.sess = z]]
      BY <1>1
    <3> QED
      BY DEF BootType
  <2>3. \A k \in Starts : \A x, y : [boots EXCEPT ![k].pc = x, ![k].sess = y]
                                 = [boots EXCEPT ![k] = [[boots[k] EXCEPT !.pc = x] EXCEPT !.sess = y]]
    <3> SUFFICES ASSUME NEW f \in [Starts -> BootType], NEW k \in Starts, NEW x, NEW y
                 PROVE  [f EXCEPT ![k].pc = x, ![k].sess = y] = [f EXCEPT ![k] = [[f[k] EXCEPT !.pc = x] EXCEPT !.sess = y]]
      BY <1>1
    <3> QED
      BY DEF BootType
  <2> QED
    BY <2>1, <2>2, <2>3
<1>3. \A k \in Starts : boots[k].pc \notin {"adopt", "fetch"} => boots[k].hist = <<>> /\ boots[k].sess = 0
  BY <1>1 DEF BootFits
<1>4. CASE Start \/ ConnectFails \/ Connected
  <2>1. PICK k \in Starts, x \in {"connect", "failed", "jobs", "done"} :
           /\ boots' = [boots EXCEPT ![k].pc = x] /\ feed' = feed
           /\ \/ Start /\ boots[k].pc = "idle" /\ x = "connect"
              \/ ConnectFails /\ boots[k].pc = "connect" /\ x = "failed"
              \/ Connected /\ boots[k].pc = "connect" /\ x = IF started THEN "jobs" ELSE "done"
    <3>1. CASE Start
      BY <3>1 DEF Start, backend
    <3>2. CASE ConnectFails
      BY <3>2 DEF ConnectFails, backend
    <3>3. CASE Connected
      <4>1. PICK k \in Starts : boots[k].pc = "connect"
              /\ boots' = [boots EXCEPT ![k].pc = IF started THEN "jobs" ELSE "done"] /\ feed' = feed
        BY <3>3 DEF Connected, backend
      <4> QED
        BY <3>3, <4>1
    <3> QED
      BY <1>4, <3>1, <3>2, <3>3
  <2> DEFINE b == [boots[k] EXCEPT !.pc = x]
  <2>2. x \in PcType
    BY <2>1 DEF PcType
  <2>3. b \in BootType /\ b.pc = x /\ b.todo = boots[k].todo /\ b.hist = boots[k].hist
        /\ b.sess = boots[k].sess /\ b.did = boots[k].did
    BY <1>1, <2>2, BootField
  <2>4. boots' = [boots EXCEPT ![k] = b]
    BY <1>2, <2>1
  <2>5. boots[k].hist = <<>> /\ boots[k].sess = 0
    BY <1>3, <2>1
  <2> HIDE DEF b
  <2>6. BootMove(boots[k], b)
    BY <2>1, <2>3, <2>5 DEF BootMove, Starting, Settling, Quiet
  <2> QED
    BY <2>1, <2>3, <2>4, <2>6
<1>5. CASE ListJobs
  <2>1. PICK k \in Starts :
           /\ boots[k].pc = "jobs"
           /\ boots' = [boots EXCEPT ![k] = NextRoom([boots[k] EXCEPT !.todo = ActiveJobs])]
           /\ feed' = feed
    BY <1>5 DEF ListJobs, backend
  <2> DEFINE a == WithRooms(boots[k], ActiveJobs)
             b == NextRoom(a)
  <2>2. ActiveJobs \in SUBSET Jobs
    BY DEF ActiveJobs
  <2>3. a \in BootType /\ a.todo = ActiveJobs /\ a.hist = boots[k].hist /\ a.sess = boots[k].sess
        /\ a.did = boots[k].did
    BY <1>1, <2>2, BootRooms
  <2> HIDE DEF a
  <2>4. b \in BootType /\ b.pc = (IF a.todo = {} THEN "done" ELSE "history") /\ b.todo = a.todo
        /\ b.hist = a.hist /\ b.sess = a.sess /\ b.did = a.did
    BY <2>3, NextRoomIs
  <2>5. boots' = [boots EXCEPT ![k] = b]
    BY <2>1 DEF a, WithRooms
  <2>6. boots[k].hist = <<>> /\ boots[k].sess = 0
    BY <1>3, <2>1
  <2> HIDE DEF b
  <2>7. BootMove(boots[k], b)
    BY <1>5, <2>1, <2>3, <2>4, <2>6 DEF BootMove, Listing, Onward, Quiet
  <2> QED
    BY <2>1, <2>4, <2>5, <2>7
<1>6. CASE ReadHistory
  <2>1. PICK k \in Starts :
           /\ boots[k].pc = "history"
           /\ \E j \in boots[k].todo :
                boots' = [boots EXCEPT ![k] =
                  IF Room(j) = <<>> THEN NextRoom([boots[k] EXCEPT !.todo = boots[k].todo \ {j}])
                  ELSE [boots[k] EXCEPT !.pc = "adopt", !.todo = boots[k].todo \ {j}, !.hist = Room(j)]]
           /\ feed' = feed
    BY <1>6 DEF ReadHistory, backend
  <2>2. PICK j \in boots[k].todo :
           boots' = [boots EXCEPT ![k] =
             IF Room(j) = <<>> THEN NextRoom([boots[k] EXCEPT !.todo = boots[k].todo \ {j}])
             ELSE [boots[k] EXCEPT !.pc = "adopt", !.todo = boots[k].todo \ {j}, !.hist = Room(j)]]
    BY <2>1
  <2>3. boots[k].todo \ {j} \in SUBSET Jobs /\ Room(j) \in Seq(Nat)
    <3>1. FeedShape
      BY DEF Shape
    <3> QED
      BY <1>1, <3>1, RoomIs DEF BootType
  <2>4. boots[k].hist = <<>> /\ boots[k].sess = 0
    BY <1>3, <2>1
  <2>5. CASE Room(j) = <<>>
    <3> DEFINE a == WithRooms(boots[k], boots[k].todo \ {j})
               b == NextRoom(a)
    <3>1. a \in BootType /\ a.todo = boots[k].todo \ {j} /\ a.hist = boots[k].hist
          /\ a.sess = boots[k].sess /\ a.did = boots[k].did
      BY <1>1, <2>3, BootRooms
    <3> HIDE DEF a
    <3>2. b \in BootType /\ b.pc = (IF a.todo = {} THEN "done" ELSE "history") /\ b.todo = a.todo
          /\ b.hist = a.hist /\ b.sess = a.sess /\ b.did = a.did
      BY <3>1, NextRoomIs
    <3>3. boots' = [boots EXCEPT ![k] = b]
      BY <2>2, <2>5 DEF a, WithRooms
    <3> HIDE DEF b
    <3>4. BootMove(boots[k], b)
      BY <1>6, <2>1, <2>4, <2>5, <3>1, <3>2 DEF BootMove, Reading, Onward
    <3> QED
      BY <2>1, <3>2, <3>3, <3>4
  <2>6. CASE Room(j) # <<>>
    <3> DEFINE b == WithHistory(boots[k], boots[k].todo \ {j}, Room(j))
    <3>1. b \in BootType /\ b.pc = "adopt" /\ b.todo = boots[k].todo \ {j} /\ b.hist = Room(j)
          /\ b.sess = boots[k].sess /\ b.did = boots[k].did
      BY <1>1, <2>3, BootReads
    <3>2. boots' = [boots EXCEPT ![k] = b]
      BY <2>2, <2>6 DEF WithHistory
    <3> HIDE DEF b
    <3>3. BootMove(boots[k], b)
      BY <1>6, <2>1, <2>4, <2>6, <3>1 DEF BootMove, Reading
    <3> QED
      BY <2>1, <3>1, <3>2, <3>3
  <2> QED
    BY <2>5, <2>6
<1>7. CASE Adopt
  <2>1. PICK k \in Starts :
           /\ boots[k].pc = "adopt" /\ feed' = feed
           /\ boots' = [boots EXCEPT ![k].pc = "fetch", ![k].sess = sessionMap'[feed[Head(boots[k].hist)].job]]
    BY <1>7 DEF Adopt, backend
  <2> DEFINE n == sessionMap'[RoomOf(boots[k])]
             a == [boots[k] EXCEPT !.pc = "fetch"]
             b == [a EXCEPT !.sess = n]
  <2>2. Head(boots[k].hist) = boots[k].hist[1] /\ RoomOf(boots[k]) \in Jobs
    <3>1. boots[k].hist \in Seq(Nat) /\ boots[k].hist # <<>>
          /\ Belong(boots[k].hist, feed[boots[k].hist[1]].job, feed)
      BY <1>1, <2>1 DEF BootType, BootFits
    <3>2. 1 \in 1 .. Len(boots[k].hist)
      BY <3>1
    <3>3. feed[boots[k].hist[1]] \in EntryType
      BY <3>1, <3>2 DEF Belong, Shape, FeedShape
    <3> QED
      BY <3>1, <3>3 DEF RoomOf, EntryType
  <2>8. boots' = [boots EXCEPT ![k].pc = "fetch", ![k].sess = n]
    BY <2>1, <2>2 DEF RoomOf
  <2>3. n \in Nat
    <3>1. SessionShape'
      BY SessionStep
    <3> QED
      BY <2>2, <3>1 DEF SessionShape
  <2> HIDE DEF n
  <2>4. a \in BootType /\ a.pc = "fetch" /\ a.todo = boots[k].todo /\ a.hist = boots[k].hist
        /\ a.did = boots[k].did
    <3>1. "fetch" \in PcType
      BY DEF PcType
    <3> QED
      BY <1>1, <3>1, BootField
  <2>5. boots' = [boots EXCEPT ![k] = b]
    BY <1>2, <2>8
  <2> HIDE DEF a
  <2>6. b \in BootType /\ b.pc = a.pc /\ b.todo = a.todo /\ b.hist = a.hist /\ b.sess = n /\ b.did = a.did
    BY <2>3, <2>4, BootField
  <2> HIDE DEF b
  <2>7. BootMove(boots[k], b)
    BY <1>7, <2>1, <2>4, <2>6 DEF BootMove, Adopting, n
  <2> QED
    BY <2>1, <2>5, <2>6, <2>7
<1>8. CASE HydrateRoom
  BY <1>8, FinishMoves DEF BootMove
<1>9. CASE HydrationFails
  <2>1. PICK k \in Starts :
           /\ boots[k].pc \in {"jobs", "history", "fetch"}
           /\ boots' = [boots EXCEPT ![k].pc = "failed", ![k].hist = <<>>, ![k].sess = 0]
           /\ feed' = feed
    BY <1>9 DEF HydrationFails, backend
  <2> DEFINE b == GivenUp(boots[k])
  <2>2. b \in BootType /\ b.pc = "failed" /\ b.todo = boots[k].todo /\ b.hist = <<>> /\ b.sess = 0
        /\ b.did = boots[k].did
    BY <1>1, BootFails
  <2>3. boots' = [boots EXCEPT ![k] = b]
    BY <1>2, <2>1 DEF GivenUp
  <2> HIDE DEF b
  <2>4. BootMove(boots[k], b)
    BY <1>9, <2>1, <2>2 DEF BootMove, Failing, Quiet
  <2> QED
    BY <2>1, <2>2, <2>3, <2>4
<1>10. ASSUME ~ (Start \/ ConnectFails \/ Connected), ~ ListJobs, ~ ReadHistory, ~ HydrateRoom,
              ~ HydrationFails, ~ Adopt
       PROVE  UNCHANGED boots
  BY <1>10 DEF Next, Network, vars, Publish, Reconnect, Stop, OpenStream, Deliver, DispatchSettles
<1> QED
  BY <1>4, <1>5, <1>6, <1>7, <1>8, <1>9, <1>10

LEMMA BootStep ==
  ASSUME Shape, [Next]_vars
  PROVE  BootShape'
<1>1. CASE UNCHANGED boots
  BY <1>1, BootsStay
<1>2. ASSUME NEW k \in Starts, NEW b \in BootType,
             boots' = [boots EXCEPT ![k] = b], feed' = feed, BootMove(boots[k], b)
      PROVE  BootShape'
  <2> DEFINE old == boots[k]
  <2>1. /\ old \in BootType /\ BootFits(old, feed, sessions)
        /\ old.did \subseteq [sess : 1 .. Len(sessions), entry : 1 .. Len(feed)]
    BY DEF Shape, BootShape, BootFits
  <2>2. Len(sessions) \in Nat /\ Len(sessions') \in Nat /\ Len(sessions) <= Len(sessions')
    BY SessionStep DEF Shape, SessionShape, SessionsGrow
  <2>3. old.did \subseteq [sess : 1 .. Len(sessions'), entry : 1 .. Len(feed)]
    BY <2>1, <2>2
  <2>4. ASSUME b.hist = <<>>, b.sess = 0, b.pc \notin {"adopt", "fetch"},
               b.did \subseteq [sess : 1 .. Len(sessions'), entry : 1 .. Len(feed)]
        PROVE  BootShape'
    <3>1. b.pc \in PcType \ {"adopt", "fetch"}
      BY <2>4 DEF BootType
    <3>2. BootFits(b, feed', sessions')
      BY <1>2, <2>4, <3>1, BootIdles
    <3> QED
      BY <1>2, <3>2, BootMoves
  <2> HIDE DEF old
  <2>5. CASE Starting(old, b) \/ Settling(old, b) \/ Listing(old, b) \/ Failing(old, b)
    <3>1. b.hist = <<>> /\ b.sess = 0 /\ b.did = old.did /\ b.pc \notin {"adopt", "fetch"}
      BY <2>5 DEF Starting, Settling, Listing, Failing, Quiet, Onward
    <3> QED
      BY <2>3, <2>4, <3>1
  <2>6. ASSUME NEW j \in old.todo, Reading(old, b, j)
        PROVE  BootShape'
    <3>1. Room(j) \in Seq(Nat) /\ Belong(Room(j), j, feed)
      <4>1. FeedShape
        BY DEF Shape
      <4>2. Room(j) \in Seq(Nat)
        BY <4>1, RoomIs
      <4>3. Belong(Room(j), j, feed)
        BY <4>1, RoomBelongs
      <4> QED
        BY <4>2, <4>3
    <3>2. b.hist = Room(j) /\ b.sess = 0 /\ b.did = old.did
      BY <2>6 DEF Reading
    <3>3. CASE Room(j) = <<>>
      <4>1. b.pc \notin {"adopt", "fetch"}
        BY <2>6, <3>3 DEF Reading, Onward
      <4> QED
        BY <2>3, <2>4, <3>2, <3>3, <4>1
    <3>4. CASE Room(j) # <<>>
      <4>1. b.pc = "adopt"
        BY <2>6, <3>4 DEF Reading
      <4>2. 1 \in 1 .. Len(Room(j))
        BY <3>1, <3>4
      <4>3. feed[b.hist[1]].job = j
        BY <3>1, <3>2, <4>2 DEF Belong
      <4>4. BootFits(b, feed', sessions')
        BY <1>2, <2>3, <3>1, <3>2, <3>4, <4>1, <4>3 DEF BootFits
      <4> QED
        BY <1>2, <4>4, BootMoves
    <3> QED
      BY <3>3, <3>4
  <2>7. CASE Adopt
    BY <2>7, AdoptShape
  <2>8. CASE Finishing(old, b)
    <3> DEFINE d == [sess |-> old.sess, entry |-> Last(old.hist)]
    <3>1. old.sess \in 1 .. Len(sessions) /\ old.hist # <<>> /\ old.hist \in Seq(Nat)
          /\ Belong(old.hist, feed[old.hist[1]].job, feed)
      BY <2>1, <2>8 DEF BootFits, Finishing, BootType
    <3>2. Len(old.hist) \in 1 .. Len(old.hist)
      BY <3>1
    <3>3. Last(old.hist) \in 1 .. Len(feed)
      BY <3>1, <3>2 DEF Last, Belong
    <3>4. d \in [sess : 1 .. Len(sessions'), entry : 1 .. Len(feed)]
      BY <2>2, <3>1, <3>3
    <3>5. b.hist = <<>> /\ b.sess = 0 /\ b.pc \notin {"adopt", "fetch"} /\ b.did = old.did \cup {d}
      BY <2>8 DEF Finishing, Onward
    <3> HIDE DEF d
    <3> QED
      BY <2>3, <2>4, <3>4, <3>5
  <2> QED
    BY <1>2, <2>5, <2>6, <2>7, <2>8 DEF BootMove, old
<1> QED
  BY <1>1, <1>2, BootChange

LEMMA ShapeInit ==
  ASSUME Init
  PROVE  Shape
<1>1. MaxEntries \in Nat /\ MaxStarts \in Nat /\ MaxDrops \in Nat
  BY ConstantsAssumption
<1>2. feed = <<>> /\ sessions = <<>> /\ <<>> \in Seq(EntryType) /\ <<>> \in Seq(SessionType) /\ Len(<<>>) = 0
  BY DEF Init
<1>3. FeedShape
  BY <1>1, <1>2 DEF Init, FeedShape
<1>4. StreamShape
  <2> DEFINE none == [state |-> "none", next |-> 1, last |-> 0]
  <2>1. none \in StreamType /\ none.next = 1 /\ none.last = 0
    BY DEF StreamType
  <2>2. streams = [k \in Starts |-> none] /\ es = 0 /\ onEntry = FALSE /\ started = FALSE
    BY DEF Init
  <2> HIDE DEF none
  <2>3. streams \in [Starts -> StreamType] /\ \A k \in Starts : streams[k] = none
    BY <2>1, <2>2
  <2>4. Len(feed) = 0
    BY <1>2
  <2>5. \A k \in Starts : streams[k].next \in 1 .. Len(feed) + 1 /\ streams[k].last \in 0 .. Len(feed)
    BY <2>1, <2>3, <2>4
  <2>6. onEntry \in BOOLEAN /\ started \in BOOLEAN
    BY <2>2
  <2> QED
    BY <1>1, <2>2, <2>3, <2>5, <2>6 DEF StreamShape
<1>5. SessionShape
  BY <1>2 DEF Init, SessionShape
<1>6. TaskShape /\ CallShape
  BY DEF Init, TaskShape, CallShape
<1>7. BootShape
  <2>1. NoBoot \in BootType /\ BootFits(NoBoot, feed, sessions)
    <3>1. <<>> \in Seq(Nat)
      OBVIOUS
    <3> QED
      BY <3>1 DEF NoBoot, BootType, PcType, BootFits
  <2>2. boots = [k \in Starts |-> NoBoot]
    BY DEF Init
  <2> QED
    BY <2>1, <2>2 DEF BootShape
<1> QED
  BY <1>3, <1>4, <1>5, <1>6, <1>7 DEF Shape

LEMMA ShapeStep ==
  ASSUME Shape, [Next]_vars
  PROVE  Shape'
BY FeedStep, SessionStep, StreamStep, TaskStep, BootStep DEF Shape

LEMMA ShapeAlways == Spec => []Shape
<1>1. Init => Shape
  BY ShapeInit
<1>2. Shape /\ [Next]_vars => Shape'
  BY ShapeStep
<1> QED
  BY <1>1, <1>2, PTL DEF Spec

LEMMA ShapeTyped ==
  ASSUME Shape
  PROVE  TypeOK
<1>1. feed \in Seq([job: Jobs, kind: Kinds, at: 0 .. MaxEntries]) /\ drops \in 0 .. MaxDrops
  BY DEF Shape, FeedShape, EntryType
<1>2. streams \in [Starts -> [state: {"none", "opening", "open", "listening", "closed"},
                              next: 1 .. Len(feed) + 1, last: 0 .. Len(feed)]]
  <2>1. streams \in [Starts -> StreamType]
        /\ \A k \in Starts : streams[k].next \in 1 .. Len(feed) + 1 /\ streams[k].last \in 0 .. Len(feed)
    BY DEF Shape, StreamShape
  <2> QED
    BY <2>1 DEF StreamType
<1>3. es \in 0 .. MaxStarts /\ onEntry \in BOOLEAN /\ started \in BOOLEAN
  BY DEF Shape, StreamShape
<1>4. \A k \in Starts :
        LET boot == boots[k] IN
        /\ boot.pc \in {"idle", "connect", "jobs", "history", "adopt", "fetch", "done", "failed"}
        /\ boot.todo \subseteq Jobs
        /\ boot.hist # <<>> <=> boot.pc \in {"adopt", "fetch"}
        /\ boot.sess # 0 <=> boot.pc = "fetch"
  BY DEF Shape, BootShape, BootFits, BootType, PcType
<1>5. \A s \in DOMAIN sessions :
        /\ sessions[s].roles \subseteq AgentRole /\ sessions[s].roles # {}
        /\ \A i \in Range(sessions[s].entries) : feed[i].job = sessions[s].job
  <2>1. sessions \in Seq(SessionType) /\ \A s \in 1 .. Len(sessions) : SessionFits(sessions[s], feed)
    BY DEF Shape, SessionShape
  <2>2. \A s \in DOMAIN sessions : s \in 1 .. Len(sessions) /\ sessions[s] \in SessionType
    BY <2>1
  <2> SUFFICES ASSUME NEW s \in DOMAIN sessions, NEW i \in Range(sessions[s].entries)
               PROVE  feed[i].job = sessions[s].job
    BY <2>1, <2>2 DEF SessionType, SessionFits
  <2>3. sessions[s].entries \in Seq(Nat)
    BY <2>2 DEF SessionType
  <2>4. PICK n \in 1 .. Len(sessions[s].entries) : sessions[s].entries[n] = i
    BY <2>3 DEF Range
  <2> QED
    BY <2>1, <2>2, <2>4 DEF SessionFits, Belong
<1>6. \A j \in Jobs : sessionMap[j] # 0 => sessions[sessionMap[j]].job = j
  BY DEF Shape, SessionShape
<1>7. tasks \subseteq [sess: DOMAIN sessions, entry: DOMAIN feed]
  <2>1. DOMAIN sessions = 1 .. Len(sessions) /\ DOMAIN feed = 1 .. Len(feed)
    BY DEF Shape, SessionShape, FeedShape
  <2> QED
    BY <2>1 DEF Shape, TaskShape
<1>8. calls \in [1 .. MaxEntries -> Nat]
  BY DEF Shape, CallShape
<1> QED
  BY <1>1, <1>2, <1>3, <1>4, <1>5, <1>6, <1>7, <1>8 DEF TypeOK

\* Every variable has its type: a session has entries of its own room only,
\* the map names sessions of the right room, the streams are within the feed,
\* and hydration has a history just while it works on a room.
THEOREM TypeCorrect == Spec => []TypeOK
BY ShapeAlways, ShapeTyped, PTL

-----------------------------------------------------------------------------
(* RolesKnown.                                                             *)

\* What changes the sessions: stop(), a dispatch, a room that is adopted.
LEMMA SessionChange ==
  ASSUME Shape, [Next]_vars
  PROVE  \/ UNCHANGED <<sessions, sessionMap>>
         \/ sessions' = sessions /\ sessionMap' = [j \in Jobs |-> 0]
         \/ \E i \in 1 .. Len(feed) : Dispatch(i) /\ feed' = feed
         \/ \E k \in Starts :
              /\ feed' = feed /\ boots[k].hist # <<>> /\ RoomOf(boots[k]) \in Jobs
              /\ sessionMap[RoomOf(boots[k])] = 0
              /\ sessions' = Append(sessions, NewSession(RoomOf(boots[k]), boots[k].hist))
              /\ sessionMap' = [sessionMap EXCEPT ![RoomOf(boots[k])] = Len(sessions) + 1]
<1>1. CASE Deliver
  <2>1. PICK k \in Starts : /\ streams[k].next <= Len(feed)
                            /\ UNCHANGED agent \/ Dispatch(streams[k].next)
                            /\ feed' = feed
    BY <1>1 DEF Deliver, backend
  <2>2. streams[k].next \in 1 .. Len(feed)
    BY <2>1 DEF Shape, StreamShape, FeedShape
  <2> QED
    BY <2>1, <2>2 DEF agent
<1>2. CASE Adopt
  <2>1. PICK k \in Starts :
           /\ boots[k].pc = "adopt" /\ feed' = feed
           /\ LET j == feed[Head(boots[k].hist)].job
                  new == sessionMap[j] = 0
              IN /\ sessions' = IF new THEN Append(sessions, NewSession(j, boots[k].hist)) ELSE sessions
                 /\ sessionMap' = IF new THEN [sessionMap EXCEPT ![j] = Len(sessions) + 1] ELSE sessionMap
    BY <1>2 DEF Adopt, backend
  <2>2. Head(boots[k].hist) = boots[k].hist[1] /\ boots[k].hist # <<>> /\ RoomOf(boots[k]) \in Jobs
    <3>1. boots[k].hist \in Seq(Nat) /\ boots[k].hist # <<>>
          /\ Belong(boots[k].hist, feed[boots[k].hist[1]].job, feed)
      BY <2>1 DEF Shape, BootShape, BootType, BootFits
    <3>2. 1 \in 1 .. Len(boots[k].hist)
      BY <3>1
    <3>3. feed[boots[k].hist[1]] \in EntryType
      BY <3>1, <3>2 DEF Belong, Shape, FeedShape
    <3> QED
      BY <3>1, <3>3 DEF RoomOf, EntryType
  <2>3. feed[Head(boots[k].hist)].job = RoomOf(boots[k])
    BY <2>2 DEF RoomOf
  <2> QED
    BY <2>1, <2>2, <2>3
<1>3. CASE Stop
  BY <1>3 DEF Stop
<1>4. ASSUME ~ Deliver, ~ Adopt, ~ Stop
      PROVE  UNCHANGED <<sessions, sessionMap>>
  BY <1>4 DEF Next, Network, vars, agent, Publish, Reconnect, Start, ConnectFails, HydrationFails,
     OpenStream, DispatchSettles, Connected, ListJobs, ReadHistory, HydrateRoom
<1> QED
  BY <1>1, <1>2, <1>3, <1>4

\* RolesKnown by room, with the feed and the sessions as arguments.
RolesFit(s, fd) ==
  (\E n \in 1 .. Len(s.entries) : fd[s.entries[n]].kind = "job.created") => s.roles = TrueRoles(s.job)
Roles(fd, ss, map) == \A j \in Jobs : map[j] # 0 => RolesFit(ss[map[j]], fd)

LEMMA RolesTell ==
  ASSUME Shape, Roles(feed, sessions, sessionMap)
  PROVE  RolesKnown
<1> SUFFICES ASSUME NEW j \in Jobs, sessionMap[j] # 0,
                    NEW i \in Range(sessions[sessionMap[j]].entries), Kind(i) = "job.created"
             PROVE  sessions[sessionMap[j]].roles = TrueRoles(sessions[sessionMap[j]].job)
  BY DEF RolesKnown, Tracked
<1> DEFINE s == sessions[sessionMap[j]]
<1>1. s \in SessionType
  <2>1. sessionMap[j] \in 1 .. Len(sessions) /\ sessions \in Seq(SessionType)
    BY DEF Shape, SessionShape
  <2> QED
    BY <2>1
<1>2. s.entries \in Seq(Nat)
  BY <1>1 DEF SessionType
<1>3. PICK n \in 1 .. Len(s.entries) : s.entries[n] = i
  BY <1>2 DEF Range
<1> QED
  BY <1>3 DEF Roles, RolesFit, Kind

LEMMA RolesStep ==
  ASSUME Shape, Roles(feed, sessions, sessionMap), [Next]_vars
  PROVE  Roles(feed', sessions', sessionMap')
<1>1. /\ sessions \in Seq(SessionType) /\ Len(sessions) \in Nat
      /\ \A s \in 1 .. Len(sessions) : sessions[s] \in SessionType /\ SessionFits(sessions[s], feed)
      /\ sessionMap \in [Jobs -> 0 .. Len(sessions)]
      /\ \A j \in Jobs : sessionMap[j] # 0 => sessions[sessionMap[j]].job = j
  BY DEF Shape, SessionShape
<1>2. ASSUME NEW s \in 1 .. Len(sessions), RolesFit(sessions[s], feed)
      PROVE  RolesFit(sessions[s], feed')
  <2>1. \A n \in 1 .. Len(sessions[s].entries) : feed'[sessions[s].entries[n]] = feed[sessions[s].entries[n]]
    BY <1>1, FeedStep DEF SessionFits, Belong, FeedGrows
  <2> QED
    BY <1>2, <2>1 DEF RolesFit
<1>3. CASE UNCHANGED <<sessions, sessionMap>>
  <2> SUFFICES ASSUME NEW j \in Jobs, sessionMap[j] # 0
               PROVE  RolesFit(sessions[sessionMap[j]], feed')
    BY <1>3 DEF Roles
  <2>1. sessionMap[j] \in 1 .. Len(sessions) /\ RolesFit(sessions[sessionMap[j]], feed)
    BY <1>1 DEF Roles
  <2> QED
    BY <1>2, <2>1
<1>4. CASE sessionMap' = [j \in Jobs |-> 0]
  BY <1>4 DEF Roles
<1>5. ASSUME NEW i \in 1 .. Len(feed), Dispatch(i), feed' = feed
      PROVE  Roles(feed', sessions', sessionMap')
  <2> DEFINE j == feed[i].job
             r == sessionMap'[j]
  <2>1. j \in Jobs /\ sessionMap' = [sessionMap EXCEPT ![j] = r]
    BY <1>5, DispatchSteps
  <2>2. /\ sessions'[r].job = j /\ sessions'[r].entries = Append(OldEntries(j), i)
        /\ sessions'[r].roles = IF Kind(i) = "job.created" THEN TrueRoles(j) ELSE OldRoles(j)
    BY <1>5, DispatchSteps
  <2>3. \A s \in 1 .. Len(sessions) : s # sessionMap[j] =>
          /\ sessions'[s].job = sessions[s].job /\ sessions'[s].roles = sessions[s].roles
          /\ sessions'[s].entries = sessions[s].entries
    BY <1>5, DispatchSteps
  <2> SUFFICES ASSUME NEW h \in Jobs, sessionMap'[h] # 0
               PROVE  RolesFit(sessions'[sessionMap'[h]], feed)
    BY <1>5 DEF Roles
  <2>4. CASE h = j
    <3>1. OldEntries(j) \in Seq(Nat)
      <4>1. CASE sessionMap[j] = 0
        BY <4>1 DEF OldEntries
      <4>2. CASE sessionMap[j] # 0
        BY <1>1, <2>1, <4>2 DEF OldEntries, SessionType
      <4> QED
        BY <4>1, <4>2
    <3>2. ASSUME Kind(i) # "job.created",
                 NEW n \in 1 .. Len(Append(OldEntries(j), i)), Kind(Append(OldEntries(j), i)[n]) = "job.created"
          PROVE  OldRoles(j) = TrueRoles(j)
      <4>1. n \in 1 .. Len(OldEntries(j)) /\ Append(OldEntries(j), i)[n] = OldEntries(j)[n]
        BY <3>1, <3>2
      <4>2. sessionMap[j] # 0
        BY <4>1 DEF OldEntries
      <4>3. RolesFit(sessions[sessionMap[j]], feed) /\ sessions[sessionMap[j]].job = j
        BY <1>1, <2>1, <4>2 DEF Roles
      <4> QED
        BY <3>2, <4>1, <4>2, <4>3 DEF RolesFit, OldEntries, OldRoles, Kind
    <3> HIDE DEF r, j
    <3> QED
      BY <2>2, <2>4, <3>2 DEF RolesFit, Kind, r
  <2>5. CASE h # j
    <3>1. sessionMap'[h] = sessionMap[h] /\ sessionMap[h] \in 1 .. Len(sessions)
      BY <1>1, <2>1, <2>5
    <3>2. sessionMap[h] # sessionMap[j]
      BY <1>1, <2>1, <2>5, <3>1
    <3>3. RolesFit(sessions[sessionMap[h]], feed)
      BY <3>1 DEF Roles
    <3> QED
      BY <2>3, <3>1, <3>2, <3>3 DEF RolesFit
  <2> QED
    BY <2>4, <2>5
<1>6. ASSUME NEW k \in Starts, feed' = feed, boots[k].hist # <<>>, RoomOf(boots[k]) \in Jobs,
             sessions' = Append(sessions, NewSession(RoomOf(boots[k]), boots[k].hist)),
             sessionMap' = [sessionMap EXCEPT ![RoomOf(boots[k])] = Len(sessions) + 1]
      PROVE  Roles(feed', sessions', sessionMap')
  <2> DEFINE j == RoomOf(boots[k])
             hist == boots[k].hist
             fresh == NewSession(j, hist)
  <2>1. hist \in Seq(Nat)
    BY DEF Shape, BootShape, BootType
  <2>2. RolesFit(fresh, feed)
    <3>1. InferRoles(j, hist) = IF \E n \in 1 .. Len(hist) : Kind(hist[n]) = "job.created"
                                  THEN TrueRoles(j) ELSE {"provider"}
      BY <1>6, <2>1, RolesInferred
    <3> QED
      BY <3>1 DEF RolesFit, NewSession, Kind
  <2> HIDE DEF fresh
  <2>3. sessions'[Len(sessions) + 1] = fresh /\ \A s \in 1 .. Len(sessions) : sessions'[s] = sessions[s]
    BY <1>1, <1>6 DEF fresh
  <2> SUFFICES ASSUME NEW h \in Jobs, sessionMap'[h] # 0
               PROVE  RolesFit(sessions'[sessionMap'[h]], feed)
    BY <1>6 DEF Roles
  <2>4. CASE h = j
    BY <1>1, <1>6, <2>2, <2>3, <2>4
  <2>5. CASE h # j
    <3>1. sessionMap'[h] = sessionMap[h] /\ sessionMap[h] \in 1 .. Len(sessions)
      BY <1>1, <1>6, <2>5
    <3> QED
      BY <2>3, <3>1 DEF Roles
  <2> QED
    BY <2>4, <2>5
<1> QED
  BY <1>3, <1>4, <1>5, <1>6, SessionChange

\* A session that holds its job's creation has the agent's true roles, however
\* stop(), restarts, live entries and histories interleave.
THEOREM RolesCorrect == Spec => []RolesKnown
<1> DEFINE Inv == Shape /\ Roles(feed, sessions, sessionMap)
<1>1. Init => Inv
  BY ShapeInit DEF Init, Roles
<1>2. Inv /\ [Next]_vars => Inv'
  BY ShapeStep, RolesStep
<1>3. Inv => RolesKnown
  BY RolesTell
<1> QED
  BY <1>1, <1>2, <1>3, PTL DEF Spec

-----------------------------------------------------------------------------
(* ResumesRooted.                                                          *)

\* The first entry of a room: the head of its list.
LEMMA RoomHead ==
  ASSUME FeedShape, NEW i \in 1 .. Len(feed)
  PROVE  Head(Room(feed[i].job)) = i <=> First(feed, i)
<1> DEFINE j == feed[i].job
           room == Room(j)
<1>1. room \in Seq(Nat) /\ Ascends(room) /\ Lists(room, {h \in 1 .. Len(feed) : feed[h].job = j})
  BY RoomIs
<1>2. PICK n \in 1 .. Len(room) : room[n] = i
  BY <1>1 DEF Lists
<1>3. 1 \in 1 .. Len(room) /\ Head(room) = room[1] /\ room[1] \in 1 .. Len(feed) /\ feed[room[1]].job = j
  <2>1. 1 \in 1 .. Len(room) /\ Head(room) = room[1]
    BY <1>1, <1>2
  <2> QED
    BY <1>1, <2>1 DEF Lists
<1>4. \A m \in 1 .. Len(room) : room[1] <= room[m]
  <2> SUFFICES ASSUME NEW m \in 1 .. Len(room) PROVE room[1] <= room[m]
    OBVIOUS
  <2>1. room[1] \in Nat /\ room[m] \in Nat
    BY <1>1, <1>3
  <2>2. CASE m = 1
    BY <2>1, <2>2
  <2>3. CASE m # 1
    <3>1. 1 < m
      BY <1>1, <2>3
    <3> QED
      BY <1>1, <1>3, <2>1, <3>1 DEF Ascends
  <2> QED
    BY <2>2, <2>3
<1>5. ASSUME room[1] = i PROVE First(feed, i)
  <2> SUFFICES ASSUME NEW h \in 1 .. i - 1, feed[h].job = j PROVE FALSE
    BY DEF First
  <2>1. h \in 1 .. Len(feed)
    OBVIOUS
  <2>2. PICK m \in 1 .. Len(room) : room[m] = h
    BY <1>1, <2>1 DEF Lists
  <2> QED
    BY <1>4, <1>5, <2>2
<1>6. ASSUME First(feed, i) PROVE room[1] = i
  <2>1. room[1] <= i
    BY <1>2, <1>4
  <2>2. ~ (room[1] \in 1 .. i - 1)
    BY <1>3, <1>6 DEF First
  <2> QED
    BY <1>3, <2>1, <2>2
<1> QED
  BY <1>3, <1>5, <1>6

LEMMA RoomsBeginStep ==
  ASSUME Shape, RoomsBegin(feed), [Next]_vars
  PROVE  RoomsBegin(feed')
<1>1. FeedGrows(feed, feed') /\ Len(feed) \in Nat /\ feed \in Seq(EntryType) /\ feed' \in Seq(EntryType)
  BY FeedStep DEF Shape, FeedShape
<1>2. \A i \in 1 .. Len(feed) : First(feed', i) => feed'[i].kind = "job.created"
  <2> SUFFICES ASSUME NEW i \in 1 .. Len(feed), First(feed', i)
               PROVE  feed'[i].kind = "job.created"
    OBVIOUS
  <2>1. \A h \in 1 .. i : feed'[h] = feed[h]
    BY <1>1 DEF FeedGrows
  <2>2. First(feed, i)
    BY <2>1 DEF First
  <2> QED
    BY <2>1, <2>2 DEF RoomsBegin
<1>3. CASE Publish
  <2> DEFINE n == Len(feed')
             j == feed'[n].job
  <2>1. n = Len(feed) + 1 /\ feed'[n].kind \in NextKinds(j)
    BY <1>3, PublishSteps
  <2>2. ASSUME First(feed', n) PROVE feed'[n].kind = "job.created"
    <3>1. \A h \in 1 .. Len(feed) : feed[h].job # j
      BY <1>1, <2>1, <2>2 DEF First, FeedGrows
    <3>2. FeedShape
      BY DEF Shape
    <3> HIDE DEF n, j
    <3>3. Room(j) = <<>>
      BY <3>1, <3>2, RoomBelongs
    <3>4. JobEvents(Room(j)) = <<>>
      BY <3>3, SelectEmpty DEF JobEvents
    <3> QED
      BY <2>1, <3>4 DEF NextKinds
  <2>3. \A i \in 1 .. n : i \in 1 .. Len(feed) \/ i = n
    BY <1>1, <2>1
  <2> QED
    BY <1>2, <2>2, <2>3 DEF RoomsBegin
<1>4. CASE feed' = feed
  BY <1>4
<1>5. ASSUME ~ Publish PROVE feed' = feed
  BY <1>5 DEF Next, Network, vars, backend, Reconnect, Start, ConnectFails, HydrationFails, Stop,
     OpenStream, Deliver, DispatchSettles, Connected, ListJobs, ReadHistory, Adopt, HydrateRoom
<1> QED
  BY <1>3, <1>4, <1>5

LEMMA HeadRolesStep ==
  ASSUME Shape, HeadRoles(feed, sessions), [Next]_vars
  PROVE  HeadRoles(feed', sessions')
<1>1. /\ sessions \in Seq(SessionType) /\ Len(sessions) \in Nat
      /\ \A s \in 1 .. Len(sessions) : /\ sessions[s] \in SessionType /\ SessionFits(sessions[s], feed)
                                       /\ HeadRole(sessions[s], feed)
      /\ sessionMap \in [Jobs -> 0 .. Len(sessions)]
      /\ \A j \in Jobs : sessionMap[j] # 0 => sessions[sessionMap[j]].job = j
  BY DEF Shape, SessionShape, HeadRoles
<1>2. FeedGrows(feed, feed') /\ SessionsGrow(sessions, sessions')
  BY FeedStep, SessionStep
<1>3. \A s \in 1 .. Len(sessions) :
        1 \in 1 .. Len(sessions[s].entries) /\ sessions[s].entries[1] \in 1 .. Len(feed)
  <2> SUFFICES ASSUME NEW s \in 1 .. Len(sessions)
               PROVE  1 \in 1 .. Len(sessions[s].entries) /\ sessions[s].entries[1] \in 1 .. Len(feed)
    OBVIOUS
  <2>1. sessions[s].entries \in Seq(Nat) /\ sessions[s].entries # <<>>
    BY <1>1 DEF SessionType, SessionFits
  <2>2. 1 \in 1 .. Len(sessions[s].entries)
    BY <2>1
  <2> QED
    BY <1>1, <2>2 DEF SessionFits, Belong
\* The sessions there were keep their first entry and their roles.
<1>4. \A s \in 1 .. Len(sessions) : HeadRole(sessions'[s], feed')
  <2> SUFFICES ASSUME NEW s \in 1 .. Len(sessions) PROVE HeadRole(sessions'[s], feed')
    OBVIOUS
  <2>1. sessions'[s].entries[1] = sessions[s].entries[1] /\ sessions'[s].job = sessions[s].job
        /\ sessions'[s].roles = sessions[s].roles
    BY <1>2, <1>3 DEF SessionsGrow
  <2>2. feed'[sessions[s].entries[1]] = feed[sessions[s].entries[1]]
    BY <1>2, <1>3 DEF FeedGrows
  <2> QED
    BY <1>1, <2>1, <2>2 DEF HeadRole
<1>5. CASE sessions' = sessions
  BY <1>4, <1>5 DEF HeadRoles
<1>6. ASSUME NEW i \in 1 .. Len(feed), Dispatch(i), feed' = feed
      PROVE  HeadRoles(feed', sessions')
  <2> DEFINE j == feed[i].job
             r == sessionMap'[j]
  <2>1. j \in Jobs /\ Len(sessions') \in {Len(sessions), Len(sessions) + 1} /\ r \in 1 .. Len(sessions')
    <3>1. j \in Jobs /\ Len(sessions') \in {Len(sessions), Len(sessions) + 1}
      BY <1>6, DispatchSteps
    <3>2. r \in 1 .. Len(sessions')
      BY <1>6, DispatchSteps
    <3> QED
      BY <3>1, <3>2
  <2>2. \/ r = sessionMap[j] /\ Len(sessions') = Len(sessions)
        \/ r = Len(sessions) + 1 /\ Len(sessions') = Len(sessions) + 1
    BY <1>6, DispatchSteps
  <2>3. /\ sessions'[r].job = j /\ sessions'[r].entries = Append(OldEntries(j), i)
        /\ sessions'[r].roles = IF Kind(i) = "job.created" THEN TrueRoles(j) ELSE OldRoles(j)
    BY <1>6, DispatchSteps
  <2>4. HeadRole(sessions'[r], feed)
    <3>1. CASE sessionMap[j] = 0
      <4>1. OldEntries(j) = <<>> /\ Append(OldEntries(j), i)[1] = i
        BY <3>1 DEF OldEntries
      <4> HIDE DEF r
      <4> QED
        BY <2>3, <4>1 DEF HeadRole, Kind
    <3>2. CASE sessionMap[j] # 0
      <4> DEFINE s == sessionMap[j]
      <4>1. s \in 1 .. Len(sessions) /\ OldEntries(j) = sessions[s].entries /\ OldRoles(j) = sessions[s].roles
            /\ sessions[s].job = j
        BY <1>1, <2>1, <3>2 DEF OldEntries, OldRoles
      <4>2. OldEntries(j) \in Seq(Nat) /\ 1 \in 1 .. Len(OldEntries(j))
        BY <1>1, <1>3, <4>1 DEF SessionType
      <4>3. Append(OldEntries(j), i)[1] = sessions[s].entries[1]
        BY <4>1, <4>2
      <4>4. HeadRole(sessions[s], feed)
        BY <1>1, <4>1
      <4> HIDE DEF r, j, s
      <4> QED
        BY <2>3, <4>1, <4>3, <4>4 DEF HeadRole
    <3> QED
      BY <3>1, <3>2
  <2>5. \A s \in 1 .. Len(sessions') : s \in 1 .. Len(sessions) \/ s = r
    BY <1>1, <2>1, <2>2
  <2> QED
    BY <1>4, <1>6, <2>4, <2>5 DEF HeadRoles
<1>7. ASSUME NEW k \in Starts, feed' = feed, boots[k].hist # <<>>, RoomOf(boots[k]) \in Jobs,
             sessions' = Append(sessions, NewSession(RoomOf(boots[k]), boots[k].hist))
      PROVE  HeadRoles(feed', sessions')
  <2> DEFINE j == RoomOf(boots[k])
             hist == boots[k].hist
             fresh == NewSession(j, hist)
  <2>1. hist \in Seq(Nat) /\ 1 \in 1 .. Len(hist)
    BY <1>7 DEF Shape, BootShape, BootType
  <2>2. HeadRole(fresh, feed)
    <3>1. InferRoles(j, hist) = IF \E n \in 1 .. Len(hist) : Kind(hist[n]) = "job.created"
                                  THEN TrueRoles(j) ELSE {"provider"}
      BY <1>7, <2>1, RolesInferred
    <3> HIDE DEF j, hist
    <3> QED
      BY <2>1, <3>1 DEF HeadRole, NewSession, Kind
  <2> HIDE DEF fresh
  <2>3. sessions'[Len(sessions) + 1] = fresh /\ Len(sessions') = Len(sessions) + 1
    BY <1>1, <1>7 DEF fresh
  <2>4. \A s \in 1 .. Len(sessions') : s \in 1 .. Len(sessions) \/ s = Len(sessions) + 1
    BY <1>1, <2>3
  <2> QED
    BY <1>4, <1>7, <2>2, <2>3, <2>4 DEF HeadRoles
<1> QED
  BY <1>5, <1>6, <1>7, SessionChange

\* The entry d.entry, hydrated for a session that has its room's beginning, was
\* handed on if it is the agent's to answer.
Answers(e, roles) ==
  e.kind = "message" \/ (e.kind \in SystemKinds /\ roles \cap Responders(e.kind) # {})
Resumed(d, fd, ss, cl) ==
  First(fd, ss[d.sess].entries[1]) /\ Answers(fd[d.entry], TrueRoles(fd[d.entry].job)) => cl[d.entry] > 0
Resumes(fd, ss, cl, bs) == \A k \in Starts : \A d \in bs[k].did : Resumed(d, fd, ss, cl)

LEMMA ResumesTell ==
  ASSUME Shape, Resumes(feed, sessions, calls, boots)
  PROVE  ResumesRooted
<1> SUFFICES ASSUME NEW k \in Starts, NEW d \in boots[k].did, Rooted(d.sess),
                    ShouldRespond(TrueRoles(feed[d.entry].job), d.entry)
             PROVE  calls[d.entry] > 0
  BY DEF ResumesRooted, Hydrated
<1> DEFINE s == sessions[d.sess]
<1>1. d \in [sess : 1 .. Len(sessions), entry : 1 .. Len(feed)]
  BY DEF Shape, BootShape, BootFits
<1>2. s \in SessionType /\ SessionFits(s, feed)
  BY <1>1 DEF Shape, SessionShape
<1>3. s.entries \in Seq(Nat) /\ s.entries # <<>> /\ Belong(s.entries, s.job, feed)
  BY <1>2 DEF SessionType, SessionFits
<1>4. 1 \in 1 .. Len(s.entries) /\ Head(s.entries) = s.entries[1]
  BY <1>3
<1>5. s.entries[1] \in 1 .. Len(feed) /\ feed[s.entries[1]].job = s.job
  BY <1>3, <1>4 DEF Belong
<1>6. Head(Room(s.job)) = s.entries[1]
  BY <1>4 DEF Rooted
<1>7. First(feed, s.entries[1])
  <2>1. FeedShape
    BY DEF Shape
  <2> QED
    BY <1>5, <1>6, <2>1, RoomHead
<1>8. Answers(feed[d.entry], TrueRoles(feed[d.entry].job))
  BY DEF ShouldRespond, Answers, IsSystem, Kind
<1> QED
  BY <1>7, <1>8 DEF Resumes, Resumed

\* Handler calls are never taken back.
LEMMA CallsGrow ==
  ASSUME Shape, [Next]_vars
  PROVE  \A i \in 1 .. MaxEntries : calls'[i] >= calls[i]
<1>1. calls \in [1 .. MaxEntries -> Nat]
  BY DEF Shape, CallShape
<1>2. CASE UNCHANGED calls
  BY <1>1, <1>2
<1>3. ASSUME NEW s, NEW e, FireHandler(s, e)
      PROVE  \A i \in 1 .. MaxEntries : calls'[i] >= calls[i]
  BY <1>1, <1>3 DEF FireHandler
<1>4. ASSUME ~ UNCHANGED calls PROVE \E s, e : FireHandler(s, e)
  <2>1. CASE Deliver
    <3>1. PICK k \in Starts : /\ streams[k].next <= Len(feed)
                              /\ UNCHANGED agent \/ Dispatch(streams[k].next)
      BY <2>1 DEF Deliver
    <3> QED
      BY <1>4, <3>1 DEF agent, Dispatch
  <2>2. CASE DispatchSettles
    BY <1>4, <2>2 DEF DispatchSettles
  <2>3. CASE HydrateRoom
    BY <2>3 DEF HydrateRoom
  <2>4. ASSUME ~ Deliver, ~ DispatchSettles, ~ HydrateRoom
        PROVE  UNCHANGED calls
    BY <2>4 DEF Next, Network, vars, agent, Publish, Reconnect, Start, ConnectFails, HydrationFails,
       Stop, OpenStream, Connected, ListJobs, ReadHistory, Adopt
  <2> QED
    BY <1>4, <2>1, <2>2, <2>3, <2>4
<1> QED
  BY <1>2, <1>3, <1>4

LEMMA ResumesStep ==
  ASSUME Shape, RoomsBegin(feed), HeadRoles(feed, sessions),
         Resumes(feed, sessions, calls, boots), [Next]_vars
  PROVE  Resumes(feed', sessions', calls', boots')
<1>1. FeedGrows(feed, feed') /\ SessionsGrow(sessions, sessions')
      /\ Len(feed) \in Nat /\ Len(feed) <= MaxEntries /\ MaxEntries \in Nat
  BY FeedStep, SessionStep, ConstantsAssumption DEF Shape, FeedShape
<1>2. ASSUME NEW n \in 1 .. Len(sessions)
      PROVE  /\ sessions[n].entries[1] \in 1 .. Len(feed)
             /\ feed[sessions[n].entries[1]].job = sessions[n].job
             /\ sessions'[n].entries[1] = sessions[n].entries[1]
  <2>1. sessions[n] \in SessionType /\ SessionFits(sessions[n], feed)
    BY DEF Shape, SessionShape
  <2>2. 1 \in 1 .. Len(sessions[n].entries)
    <3>1. sessions[n].entries \in Seq(Nat) /\ sessions[n].entries # <<>>
      BY <2>1 DEF SessionType, SessionFits
    <3> QED
      BY <3>1
  <2>3. sessions'[n].entries[1] = sessions[n].entries[1]
    BY <1>1, <2>2 DEF SessionsGrow
  <2> QED
    BY <2>1, <2>2, <2>3 DEF SessionFits, Belong
<1>3. ASSUME NEW d \in [sess : 1 .. Len(sessions), entry : 1 .. Len(feed)],
             Resumed(d, feed, sessions, calls)
      PROVE  Resumed(d, feed', sessions', calls')
  <2> DEFINE i == sessions[d.sess].entries[1]
  <2>1. i \in 1 .. Len(feed) /\ sessions'[d.sess].entries[1] = i
    BY <1>2
  <2>2. \A h \in 1 .. Len(feed) : feed'[h] = feed[h]
    BY <1>1 DEF FeedGrows
  <2> HIDE DEF i
  <2>3. First(feed', i) => First(feed, i)
    BY <1>1, <2>1, <2>2 DEF First
  <2>4. feed'[d.entry] = feed[d.entry]
    BY <2>2
  <2>5. calls'[d.entry] >= calls[d.entry] /\ calls'[d.entry] \in Nat /\ calls[d.entry] \in Nat
    <3>1. d.entry \in 1 .. MaxEntries
      BY <1>1
    <3> QED
      BY <3>1, CallsGrow, ShapeStep DEF Shape, CallShape
  <2> QED
    BY <1>3, <2>1, <2>3, <2>4, <2>5 DEF Resumed, i
<1>4. \A k \in Starts : \A d \in boots[k].did :
        d \in [sess : 1 .. Len(sessions), entry : 1 .. Len(feed)] /\ Resumed(d, feed', sessions', calls')
  <2>1. \A k \in Starts : \A d \in boots[k].did : d \in [sess : 1 .. Len(sessions), entry : 1 .. Len(feed)]
    BY DEF Shape, BootShape, BootFits
  <2> QED
    BY <1>3, <2>1 DEF Resumes
<1>5. CASE UNCHANGED boots
  BY <1>4, <1>5 DEF Resumes
<1>6. ASSUME NEW k \in Starts, NEW b \in BootType, boots' = [boots EXCEPT ![k] = b], feed' = feed,
             BootMove(boots[k], b)
      PROVE  Resumes(feed', sessions', calls', boots')
  <2> DEFINE old == boots[k]
             d == [sess |-> old.sess, entry |-> Last(old.hist)]
  <2>0. old \in BootType /\ BootFits(old, feed, sessions) /\ boots \in [Starts -> BootType]
    BY DEF Shape, BootShape
  <2>1. CASE b.did = old.did
    <3>1. \A h \in Starts : boots'[h].did = boots[h].did
      BY <1>6, <2>0, <2>1
    <3> QED
      BY <1>4, <3>1 DEF Resumes
  <2>2. CASE HydrateRoom /\ Finishing(old, b)
    <3> DEFINE s == sessions[old.sess]
               e == Last(old.hist)
    <3>1. /\ old.sess \in 1 .. Len(sessions) /\ s.job = RoomOf(old)
          /\ old.hist # <<>> /\ old.hist \in Seq(Nat) /\ Belong(old.hist, RoomOf(old), feed)
      BY <2>0, <2>2 DEF BootFits, Finishing, BootType, RoomOf
    <3>2. Len(old.hist) \in 1 .. Len(old.hist)
      BY <3>1
    <3>3. e \in 1 .. Len(feed) /\ feed[e].job = s.job
      BY <3>1, <3>2 DEF Last, Belong
    <3>4. sessions' = sessions /\ FireHandler(old.sess, e)
      BY <2>2 DEF HydrateRoom, Finishing
    <3>5. ASSUME First(feed, s.entries[1]), Answers(feed[e], TrueRoles(feed[e].job))
          PROVE  calls'[e] > 0
      <4>1. s.entries[1] \in 1 .. Len(feed)
        BY <1>2, <3>1
      <4>2. feed[s.entries[1]].kind = "job.created"
        BY <3>5, <4>1 DEF RoomsBegin
      <4>3. s.roles = TrueRoles(s.job)
        BY <3>1, <4>2 DEF HeadRoles, HeadRole
      <4>4. ShouldRespond(s.roles, e)
        BY <3>3, <3>5, <4>3 DEF ShouldRespond, Answers, IsSystem, Kind
      <4>5. calls' = [calls EXCEPT ![e] = @ + 1]
        BY <3>4, <4>4 DEF FireHandler
      <4>6. e \in 1 .. MaxEntries /\ calls \in [1 .. MaxEntries -> Nat]
        BY <1>1, <3>3 DEF Shape, CallShape
      <4>7. calls'[e] = calls[e] + 1 /\ calls[e] \in Nat
        BY <4>5, <4>6
      <4> QED
        BY <4>7
    <3>6. Resumed(d, feed', sessions', calls')
      <4>1. d.sess = old.sess /\ d.entry = e
        OBVIOUS
      <4> HIDE DEF d
      <4> QED
        BY <1>6, <3>4, <3>5, <4>1 DEF Resumed
    <3>7. b.did = old.did \cup {d}
      BY <2>2 DEF Finishing
    <3> HIDE DEF d
    <3>8. \A h \in Starts : \A x \in boots'[h].did : x \in boots[h].did \/ x = d
      BY <1>6, <2>0, <3>7
    <3> QED
      BY <1>4, <3>6, <3>8 DEF Resumes
  <2>3. (HydrateRoom /\ Finishing(old, b)) \/ b.did = old.did
    BY <1>6 DEF BootMove, Starting, Settling, Listing, Reading, Adopting, Failing, Quiet
  <2> QED
    BY <2>1, <2>2, <2>3
<1> QED
  BY <1>5, <1>6, BootChange

\* The newest entry of every room that hydration finished was handed on, if it
\* is the agent's to answer and the room's session has the room's beginning.
THEOREM ResumesCorrect == Spec => []ResumesRooted
<1> DEFINE Inv == /\ Shape /\ RoomsBegin(feed) /\ HeadRoles(feed, sessions)
                  /\ Resumes(feed, sessions, calls, boots)
<1>1. Init => Inv
  <2>1. Init => Len(feed) = 0 /\ Len(sessions) = 0
    BY DEF Init
  <2>2. Init => RoomsBegin(feed) /\ HeadRoles(feed, sessions)
    BY <2>1 DEF RoomsBegin, HeadRoles
  <2>3. Init => Resumes(feed, sessions, calls, boots)
    BY DEF Init, NoBoot, Resumes
  <2> QED
    BY <2>2, <2>3, ShapeInit
<1>2. Inv /\ [Next]_vars => Inv'
  BY ShapeStep, RoomsBeginStep, HeadRolesStep, ResumesStep
<1>3. Inv => ResumesRooted
  BY ResumesTell
<1> QED
  BY <1>1, <1>2, <1>3, PTL DEF Spec

-----------------------------------------------------------------------------
(* TwiceAtMost.                                                            *)

LEMMA HydratesStep ==
  ASSUME Shape, \A k \in Starts : HydratesOnce(boots[k], feed), [Next]_vars
  PROVE  \A k \in Starts : HydratesOnce(boots'[k], feed')
<1>1. \A k \in Starts : boots[k] \in BootType /\ BootFits(boots[k], feed, sessions)
  BY DEF Shape, BootShape
<1>2. FeedGrows(feed, feed')
  BY FeedStep
<1>3. ASSUME NEW k \in Starts PROVE HydratesOnce(boots[k], feed')
  <2> DEFINE boot == boots[k]
  <2>1. \A d \in boot.did : feed'[d.entry] = feed[d.entry]
    BY <1>1, <1>2 DEF BootFits, FeedGrows
  <2>2. boot.hist # <<>> => feed'[boot.hist[1]] = feed[boot.hist[1]]
    <3> SUFFICES ASSUME boot.hist # <<>> PROVE feed'[boot.hist[1]] = feed[boot.hist[1]]
      OBVIOUS
    <3>1. boot.hist \in Seq(Nat) /\ Belong(boot.hist, feed[boot.hist[1]].job, feed)
      BY <1>1 DEF BootType, BootFits
    <3>2. 1 \in 1 .. Len(boot.hist)
      BY <3>1
    <3> QED
      BY <1>2, <3>1, <3>2 DEF Belong, FeedGrows
  <2>3. HydratesOnce(boot, feed)
    OBVIOUS
  <2> HIDE DEF boot
  <2> QED
    BY <2>1, <2>2, <2>3 DEF HydratesOnce, boot
<1>4. CASE UNCHANGED boots
  BY <1>3, <1>4
<1>5. ASSUME NEW k \in Starts, NEW b \in BootType, boots' = [boots EXCEPT ![k] = b], feed' = feed,
             BootMove(boots[k], b)
      PROVE  \A h \in Starts : HydratesOnce(boots'[h], feed')
  <2> DEFINE old == boots[k]
  <2>1. old \in BootType /\ BootFits(old, feed, sessions) /\ HydratesOnce(old, feed)
    BY <1>1
  <2> HIDE DEF old
  <2>2. HydratesOnce(b, feed)
    <3>1. CASE Starting(old, b) \/ Settling(old, b) \/ Listing(old, b)
      BY <2>1, <3>1 DEF HydratesOnce, Starting, Settling, Listing, Quiet
    <3>2. CASE Failing(old, b)
      BY <2>1, <3>2 DEF HydratesOnce, Failing, Quiet
    <3>3. ASSUME NEW j \in old.todo, Reading(old, b, j) PROVE HydratesOnce(b, feed)
      <4>1. /\ b.hist = Room(j) /\ b.todo = old.todo \ {j} /\ b.did = old.did
            /\ b.pc \in {"done", "history", "adopt"}
        BY <3>3 DEF Reading, Onward
      <4>2. Room(j) # <<>> => feed[Room(j)[1]].job = j
        <5>1. FeedShape
          BY DEF Shape
        <5>2. Room(j) \in Seq(Nat)
          BY <5>1, RoomIs
        <5>3. Belong(Room(j), j, feed)
          BY <5>1, RoomBelongs
        <5>4. Room(j) # <<>> => 1 \in 1 .. Len(Room(j))
          BY <5>2
        <5> QED
          BY <5>3, <5>4 DEF Belong
      <4> QED
        BY <2>1, <4>1, <4>2 DEF HydratesOnce
    <3>4. CASE Adopting(old, b)
      BY <2>1, <3>4 DEF HydratesOnce, Adopting
    <3>5. CASE Finishing(old, b)
      <4> DEFINE d == [sess |-> old.sess, entry |-> Last(old.hist)]
      <4>1. old.hist # <<>> /\ old.hist \in Seq(Nat) /\ Belong(old.hist, feed[old.hist[1]].job, feed)
        BY <2>1, <3>5 DEF BootFits, Finishing, BootType
      <4>2. Len(old.hist) \in 1 .. Len(old.hist)
        BY <4>1
      <4>3. feed[d.entry].job = feed[old.hist[1]].job
        BY <4>1, <4>2 DEF Last, Belong
      <4>4. /\ b.did = old.did \cup {d} /\ b.todo = old.todo /\ b.hist = <<>>
            /\ b.pc \in {"done", "history"}
        BY <3>5 DEF Finishing, Onward
      <4> HIDE DEF d
      <4> QED
        BY <2>1, <4>1, <4>3, <4>4 DEF HydratesOnce
    <3> QED
      BY <1>5, <3>1, <3>2, <3>3, <3>4, <3>5 DEF BootMove, old
  <2>3. \A h \in Starts : boots'[h] = boots[h] \/ boots'[h] = b
    BY <1>5, <2>1 DEF Shape, BootShape
  <2> QED
    BY <1>5, <2>2, <2>3
<1> QED
  BY <1>4, <1>5, BootChange

\* Sets of start() calls are finite, and no larger than MaxStarts.
LEMMA SomeStarts ==
  ASSUME NEW T \in SUBSET Starts
  PROVE  IsFiniteSet(T) /\ Cardinality(T) \in Nat /\ Cardinality(T) <= MaxStarts
<1>1. MaxStarts \in Nat
  BY ConstantsAssumption
<1>2. IsFiniteSet(Starts) /\ Cardinality(Starts) = MaxStarts
  BY <1>1, FS_Interval DEF Starts
<1>3. IsFiniteSet(T) /\ Cardinality(T) <= Cardinality(Starts)
  BY <1>2, FS_Subset
<1> QED
  BY <1>2, <1>3, FS_CardinalityType

\* A start() that was called stays called, and what it handed on stays so.
LEMMA StartsGrow ==
  ASSUME Shape, [Next]_vars
  PROVE  /\ Begun(boots) \subseteq Begun(boots')
         /\ \A i : Spent(boots, i) \subseteq Spent(boots', i)
<1>1. boots \in [Starts -> BootType]
  BY DEF Shape, BootShape
<1>2. ASSUME NEW k \in Starts, NEW b \in BootType, boots' = [boots EXCEPT ![k] = b],
             BootMove(boots[k], b)
      PROVE  /\ Begun(boots) \subseteq Begun(boots')
             /\ \A i : Spent(boots, i) \subseteq Spent(boots', i)
  <2>1. b.pc # "idle" /\ boots[k].did \subseteq b.did
    BY <1>2 DEF BootMove, Starting, Settling, Listing, Reading, Adopting, Finishing, Failing, Quiet, Onward
  <2>2. \A h \in Starts : boots'[h] = IF h = k THEN b ELSE boots[h]
    BY <1>1, <1>2
  <2> QED
    BY <2>1, <2>2 DEF Begun, Spent
<1> QED
  BY <1>2, BootChange

\* Finitely many calls wait for an answer.
LEMMA PendingFinite ==
  ASSUME NEW ts, IsFiniteSet(ts), NEW i
  PROVE  IsFiniteSet(Pending(ts, i)) /\ Cardinality(Pending(ts, i)) \in Nat
<1>1. Pending(ts, i) \in SUBSET ts
  BY DEF Pending
<1> QED
  BY <1>1, FS_Subset, FS_CardinalityType

\* The count holds on if what was done or can be done grows by no more than
\* what was begun or spent.
LEMMA CountsOn ==
  ASSUME Shape, [Next]_vars, NEW n \in Nat, NEW m \in Nat, NEW u \in {0, 1}, NEW v \in {0, 1},
         NEW ts, NEW us, IsFiniteSet(ts), IsFiniteSet(us), NEW i, Counts(n, ts, i, u, boots),
         m + Cardinality(Pending(us, i)) + v <= n + Cardinality(Pending(ts, i)) + u
  PROVE  Counts(m, us, i, v, boots')
<1>1. /\ Cardinality(Begun(boots)) \in Nat /\ Cardinality(Begun(boots')) \in Nat
      /\ IsFiniteSet(Begun(boots'))
  <2>1. Begun(boots) \in SUBSET Starts /\ Begun(boots') \in SUBSET Starts
    BY DEF Begun
  <2> QED
    BY <2>1, SomeStarts
<1>2. /\ Cardinality(Spent(boots, i)) \in Nat /\ Cardinality(Spent(boots', i)) \in Nat
      /\ IsFiniteSet(Spent(boots', i))
  <2>1. Spent(boots, i) \in SUBSET Starts /\ Spent(boots', i) \in SUBSET Starts
    BY DEF Spent
  <2> QED
    BY <2>1, SomeStarts
<1>3. Cardinality(Begun(boots)) <= Cardinality(Begun(boots'))
  BY <1>1, StartsGrow, FS_Subset
<1>4. Cardinality(Spent(boots, i)) <= Cardinality(Spent(boots', i))
  BY <1>2, StartsGrow, FS_Subset
<1>5. Cardinality(Pending(us, i)) \in Nat /\ Cardinality(Pending(ts, i)) \in Nat
  BY PendingFinite
<1> QED
  BY <1>1, <1>2, <1>3, <1>4, <1>5 DEF Counts

LEMMA CallsStep ==
  ASSUME Shape, CallsInv, [Next]_vars
  PROVE  CallsInv'
<1> DEFINE U(i) == Unheard(onEntry, seenEntries, feed[i])
           V(i) == Unheard(onEntry', seenEntries', feed'[i])
           Right(i) == Counts(calls'[i], tasks', i, V(i), boots')
<1>1. /\ calls \in [1 .. MaxEntries -> Nat] /\ calls' \in [1 .. MaxEntries -> Nat]
      /\ Len(feed) \in Nat /\ Len(feed) <= MaxEntries /\ MaxEntries \in Nat
      /\ FeedGrows(feed, feed') /\ Len(feed') \in Nat
  <2>1. FeedGrows(feed, feed') /\ Len(feed') \in Nat
    BY FeedStep DEF FeedGrows, FeedShape
  <2>2. Len(feed) \in Nat /\ Len(feed) <= MaxEntries
    BY DEF Shape, FeedShape
  <2>3. calls \in [1 .. MaxEntries -> Nat]
    BY DEF Shape, CallShape
  <2>4. calls' \in [1 .. MaxEntries -> Nat]
    BY TaskStep DEF CallShape
  <2> QED
    BY <2>1, <2>2, <2>3, <2>4, ConstantsAssumption
<1>2. \A i : U(i) \in {0, 1} /\ V(i) \in {0, 1}
  BY DEF Unheard
<1>3. /\ IsFiniteSet(tasks) /\ (onEntry => Begun(boots) # {})
      /\ \A i \in 1 .. MaxEntries : i > Len(feed) => calls[i] = 0
      /\ \A i \in 1 .. Len(feed) : i \in 1 .. MaxEntries /\ Counts(calls[i], tasks, i, U(i), boots)
  BY <1>1 DEF CallsInv, Counted
<1>4. \A i : Cardinality(Pending(tasks, i)) \in Nat
  BY <1>3, PendingFinite
<1>5. \A k \in Starts : HydratesOnce(boots'[k], feed')
  BY HydratesStep DEF CallsInv
<1>6. ASSUME IsFiniteSet(tasks'), onEntry' => Begun(boots') # {},
             \A i \in 1 .. MaxEntries : i > Len(feed') => calls'[i] = 0,
             \A i \in 1 .. Len(feed') : Right(i)
      PROVE  CallsInv'
  BY <1>5, <1>6 DEF CallsInv, Counted
\* What hands entry i on, or stops waiting to, keeps its count.
<1>7. ASSUME IsFiniteSet(tasks'), NEW i \in 1 .. Len(feed),
             calls'[i] + Cardinality(Pending(tasks', i)) + V(i)
               <= calls[i] + Cardinality(Pending(tasks, i)) + U(i)
      PROVE  Right(i)
  <2>1. calls'[i] \in Nat /\ calls[i] \in Nat /\ U(i) \in {0, 1} /\ V(i) \in {0, 1}
    BY <1>1, <1>2
  <2>2. Counts(calls[i], tasks, i, U(i), boots) /\ IsFiniteSet(tasks)
    BY <1>3
  <2> HIDE DEF U, V
  <2>3. Counts(calls'[i], tasks', i, V(i), boots')
    BY <1>7, <2>1, <2>2, CountsOn
  <2> QED
    BY <2>3
<1> HIDE DEF U, V, Right
\* Nothing is handed on, and nothing more can be.
<1>8. ASSUME calls' = calls, tasks' = tasks, feed' = feed, onEntry' => onEntry,
             \A i \in 1 .. Len(feed) : V(i) <= U(i)
      PROVE  CallsInv'
  <2>1. \A i \in 1 .. Len(feed) : Right(i)
    <3> SUFFICES ASSUME NEW i \in 1 .. Len(feed) PROVE Right(i)
      OBVIOUS
    <3>1. calls[i] \in Nat /\ Cardinality(Pending(tasks, i)) \in Nat /\ U(i) \in {0, 1} /\ V(i) \in {0, 1}
      BY <1>1, <1>2, <1>4
    <3>2. calls'[i] + Cardinality(Pending(tasks', i)) + V(i)
            <= calls[i] + Cardinality(Pending(tasks, i)) + U(i)
      BY <1>8, <3>1
    <3> QED
      BY <1>3, <1>7, <1>8, <3>2
  <2>2. onEntry' => Begun(boots') # {}
    BY <1>3, <1>8, StartsGrow
  <2> QED
    BY <1>3, <1>6, <1>8, <2>1, <2>2
<1>9. CASE Publish
  <2> DEFINE n == Len(feed) + 1
  <2>1. /\ calls' = calls /\ tasks' = tasks /\ boots' = boots /\ onEntry' = onEntry
        /\ seenEntries' = seenEntries /\ Len(feed') = n
    BY <1>9, PublishSteps DEF Publish, transport, agent
  <2>2. \A i \in 1 .. Len(feed) : Right(i)
    <3> SUFFICES ASSUME NEW i \in 1 .. Len(feed) PROVE Right(i)
      OBVIOUS
    <3>1. V(i) = U(i)
      BY <1>1, <2>1 DEF U, V, FeedGrows
    <3> QED
      BY <1>3, <2>1, <3>1 DEF Right
  <2>3. Right(n)
    <3>1. n \in 1 .. MaxEntries /\ calls'[n] = 0
      <4>1. Len(feed') <= MaxEntries
        BY FeedStep DEF FeedShape
      <4> QED
        BY <1>1, <1>3, <2>1, <4>1
    <3>2. Pending(tasks, n) = {}
      BY <1>1 DEF Pending, Shape, TaskShape
    <3>3. Cardinality(Pending(tasks', n)) = 0
      BY <2>1, <3>2, FS_EmptySet
    <3>4. V(n) = 1 => Begun(boots) # {}
      BY <1>3, <2>1 DEF V, Unheard
    <3>5. Begun(boots) \in SUBSET Starts /\ Spent(boots, n) \in SUBSET Starts
      BY DEF Begun, Spent
    <3>6. Cardinality(Begun(boots)) \in Nat /\ Cardinality(Spent(boots, n)) \in Nat
          /\ (Begun(boots) # {} => Cardinality(Begun(boots)) # 0)
      BY <3>5, SomeStarts, FS_EmptySet
    <3> QED
      BY <1>2, <2>1, <3>1, <3>3, <3>4, <3>6 DEF Right, Counts
  <2>4. \A i \in 1 .. Len(feed') : i \in 1 .. Len(feed) \/ i = n
    BY <1>1, <2>1
  <2>5. \A i \in 1 .. MaxEntries : i > Len(feed') => calls'[i] = 0
    BY <1>1, <1>3, <2>1
  <2> QED
    BY <1>3, <1>6, <2>1, <2>2, <2>3, <2>4, <2>5
<1>10. CASE Start
  <2>1. PICK k \in Starts : boots[k].pc = "idle" /\ boots' = [boots EXCEPT ![k].pc = "connect"]
    BY <1>10 DEF Start
  <2>2. feed' = feed /\ calls' = calls /\ tasks' = tasks
    BY <1>10 DEF Start, backend, agent
  <2>3. Begun(boots') = Begun(boots) \cup {k} /\ k \notin Begun(boots)
        /\ \A i : Spent(boots', i) = Spent(boots, i)
    <3>1. boots \in [Starts -> BootType]
      BY DEF Shape, BootShape
    <3>2. /\ \A h \in Starts : h # k => boots'[h] = boots[h]
          /\ boots'[k].pc = "connect" /\ boots'[k].did = boots[k].did
      BY <2>1, <3>1 DEF BootType
    <3> QED
      BY <2>1, <3>2 DEF Begun, Spent
  <2>4. Cardinality(Begun(boots')) = Cardinality(Begun(boots)) + 1 /\ Cardinality(Begun(boots)) \in Nat
    <3>1. Begun(boots) \in SUBSET Starts
      BY DEF Begun
    <3> QED
      BY <2>3, <3>1, SomeStarts, FS_AddElement
  <2>5. \A i \in 1 .. Len(feed) : Right(i)
    <3> SUFFICES ASSUME NEW i \in 1 .. Len(feed) PROVE Right(i)
      OBVIOUS
    <3>1. Cardinality(Spent(boots, i)) \in Nat
      <4>1. Spent(boots, i) \in SUBSET Starts
        BY DEF Spent
      <4> QED
        BY <4>1, SomeStarts
    <3>2. calls[i] \in Nat /\ Cardinality(Pending(tasks, i)) \in Nat /\ U(i) \in {0, 1} /\ V(i) \in {0, 1}
          /\ Counts(calls[i], tasks, i, U(i), boots)
      BY <1>1, <1>2, <1>3, <1>4
    <3> QED
      BY <2>2, <2>3, <2>4, <3>1, <3>2 DEF Right, Counts
  <2> QED
    BY <1>3, <1>6, <2>2, <2>3, <2>5
<1>11. ASSUME NEW e \in 1 .. Len(feed), Dispatch(e), feed' = feed, onEntry, onEntry' = onEntry,
              Key(feed[e]) \notin seenEntries, seenEntries' = seenEntries \cup {Key(feed[e])}
       PROVE  CallsInv'
  <2> DEFINE t == [sess |-> sessionMap'[feed[e].job], entry |-> e]
  <2>1. tasks' = tasks \cup {t} /\ calls' = calls
    BY <1>11, DispatchSteps
  <2>2. t.entry = e
    OBVIOUS
  <2> HIDE DEF t
  <2>3. IsFiniteSet(tasks')
    BY <1>3, <2>1, FS_AddElement
  <2>4. \A i \in 1 .. Len(feed) : Right(i)
    <3> SUFFICES ASSUME NEW i \in 1 .. Len(feed) PROVE Right(i)
      OBVIOUS
    <3>1. calls[i] \in Nat /\ Cardinality(Pending(tasks, i)) \in Nat /\ U(i) \in {0, 1} /\ V(i) \in {0, 1}
      BY <1>1, <1>2, <1>4
    <3>2. CASE i = e
      <4>1. U(e) = 1 /\ V(e) = 0
        BY <1>11 DEF U, V, Unheard
      <4>2. Pending(tasks', e) = Pending(tasks, e) \cup {t}
        BY <2>1, <2>2 DEF Pending
      <4>3. IsFiniteSet(Pending(tasks, e))
        BY <1>3, PendingFinite
      <4>4. Cardinality(Pending(tasks', e)) \in {Cardinality(Pending(tasks, e)), Cardinality(Pending(tasks, e)) + 1}
        BY <4>2, <4>3, FS_AddElement
      <4> QED
        BY <1>7, <2>1, <2>3, <3>1, <3>2, <4>1, <4>4
    <3>3. CASE i # e
      <4>1. Pending(tasks', i) = Pending(tasks, i)
        BY <2>1, <2>2, <3>3 DEF Pending
      <4>2. V(i) <= U(i)
        BY <1>11 DEF U, V, Unheard
      <4> QED
        BY <1>7, <2>1, <2>3, <3>1, <4>1, <4>2
    <3> QED
      BY <3>2, <3>3
  <2>5. onEntry' => Begun(boots') # {}
    BY <1>3, <1>11, StartsGrow
  <2> QED
    BY <1>3, <1>6, <1>11, <2>1, <2>3, <2>4, <2>5
<1>12. CASE Deliver
  <2>1. PICK k \in Starts :
           LET i == streams[k].next IN
           /\ i <= Len(feed)
           /\ IF streams[k].state = "open" \/ EntryKey(i) \in seenEntries
                THEN UNCHANGED <<seenEntries, agent>>
                ELSE /\ seenEntries' = seenEntries \cup {EntryKey(i)}
                     /\ IF onEntry THEN Dispatch(i) ELSE UNCHANGED agent
           /\ feed' = feed /\ onEntry' = onEntry
    BY <1>12 DEF Deliver, backend
  <2> DEFINE e == streams[k].next
  <2>2. e \in 1 .. Len(feed) /\ EntryKey(e) = Key(feed[e])
    BY <2>1 DEF Shape, StreamShape, EntryKey, Key, Kind
  <2>3. CASE UNCHANGED <<seenEntries, agent>>
    BY <1>1, <1>2, <1>8, <2>1, <2>3 DEF U, V, agent
  <2>4. CASE ~onEntry /\ UNCHANGED agent
    <3>1. \A i \in 1 .. Len(feed) : V(i) <= U(i)
      BY <2>1, <2>4 DEF U, V, Unheard
    <3> QED
      BY <1>8, <2>1, <2>4, <3>1 DEF agent
  <2>5. CASE onEntry /\ Dispatch(e) /\ EntryKey(e) \notin seenEntries
             /\ seenEntries' = seenEntries \cup {EntryKey(e)}
    BY <1>11, <2>1, <2>2, <2>5
  <2> QED
    BY <2>1, <2>3, <2>4, <2>5
<1>13. CASE DispatchSettles
  <2>1. PICK t \in tasks : tasks' = tasks \ {t} /\ (FireHandler(t.sess, t.entry) \/ UNCHANGED calls)
    BY <1>13 DEF DispatchSettles
  <2>2. feed' = feed /\ onEntry' = onEntry /\ seenEntries' = seenEntries /\ boots' = boots
    BY <1>13 DEF DispatchSettles, backend, transport
  <2>3. t.entry \in 1 .. Len(feed) /\ t.entry \in 1 .. MaxEntries
    BY <1>1 DEF Shape, TaskShape
  <2>4. /\ calls'[t.entry] <= calls[t.entry] + 1
        /\ \A i \in 1 .. MaxEntries : i # t.entry => calls'[i] = calls[i]
    <3>1. calls' = calls \/ calls' = [calls EXCEPT ![t.entry] = @ + 1]
      BY <2>1 DEF FireHandler
    <3>2. calls[t.entry] \in Nat
      BY <1>1, <2>3
    <3>3. CASE calls' = calls
      BY <3>2, <3>3
    <3>4. CASE calls' = [calls EXCEPT ![t.entry] = @ + 1]
      BY <1>1, <2>3, <3>2, <3>4
    <3> QED
      BY <3>1, <3>3, <3>4
  <2>5. IsFiniteSet(tasks')
    BY <1>3, <2>1, FS_RemoveElement
  <2>6. \A i \in 1 .. Len(feed) : Right(i)
    <3> SUFFICES ASSUME NEW i \in 1 .. Len(feed) PROVE Right(i)
      OBVIOUS
    <3>1. /\ calls[i] \in Nat /\ calls'[i] \in Nat /\ Cardinality(Pending(tasks, i)) \in Nat
          /\ U(i) \in {0, 1} /\ V(i) = U(i) /\ i \in 1 .. MaxEntries
      BY <1>1, <1>2, <1>4, <2>2 DEF U, V
    <3>2. CASE i = t.entry
      <4>1. Pending(tasks', i) = Pending(tasks, i) \ {t} /\ t \in Pending(tasks, i)
        BY <2>1, <3>2 DEF Pending
      <4>2. IsFiniteSet(Pending(tasks, i))
        BY <1>3, PendingFinite
      <4>3. Cardinality(Pending(tasks', i)) = Cardinality(Pending(tasks, i)) - 1
        BY <4>1, <4>2, FS_RemoveElement
      <4>4. calls'[i] <= calls[i] + 1
        BY <2>4, <3>2
      <4> QED
        BY <1>7, <2>5, <3>1, <4>3, <4>4
    <3>3. CASE i # t.entry
      <4>1. Pending(tasks', i) = Pending(tasks, i)
        BY <2>1, <3>3 DEF Pending
      <4>2. calls'[i] = calls[i]
        BY <2>4, <3>1, <3>3
      <4> QED
        BY <1>7, <2>5, <3>1, <4>1, <4>2
    <3> QED
      BY <3>2, <3>3
  <2>7. \A i \in 1 .. MaxEntries : i > Len(feed') => calls'[i] = 0
    BY <1>1, <1>3, <2>2, <2>3, <2>4
  <2> QED
    BY <1>3, <1>6, <2>2, <2>5, <2>6, <2>7
<1>14. CASE HydrateRoom
  <2>1. PICK k \in Starts, b \in BootType :
           boots' = [boots EXCEPT ![k] = b] /\ feed' = feed /\ Finishing(boots[k], b)
    BY <1>14, FinishMoves
  <2> DEFINE old == boots[k]
             e == Last(old.hist)
             d == [sess |-> old.sess, entry |-> e]
  <2>2. UNCHANGED <<onEntry, seenEntries, tasks>>
    BY <1>14 DEF HydrateRoom, transport
  <2>3. old \in BootType /\ BootFits(old, feed, sessions) /\ HydratesOnce(old, feed)
        /\ boots \in [Starts -> BootType]
    BY DEF Shape, BootShape, CallsInv
  <2>4. /\ old.hist # <<>> /\ old.hist \in Seq(Nat) /\ Belong(old.hist, feed[old.hist[1]].job, feed)
        /\ b.did = old.did \cup {d} /\ FireHandler(old.sess, e)
    BY <2>1, <2>3 DEF BootFits, Finishing, BootType
  <2>5. e \in 1 .. Len(feed) /\ feed[e].job = feed[old.hist[1]].job /\ e \in 1 .. MaxEntries
    <3> DEFINE n == Len(old.hist)
    <3>1. n \in 1 .. n /\ e = old.hist[n]
      BY <2>4 DEF Last
    <3>2. old.hist[n] \in 1 .. Len(feed) /\ feed[old.hist[n]].job = feed[old.hist[1]].job
      <4> HIDE DEF old
      <4> QED
        BY <2>4, <3>1 DEF Belong
    <3>3. e \in 1 .. Len(feed) /\ feed[e].job = feed[old.hist[1]].job
      <4> HIDE DEF old, e, n
      <4> QED
        BY <3>1, <3>2
    <3>4. e \in 1 .. MaxEntries
      <4> HIDE DEF old, e, n
      <4> QED
        BY <1>1, <3>3
    <3> QED
      BY <3>3, <3>4
  <2>6. d.entry = e
    OBVIOUS
  <2>7. k \notin Spent(boots, e)
    BY <2>3, <2>4, <2>5 DEF Spent, HydratesOnce
  <2> HIDE DEF d, e
  <2>8. Spent(boots', e) = Spent(boots, e) \cup {k}
    <3>1. \A h \in Starts : boots'[h] = IF h = k THEN b ELSE boots[h]
      BY <2>1, <2>3
    <3> QED
      BY <2>4, <2>6, <3>1 DEF Spent
  <2>9. /\ calls'[e] <= calls[e] + 1
        /\ \A i \in 1 .. MaxEntries : i # e => calls'[i] = calls[i]
    <3>1. calls' = calls \/ calls' = [calls EXCEPT ![e] = @ + 1]
      BY <2>4 DEF FireHandler
    <3>2. calls[e] \in Nat
      BY <1>1, <2>5
    <3>3. CASE calls' = calls
      BY <3>2, <3>3
    <3>4. CASE calls' = [calls EXCEPT ![e] = @ + 1]
      BY <1>1, <2>5, <3>2, <3>4
    <3> QED
      BY <3>1, <3>3, <3>4
  <2>10. ASSUME NEW i \in 1 .. Len(feed), i # e PROVE Right(i)
    <3>1. calls'[i] = calls[i] /\ calls[i] \in Nat /\ Cardinality(Pending(tasks, i)) \in Nat
          /\ U(i) \in {0, 1} /\ V(i) = U(i)
      BY <1>1, <1>2, <1>3, <1>4, <2>1, <2>2, <2>9, <2>10 DEF U, V
    <3> QED
      BY <1>3, <1>7, <2>2, <3>1
  <2>11. Right(e)
    <3>1. Spent(boots, e) \in SUBSET Starts /\ Begun(boots) \in SUBSET Starts /\ Begun(boots') \in SUBSET Starts
      BY DEF Spent, Begun
    <3>2. Cardinality(Spent(boots', e)) = Cardinality(Spent(boots, e)) + 1
          /\ Cardinality(Spent(boots, e)) \in Nat
      BY <2>7, <2>8, <3>1, SomeStarts, FS_AddElement
    <3>3. Cardinality(Begun(boots)) <= Cardinality(Begun(boots'))
      BY <3>1, StartsGrow, SomeStarts, FS_Subset
    <3>4. Cardinality(Begun(boots)) \in Nat /\ Cardinality(Begun(boots')) \in Nat
      BY <3>1, SomeStarts
    <3>5. /\ calls[e] \in Nat /\ calls'[e] \in Nat /\ Cardinality(Pending(tasks, e)) \in Nat
          /\ U(e) \in {0, 1} /\ V(e) = U(e) /\ Counts(calls[e], tasks, e, U(e), boots)
      BY <1>1, <1>2, <1>3, <1>4, <2>1, <2>2, <2>5 DEF U, V
    <3> QED
      BY <2>2, <2>9, <3>2, <3>3, <3>4, <3>5 DEF Right, Counts
  <2>12. \A i \in 1 .. MaxEntries : i > Len(feed') => calls'[i] = 0
    BY <1>1, <1>3, <2>1, <2>5, <2>9
  <2>13. onEntry' => Begun(boots') # {}
    BY <1>3, <2>2, StartsGrow
  <2> QED
    BY <1>3, <1>6, <2>1, <2>2, <2>10, <2>11, <2>12, <2>13
<1>15. CASE Stop
  <2>1. calls' = calls /\ tasks' = tasks /\ feed' = feed
    BY <1>15 DEF Stop, backend
  <2>2. onEntry' = FALSE \/ (onEntry' = onEntry /\ seenEntries' = seenEntries)
    BY <1>15 DEF Stop, transport
  <2>3. \A i \in 1 .. Len(feed) : V(i) <= U(i)
    BY <2>1, <2>2 DEF U, V, Unheard
  <2> QED
    BY <1>8, <2>1, <2>2, <2>3
<1>16. ASSUME UNCHANGED <<calls, tasks, feed, onEntry, seenEntries>>
       PROVE  CallsInv'
  <2>1. \A i \in 1 .. Len(feed) : V(i) <= U(i)
    BY <1>16 DEF U, V, Unheard
  <2> QED
    BY <1>8, <1>16, <2>1
<1>17. ASSUME ~ Publish, ~ Start, ~ Deliver, ~ DispatchSettles, ~ HydrateRoom, ~ Stop
       PROVE  UNCHANGED <<calls, tasks, feed, onEntry, seenEntries>>
  BY <1>17 DEF Next, Network, vars, backend, transport, agent, Reconnect, ConnectFails,
     HydrationFails, OpenStream, Connected, ListJobs, ReadHistory, Adopt
<1> QED
  BY <1>9, <1>10, <1>12, <1>13, <1>14, <1>15, <1>16, <1>17

LEMMA CallsTell ==
  ASSUME Shape, CallsInv
  PROVE  TwiceAtMost
<1> SUFFICES ASSUME NEW i \in 1 .. Len(feed) PROVE calls[i] <= 2 * MaxStarts
  BY DEF TwiceAtMost, Shape, FeedShape
<1>1. i \in 1 .. MaxEntries /\ MaxStarts \in Nat
  BY ConstantsAssumption DEF Shape, FeedShape
<1>2. calls[i] \in Nat
  BY <1>1 DEF Shape, CallShape
<1>3. Cardinality(Pending(tasks, i)) \in Nat
  BY PendingFinite DEF CallsInv
<1>4. Begun(boots) \in SUBSET Starts /\ Spent(boots, i) \in SUBSET Starts
  BY DEF Begun, Spent
<1>5. /\ Cardinality(Begun(boots)) \in Nat /\ Cardinality(Begun(boots)) <= MaxStarts
      /\ Cardinality(Spent(boots, i)) \in Nat /\ Cardinality(Spent(boots, i)) <= MaxStarts
  BY <1>4, SomeStarts
<1> DEFINE u == Unheard(onEntry, seenEntries, feed[i])
<1>6. u \in {0, 1} /\ Counts(calls[i], tasks, i, u, boots)
  BY DEF Unheard, CallsInv, Counted
<1> HIDE DEF u
<1> QED
  BY <1>1, <1>2, <1>3, <1>5, <1>6 DEF Counts

\* No entry reaches the handler more than twice per start(), however often the
\* server resends it and however the agent is stopped and started.
THEOREM TwiceCorrect == Spec => []TwiceAtMost
<1> DEFINE Inv == Shape /\ CallsInv
<1>1. Init => Inv
  <2>1. Init => \A k \in Starts : HydratesOnce(boots[k], feed)
    BY DEF Init, NoBoot, HydratesOnce
  <2>2. Init => IsFiniteSet(tasks) /\ Len(feed) = 0
    BY FS_EmptySet DEF Init
  <2>3. Init => \A i \in 1 .. MaxEntries : calls[i] = 0
    BY DEF Init
  <2>4. Init => onEntry = FALSE
    BY DEF Init
  <2> QED
    BY <2>1, <2>2, <2>3, <2>4, ShapeInit DEF CallsInv, Counted
<1>2. Inv /\ [Next]_vars => Inv'
  BY ShapeStep, CallsStep
<1>3. Inv => TwiceAtMost
  BY CallsTell
<1> QED
  BY <1>1, <1>2, <1>3, PTL DEF Spec
=============================================================================
