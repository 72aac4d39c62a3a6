--------------------------- MODULE OneLifeProofs ---------------------------
(***************************************************************************)
(* What AgentSessions guarantees an agent that is started once, for any    *)
(* jobs, roles, losses and entries: a session is its room's history, then  *)
(* what came live, with nothing twice in either (OneOverlap); and, if the  *)
(* server resends what a lost connection missed, a session that knows the  *)
(* beginning of its room misses nothing (Follows).                         *)
(*                                                                         *)
(* Both are about one stream and one hydration, so the steps are first     *)
(* told as moves of the two (LifeChange); the invariants are then stated   *)
(* on them: where a session's entries turn from history to stream          *)
(* (TwoRuns), and from which entry on the agent has heard everything       *)
(* (Heard).                                                                *)
(***************************************************************************)
EXTENDS AgentSessionsProofs

\* The agent is started once: start() is called at most once in its life.
OneStart == MaxStarts = 1

-----------------------------------------------------------------------------
(* What a step does to the one stream and the one hydration.               *)

Unmoved == UNCHANGED <<feed, sessions, sessionMap>>

Rests == Unmoved /\ UNCHANGED <<streams, boots, seenEntries, onEntry, started>>

Publishes ==
  /\ UNCHANGED <<streams, boots, seenEntries, onEntry, started, sessions, sessionMap>>
  /\ Publish

Begins ==
  /\ Unmoved /\ seenEntries' = seenEntries /\ started' = TRUE /\ onEntry' = TRUE
  /\ boots[1].pc = "idle" /\ boots'[1].pc = "connect" /\ boots'[1].hist = boots[1].hist
  /\ streams'[1] = [streams[1] EXCEPT !.state = "opening"]

Accepted ==
  /\ Unmoved /\ UNCHANGED <<boots, seenEntries, onEntry, started>>
  /\ streams[1].state = "opening"
  /\ streams'[1] = [state |-> "open", next |-> Len(feed) + 1, last |-> 0]

Resends ==
  /\ Unmoved /\ UNCHANGED <<boots, seenEntries, onEntry, started>>
  /\ streams[1].state \in {"open", "listening"}
  /\ \E n \in IF ~Replays THEN {Len(feed) + 1}
              ELSE IF streams[1].last = 0 THEN {streams[1].next}
                   ELSE {streams[1].last, streams[1].last + 1} :
       streams'[1] = [streams[1] EXCEPT !.next = n]

\* Entry i arrives; it is dropped or dispatched.
Arrives(i) ==
  /\ feed' = feed /\ UNCHANGED <<boots, onEntry, started>>
  /\ i = streams[1].next /\ i \in 1 .. Len(feed)
  /\ streams[1].state \in {"open", "listening"}
  /\ streams'[1] = [state |-> streams[1].state, next |-> i + 1, last |-> i]

Drops(i) ==
  /\ Arrives(i) /\ Unmoved
  /\ \/ seenEntries' = seenEntries /\ (streams[1].state = "open" \/ Key(feed[i]) \in seenEntries)
     \/ /\ seenEntries' = seenEntries \cup {Key(feed[i])}
        /\ streams[1].state = "listening" /\ ~ onEntry

Takes(i) ==
  /\ Arrives(i) /\ Dispatch(i)
  /\ streams[1].state = "listening" /\ onEntry
  /\ Key(feed[i]) \notin seenEntries /\ seenEntries' = seenEntries \cup {Key(feed[i])}

GivesUp ==
  /\ Unmoved /\ UNCHANGED <<seenEntries, onEntry, started>>
  /\ boots[1].pc = "connect" /\ boots'[1].pc = "failed" /\ boots'[1].hist = boots[1].hist
  /\ \E state \in {"closed", streams[1].state} : streams'[1] = [streams[1] EXCEPT !.state = state]

Connects ==
  /\ Unmoved /\ UNCHANGED <<seenEntries, onEntry, started>>
  /\ boots[1].pc = "connect" /\ boots'[1].pc = (IF started THEN "jobs" ELSE "done")
  /\ boots'[1].hist = boots[1].hist
  /\ streams[1].state = "open" /\ streams'[1] = [streams[1] EXCEPT !.state = "listening"]

Hydrates ==
  /\ Unmoved /\ UNCHANGED <<streams, seenEntries, onEntry, started>>
  /\ \/ Listing(boots[1], boots'[1])
     \/ \E j \in boots[1].todo : Reading(boots[1], boots'[1], j)
     \/ Finishing(boots[1], boots'[1])
     \/ Failing(boots[1], boots'[1])

Adopts ==
  /\ feed' = feed /\ UNCHANGED <<streams, seenEntries, onEntry, started>>
  /\ Adopting(boots[1], boots'[1]) /\ boots[1].hist # <<>> /\ RoomOf(boots[1]) \in Jobs
  /\ \/ sessionMap[RoomOf(boots[1])] # 0 /\ Unmoved
     \/ /\ sessionMap[RoomOf(boots[1])] = 0
        /\ sessions' = Append(sessions, NewSession(RoomOf(boots[1]), boots[1].hist))
        /\ sessionMap' = [sessionMap EXCEPT ![RoomOf(boots[1])] = Len(sessions) + 1]

Stops ==
  /\ feed' = feed /\ sessions' = sessions /\ boots' = boots
  /\ boots[1].pc # "idle"
  /\ sessionMap' = [j \in Jobs |-> 0] /\ started' = FALSE
  /\ \E state \in {"closed", streams[1].state} : streams'[1] = [streams[1] EXCEPT !.state = state]
  /\ \/ seenEntries' = {} /\ onEntry' = FALSE
     \/ ~ started /\ UNCHANGED <<seenEntries, onEntry>>

LEMMA OnlyOne ==
  ASSUME OneStart, Shape
  PROVE  /\ Starts = {1} /\ \A k \in Starts : k = 1
         /\ streams[1] \in StreamType /\ boots[1] \in BootType /\ BootFits(boots[1], feed, sessions)
         /\ streams[1].next \in 1 .. Len(feed) + 1 /\ streams[1].last \in 0 .. Len(feed)
         /\ Len(feed) \in Nat
         /\ boots \in [Starts -> BootType] /\ streams \in [Starts -> StreamType]
<1>1. Starts = {1}
  BY DEF OneStart, Starts
<1>2. 1 \in Starts
  BY <1>1
<1> QED
  BY <1>1, <1>2 DEF Shape, StreamShape, BootShape, FeedShape

\* One field of the one stream changes.
LEMMA StreamField ==
  ASSUME OneStart, Shape, NEW k \in Starts
  PROVE  /\ \A x : streams' = [streams EXCEPT ![k].state = x]
                     => streams'[1] = [streams[1] EXCEPT !.state = x]
         /\ \A x : streams' = [streams EXCEPT ![k].next = x]
                     => streams'[1] = [streams[1] EXCEPT !.next = x]
         /\ \A x : streams' = [streams EXCEPT ![k] = x] => streams'[1] = x
<1>1. k = 1 /\ 1 \in Starts /\ streams \in [Starts -> StreamType]
  BY OnlyOne
<1> QED
  BY <1>1

LEMMA BootPc ==
  ASSUME OneStart, Shape, NEW k \in Starts, NEW p \in PcType, boots' = [boots EXCEPT ![k].pc = p]
  PROVE  boots'[1].pc = p /\ boots'[1].hist = boots[1].hist
<1>1. k = 1 /\ 1 \in Starts /\ boots \in [Starts -> BootType] /\ boots[1] \in BootType
  BY OnlyOne
<1>2. boots'[1] = [boots[1] EXCEPT !.pc = p]
  BY <1>1
<1> QED
  BY <1>1, <1>2, BootField

LEMMA StartBegins ==
  ASSUME OneStart, Shape, Start
  PROVE  Begins
<1>1. PICK k \in Starts :
        /\ boots[k].pc = "idle" /\ boots' = [boots EXCEPT ![k].pc = "connect"]
        /\ streams' = [streams EXCEPT ![k].state = "opening"]
  BY DEF Start
<1>2. k = 1
  BY OnlyOne
<1>3. streams'[1] = [streams[1] EXCEPT !.state = "opening"]
  BY <1>1, StreamField
<1>4. boots'[1].pc = "connect" /\ boots'[1].hist = boots[1].hist
  <2>1. "connect" \in PcType
    BY DEF PcType
  <2> QED
    BY <1>1, <2>1, BootPc
<1>5. Unmoved /\ seenEntries' = seenEntries /\ started' = TRUE /\ onEntry' = TRUE
  BY DEF Start, backend, agent, Unmoved
<1> QED
  BY <1>1, <1>2, <1>3, <1>4, <1>5 DEF Begins

LEMMA OpenAccepts ==
  ASSUME OneStart, Shape, OpenStream
  PROVE  Accepted
<1>1. PICK k \in Starts :
        /\ streams[k].state = "opening"
        /\ streams' = [streams EXCEPT ![k] = [state |-> "open", next |-> Len(feed) + 1, last |-> 0]]
  BY DEF OpenStream
<1>2. k = 1
  BY OnlyOne
<1>3. streams'[1] = [state |-> "open", next |-> Len(feed) + 1, last |-> 0]
  BY <1>1, StreamField
<1>4. Unmoved /\ UNCHANGED <<boots, seenEntries, onEntry, started>>
  BY DEF OpenStream, backend, agent, Unmoved
<1> QED
  BY <1>1, <1>2, <1>3, <1>4 DEF Accepted

LEMMA ReconnectResends ==
  ASSUME OneStart, Shape, Reconnect
  PROVE  Resends
<1>1. PICK k \in Starts :
        /\ streams[k].state \in {"open", "listening"}
        /\ \E n \in IF ~Replays THEN {Len(feed) + 1}
                    ELSE IF streams[k].last = 0 THEN {streams[k].next}
                         ELSE {streams[k].last, streams[k].last + 1} :
             streams' = [streams EXCEPT ![k].next = n]
  BY DEF Reconnect
<1>2. k = 1
  BY OnlyOne
<1>3. \A n : streams' = [streams EXCEPT ![k].next = n] => streams'[1] = [streams[1] EXCEPT !.next = n]
  BY <1>1, StreamField
<1>4. Unmoved /\ UNCHANGED <<boots, seenEntries, onEntry, started>>
  BY DEF Reconnect, agent, Unmoved
<1> QED
  BY <1>1, <1>2, <1>3, <1>4 DEF Resends

LEMMA DeliverArrives ==
  ASSUME OneStart, Shape, Deliver
  PROVE  \E i \in 1 .. Len(feed) : Drops(i) \/ Takes(i)
<1>1. PICK k \in Starts :
        /\ streams[k].state \in {"open", "listening"}
        /\ streams[k].next <= Len(feed)
        /\ streams' = [streams EXCEPT ![k].next = streams[k].next + 1, ![k].last = streams[k].next]
        /\ IF streams[k].state = "open" \/ EntryKey(streams[k].next) \in seenEntries
             THEN UNCHANGED <<seenEntries, agent>>
             ELSE /\ seenEntries' = seenEntries \cup {EntryKey(streams[k].next)}
                  /\ IF onEntry THEN Dispatch(streams[k].next) ELSE UNCHANGED agent
        /\ UNCHANGED <<backend, es, onEntry, started, boots>>
  BY DEF Deliver
<1>2. k = 1 /\ 1 \in Starts /\ streams \in [Starts -> StreamType] /\ streams[1] \in StreamType
      /\ streams[1].next \in 1 .. Len(feed) + 1 /\ Len(feed) \in Nat
  BY OnlyOne
<1> DEFINE i == streams[1].next
<1>3. i \in 1 .. Len(feed)
  BY <1>1, <1>2
<1>4. streams'[1] = [state |-> streams[1].state, next |-> i + 1, last |-> i]
  <2>1. streams'[1] = [streams[1] EXCEPT !.next = i + 1, !.last = i]
    <3> SUFFICES ASSUME NEW f \in [Starts -> StreamType], NEW x, NEW y
                 PROVE  [f EXCEPT ![1].next = x, ![1].last = y][1] = [f[1] EXCEPT !.next = x, !.last = y]
      BY <1>1, <1>2
    <3> QED
      BY <1>2 DEF StreamType
  <2> HIDE DEF i
  <2> QED
    BY <1>2, <2>1 DEF StreamType
<1>5. feed' = feed /\ UNCHANGED <<boots, onEntry, started>>
  BY <1>1 DEF backend
<1>6. Arrives(i)
  BY <1>1, <1>2, <1>3, <1>4, <1>5 DEF Arrives
<1>7. EntryKey(i) = Key(feed[i])
  BY DEF EntryKey, Key, Kind
<1>8. CASE streams[1].state = "open" \/ EntryKey(i) \in seenEntries
  <2>1. Unmoved /\ seenEntries' = seenEntries
    BY <1>1, <1>2, <1>5, <1>8 DEF agent, Unmoved
  <2> QED
    BY <1>3, <1>6, <1>7, <1>8, <2>1 DEF Drops
<1>9. CASE ~ (streams[1].state = "open" \/ EntryKey(i) \in seenEntries) /\ ~ onEntry
  <2>1. Unmoved /\ seenEntries' = seenEntries \cup {Key(feed[i])} /\ streams[1].state = "listening"
    BY <1>1, <1>2, <1>5, <1>7, <1>9 DEF agent, Unmoved
  <2> QED
    BY <1>3, <1>6, <1>9, <2>1 DEF Drops
<1>10. CASE ~ (streams[1].state = "open" \/ EntryKey(i) \in seenEntries) /\ onEntry
  <2>1. Dispatch(i) /\ seenEntries' = seenEntries \cup {Key(feed[i])} /\ streams[1].state = "listening"
    BY <1>1, <1>2, <1>7, <1>10
  <2> QED
    BY <1>3, <1>6, <1>7, <1>10, <2>1 DEF Takes
<1> QED
  BY <1>8, <1>9, <1>10

LEMMA ConnectingEnds ==
  ASSUME OneStart, Shape
  PROVE  (ConnectFails => GivesUp) /\ (Connected => Connects)
<1>1. "failed" \in PcType /\ "jobs" \in PcType /\ "done" \in PcType
  BY DEF PcType
<1>2. ASSUME ConnectFails PROVE GivesUp
  <2>1. PICK k \in Starts :
          /\ boots[k].pc = "connect" /\ boots' = [boots EXCEPT ![k].pc = "failed"]
          /\ \E state \in {"closed", streams[k].state} : streams' = [streams EXCEPT ![k].state = state]
    BY <1>2 DEF ConnectFails
  <2>2. k = 1
    BY OnlyOne
  <2>3. \A x : streams' = [streams EXCEPT ![k].state = x] => streams'[1] = [streams[1] EXCEPT !.state = x]
    BY StreamField
  <2>4. boots'[1].pc = "failed" /\ boots'[1].hist = boots[1].hist
    BY <1>1, <2>1, BootPc
  <2>5. Unmoved /\ UNCHANGED <<seenEntries, onEntry, started>>
    BY <1>2 DEF ConnectFails, backend, agent, Unmoved
  <2> QED
    BY <2>1, <2>2, <2>3, <2>4, <2>5 DEF GivesUp
<1>3. ASSUME Connected PROVE Connects
  <2>1. PICK k \in Starts :
          /\ boots[k].pc = "connect" /\ streams[k].state = "open"
          /\ streams' = [streams EXCEPT ![k].state = "listening"]
          /\ boots' = [boots EXCEPT ![k].pc = IF started THEN "jobs" ELSE "done"]
    BY <1>3 DEF Connected
  <2>2. k = 1
    BY OnlyOne
  <2>3. streams'[1] = [streams[1] EXCEPT !.state = "listening"]
    BY <2>1, StreamField
  <2>4. boots'[1].pc = (IF started THEN "jobs" ELSE "done") /\ boots'[1].hist = boots[1].hist
    <3>1. CASE started
      <4>1. boots' = [boots EXCEPT ![k].pc = "jobs"]
        BY <2>1, <3>1
      <4> QED
        BY <1>1, <3>1, <4>1, BootPc
    <3>2. CASE ~ started
      <4>1. boots' = [boots EXCEPT ![k].pc = "done"]
        BY <2>1, <3>2
      <4> QED
        BY <1>1, <3>2, <4>1, BootPc
    <3> QED
      BY <3>1, <3>2
  <2>5. Unmoved /\ UNCHANGED <<seenEntries, onEntry, started>>
    BY <1>3 DEF Connected, backend, agent, Unmoved
  <2> QED
    BY <2>1, <2>2, <2>3, <2>4, <2>5 DEF Connects
<1> QED
  BY <1>2, <1>3

\* A step of the one start() changes its record as BootChange tells.
LEMMA OneBootMoves ==
  ASSUME OneStart, Shape, [Next]_vars
  PROVE  UNCHANGED boots \/ BootMove(boots[1], boots'[1])
<1>1. \A k \in Starts : k = 1 /\ 1 \in Starts /\ boots \in [Starts -> BootType]
  BY OnlyOne
<1>2. ASSUME NEW k \in Starts, NEW b \in BootType, boots' = [boots EXCEPT ![k] = b], BootMove(boots[k], b)
      PROVE  BootMove(boots[1], boots'[1])
  <2>1. boots'[1] = b /\ k = 1
    BY <1>1, <1>2
  <2> QED
    BY <1>2, <2>1
<1> QED
  BY <1>2, BootChange

LEMMA HydrationMoves ==
  ASSUME OneStart, Shape, [Next]_vars, ListJobs \/ ReadHistory \/ HydrateRoom \/ HydrationFails
  PROVE  Rests \/ Hydrates
<1>1. boots[1].pc \in {"jobs", "history", "fetch"}
  <2>1. \E k \in Starts : boots[k].pc \in {"jobs", "history", "fetch"}
    BY DEF ListJobs, ReadHistory, HydrateRoom, HydrationFails
  <2> QED
    BY <2>1, OnlyOne
<1>2. Unmoved /\ UNCHANGED <<streams, seenEntries, onEntry, started>>
  BY DEF ListJobs, ReadHistory, HydrateRoom, HydrationFails, backend, transport, agent, Unmoved
<1>3. CASE UNCHANGED boots
  BY <1>2, <1>3 DEF Rests
<1>4. CASE BootMove(boots[1], boots'[1])
  BY <1>1, <1>2, <1>4 DEF BootMove, Hydrates, Starting, Settling, Adopting
<1> QED
  BY <1>3, <1>4, OneBootMoves

LEMMA AdoptAdopts ==
  ASSUME OneStart, Shape, [Next]_vars, Adopt
  PROVE  Adopts
<1>1. PICK k \in Starts :
        LET j == feed[Head(boots[k].hist)].job
            new == sessionMap[j] = 0
        IN /\ boots[k].pc = "adopt"
           /\ sessions' = IF new THEN Append(sessions, NewSession(j, boots[k].hist)) ELSE sessions
           /\ sessionMap' = IF new THEN [sessionMap EXCEPT ![j] = Len(sessions) + 1] ELSE sessionMap
           /\ boots' = [boots EXCEPT ![k].pc = "fetch", ![k].sess = sessionMap'[j]]
  BY DEF Adopt
<1>2. k = 1 /\ 1 \in Starts /\ boots \in [Starts -> BootType] /\ boots[1] \in BootType
      /\ BootFits(boots[1], feed, sessions)
  BY OnlyOne
<1>3. boots[1].hist \in Seq(Nat) /\ boots[1].hist # <<>> /\ Head(boots[1].hist) = boots[1].hist[1]
      /\ 1 \in 1 .. Len(boots[1].hist)
  <2>1. boots[1].hist \in Seq(Nat) /\ boots[1].hist # <<>>
    BY <1>1, <1>2 DEF BootFits, BootType
  <2> QED
    BY <2>1
<1>4. RoomOf(boots[1]) \in Jobs
  <2>1. boots[1].hist[1] \in 1 .. Len(feed)
    BY <1>2, <1>3 DEF BootFits, Belong
  <2>2. feed[boots[1].hist[1]] \in EntryType
    BY <2>1 DEF Shape, FeedShape
  <2> QED
    BY <2>2 DEF RoomOf, EntryType
<1>5. ~ UNCHANGED boots
  <2>1. ASSUME NEW f \in [Starts -> BootType], NEW y
        PROVE  [f EXCEPT ![1].pc = "fetch", ![1].sess = y][1].pc = "fetch"
    BY <1>2, <2>1 DEF BootType
  <2>2. boots'[1].pc = "fetch"
    BY <1>1, <1>2, <2>1
  <2> QED
    BY <1>1, <1>2, <2>2
<1>6. BootMove(boots[1], boots'[1])
  BY <1>5, OneBootMoves
<1>7. Adopting(boots[1], boots'[1])
  BY <1>1, <1>2, <1>6 DEF BootMove, Starting, Settling, Listing, Reading, Finishing, Failing
<1>8. UNCHANGED <<feed, streams, seenEntries, onEntry, started>>
  BY DEF Adopt, backend, transport
<1>9. /\ sessions' = IF sessionMap[RoomOf(boots[1])] = 0
                       THEN Append(sessions, NewSession(RoomOf(boots[1]), boots[1].hist)) ELSE sessions
      /\ sessionMap' = IF sessionMap[RoomOf(boots[1])] = 0
                         THEN [sessionMap EXCEPT ![RoomOf(boots[1])] = Len(sessions) + 1] ELSE sessionMap
  BY <1>1, <1>2, <1>3 DEF RoomOf
<1> QED
  BY <1>3, <1>4, <1>7, <1>8, <1>9 DEF Adopts, Unmoved

LEMMA StopStops ==
  ASSUME OneStart, Shape, Stop
  PROVE  Stops
<1>1. boots[1].pc # "idle"
  BY OnlyOne DEF Stop
<1>2. \E state \in {"closed", streams[1].state} : streams'[1] = [streams[1] EXCEPT !.state = state]
  <2>1. streams[1] = [streams[1] EXCEPT !.state = streams[1].state]
    BY OnlyOne DEF StreamType
  <2>2. CASE streams' = streams
    BY <2>1, <2>2
  <2>3. CASE streams' = [streams EXCEPT ![es].state = "closed"] /\ es # 0
    <3>1. es \in Starts
      BY <2>3, ConstantsAssumption DEF Shape, StreamShape, Starts
    <3> QED
      BY <2>3, <3>1, StreamField
  <2> QED
    BY <2>2, <2>3 DEF Stop, transport
<1>3. feed' = feed /\ sessions' = sessions /\ boots' = boots /\ sessionMap' = [j \in Jobs |-> 0]
      /\ started' = FALSE
  BY DEF Stop, backend
<1>4. \/ seenEntries' = {} /\ onEntry' = FALSE
      \/ ~ started /\ UNCHANGED <<seenEntries, onEntry>>
  BY DEF Stop, transport
<1> QED
  BY <1>1, <1>2, <1>3, <1>4 DEF Stops

\* Every step is one of these moves.
LEMMA LifeChange ==
  ASSUME OneStart, Shape, [Next]_vars
  PROVE  \/ Rests \/ Publishes \/ Begins \/ Accepted \/ Resends
         \/ \E i \in 1 .. Len(feed) : Drops(i) \/ Takes(i)
         \/ GivesUp \/ Connects \/ Hydrates \/ Adopts \/ Stops
<1>1. CASE Publish
  BY <1>1 DEF Publish, Publishes, transport, agent
<1>2. CASE Start \/ OpenStream \/ Reconnect \/ Deliver \/ ConnectFails \/ Connected \/ Stop
  BY <1>2, StartBegins, OpenAccepts, ReconnectResends, DeliverArrives, ConnectingEnds, StopStops
<1>3. CASE ListJobs \/ ReadHistory \/ HydrateRoom \/ HydrationFails \/ Adopt
  BY <1>3, HydrationMoves, AdoptAdopts
<1>4. CASE DispatchSettles \/ UNCHANGED vars
  BY <1>4 DEF DispatchSettles, vars, backend, transport, agent, Rests, Unmoved
<1> QED
  BY <1>1, <1>2, <1>3, <1>4 DEF Next, Network

-----------------------------------------------------------------------------
(* History first, then what came live.                                     *)

\* The stream is behind what it was sent, does nothing before start(), and
\* a history is in the room's order.
StreamOrder ==
  /\ streams[1].state \in {"none", "opening"} => streams[1].last = 0
  /\ streams[1].last <= streams[1].next
  /\ boots[1].pc = "idle" => streams[1].state = "none"
  /\ Ascends(boots[1].hist)

\* What a stream does while its agent is not stopped.
StreamMoves(t, u) ==
  /\ t.state \in {"listening", "closed"} => u.state \in {"listening", "closed"}
  /\ u.state = "listening" => t.state # "closed"
  /\ t.last <= u.last

LEMMA HistoryAscends ==
  ASSUME OneStart, Shape, Ascends(boots[1].hist), Hydrates
  PROVE  Ascends(boots'[1].hist)
<1>1. Ascends(<<>>)
  BY DEF Ascends
<1>2. \A j : Ascends(Room(j))
  BY RoomIs DEF Shape
<1>3. boots'[1].hist = <<>> \/ \E j : boots'[1].hist = Room(j)
  BY DEF Hydrates, Listing, Reading, Finishing, Failing, Quiet
<1> QED
  BY <1>1, <1>2, <1>3

LEMMA StreamLife ==
  ASSUME OneStart, Shape, StreamOrder, [Next]_vars
  PROVE  /\ StreamOrder'
         /\ Stops \/ (StreamMoves(streams[1], streams'[1]) /\ seenEntries \subseteq seenEntries')
<1> DEFINE t == streams[1]
           u == streams'[1]
           Ordered(v, p) == /\ v.state \in {"none", "opening"} => v.last = 0
                            /\ v.last <= v.next /\ (p = "idle" => v.state = "none")
<1>1. t \in StreamType /\ t.last \in 0 .. Len(feed) /\ t.next \in 1 .. Len(feed) + 1 /\ Len(feed) \in Nat
  BY OnlyOne
<1>2. Ordered(t, boots[1].pc)
  BY DEF StreamOrder
<1>3. \A x : LET v == [t EXCEPT !.state = x] IN v.state = x /\ v.last = t.last /\ v.next = t.next
  BY <1>1 DEF StreamType
<1>4. \A x : LET v == [t EXCEPT !.next = x] IN v.state = t.state /\ v.last = t.last /\ v.next = x
  BY <1>1 DEF StreamType
<1> SUFFICES /\ Ordered(u, boots'[1].pc) /\ Ascends(boots'[1].hist)
             /\ Stops \/ (StreamMoves(t, u) /\ seenEntries \subseteq seenEntries')
  BY DEF StreamOrder
<1>5. CASE Rests \/ Publishes
  BY <1>1, <1>2, <1>5 DEF Rests, Publishes, StreamMoves, StreamOrder
<1>6. CASE Begins
  <2>1. u = [t EXCEPT !.state = "opening"] /\ boots'[1].pc = "connect" /\ boots[1].pc = "idle"
        /\ boots'[1].hist = boots[1].hist /\ seenEntries' = seenEntries
    BY <1>6 DEF Begins
  <2>2. u.state = "opening" /\ u.last = t.last /\ u.next = t.next
    BY <1>3, <2>1
  <2> QED
    BY <1>1, <1>2, <2>1, <2>2 DEF StreamMoves, StreamOrder
<1>7. CASE Accepted
  <2>1. u.state = "open" /\ u.last = 0 /\ u.next = Len(feed) + 1 /\ t.state = "opening"
    BY <1>7 DEF Accepted
  <2>2. boots' = boots /\ seenEntries' = seenEntries
    BY <1>7 DEF Accepted
  <2> QED
    BY <1>1, <1>2, <2>1, <2>2 DEF StreamMoves, StreamOrder
<1>8. CASE Resends
  <2>1. PICK n \in IF ~Replays THEN {Len(feed) + 1}
                   ELSE IF t.last = 0 THEN {t.next} ELSE {t.last, t.last + 1} :
          u = [t EXCEPT !.next = n]
    BY <1>8 DEF Resends
  <2>2. u.state = t.state /\ u.last = t.last /\ u.next = n
    BY <1>4, <2>1
  <2>3. t.last <= n
    BY <1>1, <1>2, <2>1
  <2>4. boots' = boots /\ seenEntries' = seenEntries /\ t.state \in {"open", "listening"}
    BY <1>8 DEF Resends
  <2> QED
    BY <1>1, <1>2, <2>2, <2>3, <2>4 DEF StreamMoves, StreamOrder
<1>9. CASE \E i \in 1 .. Len(feed) : Drops(i) \/ Takes(i)
  <2>1. PICK i \in 1 .. Len(feed) : Drops(i) \/ Takes(i)
    BY <1>9
  <2>2. Arrives(i) /\ seenEntries \subseteq seenEntries'
    BY <2>1 DEF Drops, Takes
  <2>3. u = [state |-> t.state, next |-> i + 1, last |-> i] /\ i = t.next /\ boots' = boots
        /\ t.state \in {"open", "listening"}
    BY <2>2 DEF Arrives
  <2>4. u.state = t.state /\ u.next = i + 1 /\ u.last = i
    BY <2>3
  <2> QED
    BY <1>1, <1>2, <2>2, <2>3, <2>4 DEF StreamMoves, StreamOrder
<1>10. CASE GivesUp
  <2>1. PICK x \in {"closed", t.state} : u = [t EXCEPT !.state = x]
    BY <1>10 DEF GivesUp
  <2>2. u.state = x /\ u.last = t.last /\ u.next = t.next
    BY <1>3, <2>1
  <2>3. boots'[1].pc = "failed" /\ boots'[1].hist = boots[1].hist /\ seenEntries' = seenEntries
    BY <1>10 DEF GivesUp
  <2> QED
    BY <1>1, <1>2, <2>1, <2>2, <2>3 DEF StreamMoves, StreamOrder
<1>11. CASE Connects
  <2>1. u = [t EXCEPT !.state = "listening"] /\ t.state = "open" /\ boots'[1].pc # "idle"
        /\ boots'[1].hist = boots[1].hist /\ seenEntries' = seenEntries
    BY <1>11 DEF Connects
  <2>2. u.state = "listening" /\ u.last = t.last /\ u.next = t.next
    BY <1>3, <2>1
  <2> QED
    BY <1>1, <1>2, <2>1, <2>2 DEF StreamMoves, StreamOrder
<1>12. CASE Hydrates \/ Adopts
  <2>1. streams' = streams /\ seenEntries' = seenEntries
    BY <1>12 DEF Hydrates, Adopts
  <2>2. boots'[1].pc # "idle"
    BY <1>12 DEF Hydrates, Adopts, Listing, Reading, Finishing, Failing, Adopting, Onward
  <2>3. Ascends(boots'[1].hist)
    <3>1. CASE Hydrates
      BY <3>1, HistoryAscends DEF StreamOrder
    <3>2. CASE Adopts
      BY <3>2 DEF Adopts, Adopting, StreamOrder
    <3> QED
      BY <1>12, <3>1, <3>2
  <2> QED
    BY <1>1, <1>2, <2>1, <2>2, <2>3 DEF StreamMoves
<1>13. CASE Stops
  <2>1. PICK x \in {"closed", t.state} : u = [t EXCEPT !.state = x]
    BY <1>13 DEF Stops
  <2>2. u.state = x /\ u.last = t.last /\ u.next = t.next
    BY <1>3, <2>1
  <2>3. boots' = boots /\ boots[1].pc # "idle"
    BY <1>13 DEF Stops
  <2> QED
    BY <1>1, <1>2, <1>13, <2>1, <2>2, <2>3 DEF StreamOrder
<1> QED
  BY <1>5, <1>6, <1>7, <1>8, <1>9, <1>10, <1>11, <1>12, <1>13, LifeChange

\* The entries of a session: the first m ascend, and so do the others, which
\* the stream brought; it remembers them as long as it is listening.
Rises(entries, a, b) == \A p, q \in a .. b : p < q => entries[p] < entries[q]
Split(entries, m, fd, t, seen) ==
  /\ Rises(entries, 1, m) /\ Rises(entries, m + 1, Len(entries))
  /\ m # Len(entries) => t.state \in {"listening", "closed"}
  /\ \A n \in m + 1 .. Len(entries) :
       entries[n] <= t.last /\ (t.state = "listening" => Key(fd[entries[n]]) \in seen)
Runs(entries, fd, t, seen) == \E m \in 0 .. Len(entries) : Split(entries, m, fd, t, seen)

TwoRuns(fd, ss, map, t, seen) ==
  \A j \in Jobs : map[j] # 0 => Runs(ss[map[j]].entries, fd, t, seen)

LEMMA RunsOn ==
  ASSUME NEW f \in Seq(EntryType), NEW g \in Seq(EntryType), FeedGrows(f, g),
         NEW entries \in Seq(Nat), \A n \in 1 .. Len(entries) : entries[n] \in 1 .. Len(f),
         NEW t, NEW u, t.last \in Nat, u.last \in Nat, StreamMoves(t, u),
         NEW seen, NEW seen2, seen \subseteq seen2, Runs(entries, f, t, seen)
  PROVE  Runs(entries, g, u, seen2)
<1>1. PICK m \in 0 .. Len(entries) : Split(entries, m, f, t, seen)
  BY DEF Runs
<1>2. m # Len(entries) => u.state \in {"listening", "closed"}
  BY <1>1 DEF Split, StreamMoves
<1>3. ASSUME NEW n \in m + 1 .. Len(entries)
      PROVE  entries[n] <= u.last /\ (u.state = "listening" => Key(g[entries[n]]) \in seen2)
  <2>1. entries[n] \in Nat /\ n \in 1 .. Len(entries) /\ m # Len(entries)
    BY <1>3
  <2>2. g[entries[n]] = f[entries[n]]
    BY <2>1 DEF FeedGrows
  <2>3. entries[n] <= t.last /\ (t.state = "listening" => Key(f[entries[n]]) \in seen)
        /\ t.state \in {"listening", "closed"}
    BY <1>1, <2>1 DEF Split
  <2>4. entries[n] <= u.last
    BY <2>1, <2>3 DEF StreamMoves
  <2>5. u.state = "listening" => t.state = "listening"
    BY <2>3 DEF StreamMoves
  <2> QED
    BY <2>2, <2>3, <2>4, <2>5
<1>4. Split(entries, m, g, u, seen2)
  BY <1>1, <1>2, <1>3 DEF Split
<1> QED
  BY <1>4 DEF Runs

\* An entry the stream had not brought yet, put at the end.
LEMMA RunsAppend ==
  ASSUME NEW fd, NEW entries \in Seq(Nat), NEW i \in Nat, NEW t, NEW u, NEW seen, NEW seen2,
         t.last \in Nat, t.last <= i, t.state = "listening", u.state = "listening", u.last = i,
         Key(fd[i]) \notin seen, seen2 = seen \cup {Key(fd[i])}, Runs(entries, fd, t, seen)
  PROVE  Runs(Append(entries, i), fd, u, seen2)
<1> DEFINE more == Append(entries, i)
           N == Len(entries)
<1>1. /\ N \in Nat /\ Len(more) = N + 1 /\ more[N + 1] = i
      /\ \A n \in 1 .. N : more[n] = entries[n] /\ entries[n] \in Nat
  OBVIOUS
<1>2. PICK m \in 0 .. N : Split(entries, m, fd, t, seen)
  BY DEF Runs
<1> HIDE DEF more
<1>3. ASSUME NEW n \in m + 1 .. N
      PROVE  entries[n] < i /\ Key(fd[entries[n]]) \in seen
  <2>1. entries[n] <= t.last /\ Key(fd[entries[n]]) \in seen
    BY <1>2 DEF Split
  <2>2. entries[n] # i
    BY <2>1
  <2>3. entries[n] \in Nat
    BY <1>1, <1>2
  <2> QED
    BY <2>1, <2>2, <2>3
<1>4. Rises(more, 1, m)
  <2>1. Rises(entries, 1, m)
    BY <1>2 DEF Split
  <2>2. \A p \in 1 .. m : more[p] = entries[p]
    BY <1>1
  <2> QED
    BY <2>1, <2>2 DEF Rises
<1>5. Rises(more, m + 1, Len(more))
  <2> SUFFICES ASSUME NEW p \in m + 1 .. N + 1, NEW q \in m + 1 .. N + 1, p < q
               PROVE  more[p] < more[q]
    BY <1>1 DEF Rises
  <2>1. CASE q = N + 1
    <3>1. p \in m + 1 .. N /\ p \in 1 .. N
      BY <1>1, <2>1
    <3> QED
      BY <1>1, <1>3, <2>1, <3>1
  <2>2. CASE q # N + 1
    <3>1. /\ p \in m + 1 .. N /\ q \in m + 1 .. N
          /\ p \in 1 .. N /\ q \in 1 .. N
      <4>1. m \in Nat /\ p \in Nat /\ q \in Nat /\ m + 1 <= p /\ p < q /\ q <= N
        BY <1>1, <1>2, <2>2
      <4> QED
        BY <1>1, <4>1
    <3>2. entries[p] < entries[q]
      BY <1>2, <3>1 DEF Split, Rises
    <3> QED
      BY <1>1, <3>1, <3>2
  <2> QED
    BY <2>1, <2>2
<1>6. ASSUME NEW n \in m + 1 .. N + 1
      PROVE  more[n] <= u.last /\ Key(fd[more[n]]) \in seen2
  <2>1. CASE n = N + 1
    BY <1>1, <2>1
  <2>2. CASE n # N + 1
    <3>1. n \in m + 1 .. N /\ n \in 1 .. N
      BY <1>1, <2>2
    <3>2. more[n] = entries[n] /\ entries[n] < i /\ Key(fd[entries[n]]) \in seen /\ entries[n] \in Nat
      BY <1>1, <1>3, <3>1
    <3> QED
      BY <3>2
  <2> QED
    BY <2>1, <2>2
<1>7. Split(more, m, fd, u, seen2)
  BY <1>1, <1>4, <1>5, <1>6 DEF Split
<1>8. m \in 0 .. Len(more)
  BY <1>1
<1> QED
  BY <1>7, <1>8 DEF Runs, more

\* An entry that comes to a new session.
LEMMA RunsBegin ==
  ASSUME NEW fd, NEW i \in Nat, NEW t, t.state = "listening", t.last = i,
         NEW seen, Key(fd[i]) \in seen
  PROVE  Runs(<<i>>, fd, t, seen)
<1>1. Len(<<i>>) = 1 /\ <<i>>[1] = i
  OBVIOUS
<1>2. Rises(<<i>>, 1, 0) /\ Rises(<<i>>, 1, 1)
  BY DEF Rises
<1>3. Split(<<i>>, 0, fd, t, seen)
  BY <1>1, <1>2 DEF Split
<1> QED
  BY <1>1, <1>3 DEF Runs

\* A history.
LEMMA RunsHistory ==
  ASSUME NEW fd, NEW h \in Seq(Nat), Ascends(h), NEW t, NEW seen
  PROVE  Runs(h, fd, t, seen)
<1>1. Len(h) \in Nat
  OBVIOUS
<1>2. Rises(h, 1, Len(h)) /\ Rises(h, Len(h) + 1, Len(h))
  BY <1>1 DEF Rises, Ascends
<1>3. Split(h, Len(h), fd, t, seen)
  BY <1>1, <1>2 DEF Split
<1> QED
  BY <1>1, <1>3 DEF Runs

\* The entries of a room's session are numbers of entries in the feed.
LEMMA EntriesAre ==
  ASSUME Shape, NEW j \in Jobs, sessionMap[j] # 0
  PROVE  LET entries == sessions[sessionMap[j]].entries IN
         /\ sessionMap[j] \in 1 .. Len(sessions)
         /\ entries \in Seq(Nat) /\ entries # <<>> /\ Belong(entries, j, feed)
<1>1. sessionMap[j] \in 1 .. Len(sessions) /\ sessions[sessionMap[j]] \in SessionType
      /\ sessions[sessionMap[j]].job = j /\ SessionFits(sessions[sessionMap[j]], feed)
  BY DEF Shape, SessionShape
<1> QED
  BY <1>1 DEF SessionType, SessionFits

LEMMA TwoRunsStep ==
  ASSUME OneStart, Shape, StreamOrder, [Next]_vars,
         TwoRuns(feed, sessions, sessionMap, streams[1], seenEntries)
  PROVE  TwoRuns(feed', sessions', sessionMap', streams'[1], seenEntries')
<1> DEFINE t == streams[1]
           u == streams'[1]
           Old(j) == sessions[sessionMap[j]].entries
           Kept == \A j \in Jobs : sessionMap[j] # 0 => Runs(Old(j), feed', u, seenEntries')
<1>1. CASE Stops
  BY <1>1 DEF Stops, TwoRuns
<1>2. /\ t.last \in Nat /\ u.last \in Nat /\ t.next \in Nat /\ t.last <= t.next
      /\ feed \in Seq(EntryType) /\ feed' \in Seq(EntryType) /\ FeedGrows(feed, feed')
  <2>1. 1 \in Starts
    BY OnlyOne
  <2>2. StreamShape'
    BY StreamStep
  <2>3. t.last \in Nat /\ u.last \in Nat /\ t.next \in Nat
    BY <2>1, <2>2 DEF Shape, StreamShape, StreamType
  <2> QED
    BY <2>3, FeedStep DEF Shape, FeedShape, StreamOrder
<1>3. ASSUME ~ Stops PROVE Kept
  <2>1. StreamMoves(t, u) /\ seenEntries \subseteq seenEntries'
    BY <1>3, StreamLife
  <2> SUFFICES ASSUME NEW j \in Jobs, sessionMap[j] # 0
               PROVE  Runs(Old(j), feed', u, seenEntries')
    OBVIOUS
  <2>2. Old(j) \in Seq(Nat) /\ Runs(Old(j), feed, t, seenEntries)
    BY EntriesAre DEF TwoRuns
  <2>3. \A n \in 1 .. Len(Old(j)) : Old(j)[n] \in 1 .. Len(feed)
    BY EntriesAre DEF Belong
  <2> HIDE DEF Old, t, u
  <2> QED
    BY <1>2, <2>1, <2>2, <2>3, RunsOn
<1>4. CASE ~ Stops /\ UNCHANGED <<sessions, sessionMap>>
  BY <1>3, <1>4 DEF TwoRuns
<1>5. ASSUME NEW i \in 1 .. Len(feed), Takes(i), ~ Stops
      PROVE  TwoRuns(feed', sessions', sessionMap', streams'[1], seenEntries')
  <2> DEFINE j == feed[i].job
             r == sessionMap'[j]
  <2>1. /\ feed' = feed /\ u = [state |-> t.state, next |-> i + 1, last |-> i] /\ i = t.next
        /\ Dispatch(i) /\ t.state = "listening"
        /\ Key(feed[i]) \notin seenEntries /\ seenEntries' = seenEntries \cup {Key(feed[i])}
    BY <1>5 DEF Takes, Arrives
  <2>2. u.state = "listening" /\ u.last = i /\ i \in Nat
    BY <2>1
  <2>3. /\ j \in Jobs /\ sessionMap' = [sessionMap EXCEPT ![j] = r]
        /\ sessions'[r].entries = Append(OldEntries(j), i)
    BY <2>1, DispatchSteps
  <2>4. /\ r = sessionMap[j] \/ r = Len(sessions) + 1
        /\ \A s \in 1 .. Len(sessions) :
             sessions'[s].entries = IF s = sessionMap[j] THEN Append(sessions[s].entries, i)
                                                         ELSE sessions[s].entries
    BY <2>1, DispatchSteps
  <2>5. Runs(Append(OldEntries(j), i), feed', u, seenEntries')
    <3>1. CASE sessionMap[j] = 0
      <4>1. OldEntries(j) = <<>> /\ Append(<<>>, i) = <<i>>
        BY <3>1 DEF OldEntries
      <4> HIDE DEF u
      <4> QED
        BY <2>1, <2>2, <4>1, RunsBegin
    <3>2. CASE sessionMap[j] # 0
      <4>1. OldEntries(j) \in Seq(Nat) /\ Runs(OldEntries(j), feed, t, seenEntries)
        BY <2>3, <3>2, EntriesAre DEF OldEntries, TwoRuns
      <4>2. t.last <= i
        BY <1>2, <2>1
      <4> HIDE DEF t, u
      <4> QED
        BY <1>2, <2>1, <2>2, <4>1, <4>2, RunsAppend
    <3> QED
      BY <3>1, <3>2
  <2> SUFFICES ASSUME NEW q \in Jobs, sessionMap'[q] # 0
               PROVE  Runs(sessions'[sessionMap'[q]].entries, feed', u, seenEntries')
    BY DEF TwoRuns
  <2>6. CASE q = j
    BY <2>3, <2>5, <2>6
  <2>7. CASE q # j
    <3>1. sessionMap'[q] = sessionMap[q] /\ sessionMap[q] # 0
      BY <2>3, <2>7 DEF Shape, SessionShape
    <3>2. sessionMap[q] \in 1 .. Len(sessions) /\ sessionMap[q] # sessionMap[j]
      BY <2>3, <2>7, <3>1 DEF Shape, SessionShape
    <3> QED
      BY <1>3, <1>5, <2>4, <3>1, <3>2
  <2> QED
    BY <2>6, <2>7
<1>6. CASE Adopts /\ ~ Stops
  <2> DEFINE j == RoomOf(boots[1])
             h == boots[1].hist
  <2>1. h \in Seq(Nat) /\ Ascends(h)
    BY OnlyOne DEF BootType, StreamOrder
  <2>2. CASE Unmoved
    BY <1>4, <1>6, <2>2 DEF Unmoved
  <2>3. CASE /\ sessionMap[j] = 0 /\ sessions' = Append(sessions, NewSession(j, h))
             /\ sessionMap' = [sessionMap EXCEPT ![j] = Len(sessions) + 1]
    <3>1. /\ \A s \in 1 .. Len(sessions) : sessions'[s] = sessions[s]
          /\ sessions'[Len(sessions) + 1] = NewSession(j, h)
      BY <2>3 DEF Shape, SessionShape
    <3>2. NewSession(j, h).entries = h
      BY DEF NewSession
    <3>3. Runs(h, feed', u, seenEntries')
      <4> HIDE DEF h, u
      <4> QED
        BY <2>1, RunsHistory
    <3> SUFFICES ASSUME NEW q \in Jobs, sessionMap'[q] # 0
                 PROVE  Runs(sessions'[sessionMap'[q]].entries, feed', u, seenEntries')
      BY DEF TwoRuns
    <3>4. CASE q = j
      <4>1. sessionMap'[q] = Len(sessions) + 1
        BY <2>3, <3>4 DEF Shape, SessionShape
      <4> QED
        BY <3>1, <3>2, <3>3, <4>1
    <3>5. CASE q # j
      <4>1. sessionMap'[q] = sessionMap[q] /\ sessionMap[q] # 0
        BY <2>3, <3>5 DEF Shape, SessionShape
      <4>2. sessionMap[q] \in 1 .. Len(sessions)
        BY <4>1, EntriesAre
      <4> QED
        BY <1>3, <1>6, <3>1, <4>1, <4>2
    <3> QED
      BY <3>4, <3>5
  <2> QED
    BY <1>6, <2>2, <2>3 DEF Adopts
<1>7. CASE Rests \/ Publishes \/ Begins \/ Accepted \/ Resends \/ GivesUp \/ Connects \/ Hydrates
           \/ \E i \in 1 .. Len(feed) : Drops(i)
  <2>1. UNCHANGED <<sessions, sessionMap>>
    BY <1>7 DEF Rests, Publishes, Begins, Accepted, Resends, GivesUp, Connects, Hydrates, Drops, Unmoved
  <2> QED
    BY <1>1, <1>4, <2>1
<1> QED
  BY <1>1, <1>5, <1>6, <1>7, LifeChange

LEMMA OverlapInit ==
  ASSUME OneStart, Init
  PROVE  StreamOrder /\ TwoRuns(feed, sessions, sessionMap, streams[1], seenEntries)
<1>1. streams[1] = [state |-> "none", next |-> 1, last |-> 0] /\ boots[1] = NoBoot
  BY DEF Init, OneStart, Starts
<1>2. Ascends(NoBoot.hist)
  BY DEF NoBoot, Ascends
<1>3. streams[1].state = "none" /\ streams[1].next = 1 /\ streams[1].last = 0
  BY <1>1
<1>4. StreamOrder
  BY <1>1, <1>2, <1>3 DEF StreamOrder
<1>5. TwoRuns(feed, sessions, sessionMap, streams[1], seenEntries)
  BY DEF Init, TwoRuns
<1> QED
  BY <1>4, <1>5

LEMMA RunsOverlapOnce ==
  ASSUME NEW entries \in Seq(Nat), NEW fd, NEW t, NEW seen, Runs(entries, fd, t, seen)
  PROVE  Cardinality({n \in 2 .. Len(entries) : entries[n] <= entries[n - 1]}) <= 1
<1> DEFINE back == {n \in 2 .. Len(entries) : entries[n] <= entries[n - 1]}
<1>1. PICK m \in 0 .. Len(entries) :
        Rises(entries, 1, m) /\ Rises(entries, m + 1, Len(entries))
  BY DEF Runs, Split
<1>2. Len(entries) \in Nat /\ \A n \in 1 .. Len(entries) : entries[n] \in Nat
  OBVIOUS
<1>3. back \subseteq {m + 1}
  <2> SUFFICES ASSUME NEW n \in 2 .. Len(entries), entries[n] <= entries[n - 1], n # m + 1
               PROVE  FALSE
    OBVIOUS
  <2>1. n \in 1 .. Len(entries) /\ n - 1 \in 1 .. Len(entries)
    BY <1>2
  <2>2. entries[n - 1] < entries[n]
    <3>1. CASE n <= m
      <4>1. n - 1 \in 1 .. m /\ n \in 1 .. m /\ n - 1 < n
        BY <1>1, <1>2, <3>1
      <4> QED
        BY <1>1, <4>1 DEF Rises
    <3>2. CASE ~ (n <= m)
      <4>1. n - 1 \in m + 1 .. Len(entries) /\ n \in m + 1 .. Len(entries) /\ n - 1 < n
        BY <1>1, <1>2, <3>2
      <4> QED
        BY <1>1, <4>1 DEF Rises
    <3> QED
      BY <3>1, <3>2
  <2> QED
    BY <1>2, <2>1, <2>2
<1> HIDE DEF back
<1>4. IsFiniteSet({m + 1}) /\ Cardinality({m + 1}) = 1
  BY FS_Singleton
<1>5. Cardinality(back) <= 1
  BY <1>3, <1>4, FS_Subset
<1> QED
  BY <1>5 DEF back

LEMMA OverlapTells ==
  ASSUME Shape, TwoRuns(feed, sessions, sessionMap, streams[1], seenEntries)
  PROVE  OneOverlap
<1> SUFFICES ASSUME NEW j \in Jobs, sessionMap[j] # 0
             PROVE  LET entries == sessions[sessionMap[j]].entries IN
                    Cardinality({n \in 2 .. Len(entries) : entries[n] <= entries[n - 1]}) <= 1
  BY DEF OneOverlap, Tracked
<1> DEFINE entries == sessions[sessionMap[j]].entries
<1>1. entries \in Seq(Nat) /\ Runs(entries, feed, streams[1], seenEntries)
  BY EntriesAre DEF TwoRuns
<1> HIDE DEF entries
<1>2. Cardinality({n \in 2 .. Len(entries) : entries[n] <= entries[n - 1]}) <= 1
  BY <1>1, RunsOverlapOnce
<1> QED
  BY <1>2 DEF entries

\* A session of an agent that is started once holds its room's entries in
\* their order but for one overlap: the history first, then what came live,
\* and a replay after a connection loss adds nothing.  (With two starts both
\* streams can be listening, and deliver out of order.)
THEOREM OverlapCorrect == ASSUME OneStart PROVE Spec => []OneOverlap
<1> DEFINE Apart == StreamOrder /\ TwoRuns(feed, sessions, sessionMap, streams[1], seenEntries)
<1>1. Init => Apart
  BY OverlapInit
<1>2. Shape /\ Apart /\ [Next]_vars => Apart'
  BY StreamLife, TwoRunsStep
<1>3. Shape /\ Apart => OneOverlap
  BY OverlapTells
<1> QED
  BY <1>1, <1>2, <1>3, ShapeAlways, PTL DEF Spec

-----------------------------------------------------------------------------
(* A session that knows the beginning of its room misses nothing, if the   *)
(* server resends what a lost connection missed and no two entries of a    *)
(* room have the same time stamp (and with it the same key).               *)

Lossless == Replays /\ ~ Simultaneous

\* Entries are told apart by their time stamps.
Apart(fd) == \A a, b \in 1 .. Len(fd) : a < b => fd[a].at < fd[b].at

\* What is remembered has come.
Came(seen, fd, t) == \A x \in seen : \E i \in 1 .. t.last : x = Key(fd[i])

\* The stream goes on where it was; the entry handler is set while the agent
\* is started; there are no sessions before the streams are connected.
Steady(t, boot, map) ==
  /\ t.last # 0 => t.next \in {t.last, t.last + 1}
  /\ boot.pc \in {"idle", "connect"} => t.state # "listening" /\ \A j \in Jobs : map[j] = 0

Life ==
  /\ Apart(feed) /\ Came(seenEntries, feed, streams[1])
  /\ Steady(streams[1], boots[1], sessionMap) /\ (started <=> onEntry)

LEMMA ApartStep ==
  ASSUME OneStart, Lossless, Shape, [Next]_vars, Apart(feed)
  PROVE  Apart(feed')
<1>1. CASE feed' = feed
  BY <1>1
<1>2. CASE Publish
  <2>1. PICK j, k : feed' = Append(feed, [job |-> j, kind |-> k,
                                          at |-> 1 + IF feed = <<>> THEN 0 ELSE Last(feed).at])
    BY <1>2 DEF Publish, Lossless
  <2> DEFINE N == Len(feed)
             at == 1 + IF feed = <<>> THEN 0 ELSE Last(feed).at
             e == [job |-> j, kind |-> k, at |-> at]
  <2>2. feed \in Seq(EntryType) /\ N \in Nat /\ \A n \in 1 .. N : feed[n].at \in Nat
    <3>1. feed \in Seq(EntryType) /\ MaxEntries \in Nat
      BY ConstantsAssumption DEF Shape, FeedShape
    <3>2. \A n \in 1 .. N : feed[n] \in EntryType
      BY <3>1
    <3> QED
      BY <3>1, <3>2 DEF EntryType
  <2>3. e.at = at
    OBVIOUS
  <2>4. \A n \in 1 .. N : feed[n].at < at
    <3>1. CASE feed = <<>>
      BY <2>2, <3>1
    <3>2. CASE feed # <<>>
      <4>1. N \in 1 .. N /\ Last(feed) = feed[N]
        BY <2>2, <3>2 DEF Last
      <4>2. at = 1 + feed[N].at
        BY <3>2, <4>1
      <4>3. \A n \in 1 .. N : n < N => feed[n].at < feed[N].at
        BY <4>1 DEF Apart
      <4> QED
        BY <2>2, <4>1, <4>2, <4>3
    <3> QED
      BY <3>1, <3>2
  <2> HIDE DEF at, e
  <2>5. Len(feed') = N + 1 /\ feed'[N + 1] = e /\ \A n \in 1 .. N : feed'[n] = feed[n]
    BY <2>1, <2>2 DEF e, at
  <2> SUFFICES ASSUME NEW a \in 1 .. N + 1, NEW b \in 1 .. N + 1, a < b
               PROVE  feed'[a].at < feed'[b].at
    BY <2>5 DEF Apart
  <2>6. a \in 1 .. N
    BY <2>2
  <2>7. CASE b = N + 1
    BY <2>3, <2>4, <2>5, <2>6, <2>7
  <2>8. CASE b # N + 1
    <3>1. b \in 1 .. N
      BY <2>2, <2>8
    <3> QED
      BY <2>5, <2>6, <3>1 DEF Apart
  <2> QED
    BY <2>7, <2>8
<1>3. feed' = feed \/ Publish
  BY LifeChange DEF Rests, Publishes, Begins, Accepted, Resends, Drops, Takes, Arrives, GivesUp,
                    Connects, Hydrates, Adopts, Stops, Unmoved
<1> QED
  BY <1>1, <1>2, <1>3

LEMMA CameStep ==
  ASSUME OneStart, Shape, StreamOrder, [Next]_vars, Came(seenEntries, feed, streams[1])
  PROVE  Came(seenEntries', feed', streams'[1])
<1> DEFINE t == streams[1]
           u == streams'[1]
<1>1. t \in StreamType /\ t.last \in 0 .. Len(feed) /\ Len(feed) \in Nat /\ FeedGrows(feed, feed')
  BY OnlyOne, FeedStep
<1>2. u.last \in Nat
  BY StreamStep, OnlyOne DEF StreamShape, StreamType
<1>3. ASSUME NEW x \in seenEntries, t.last <= u.last
      PROVE  \E i \in 1 .. u.last : x = Key(feed'[i])
  <2>1. PICK i \in 1 .. t.last : x = Key(feed[i])
    BY DEF Came
  <2>2. i \in 1 .. Len(feed) /\ i \in 1 .. u.last
    BY <1>1, <1>2, <1>3
  <2> QED
    BY <1>1, <2>1, <2>2 DEF FeedGrows
<1>4. CASE Stops
  <2>1. PICK s \in {"closed", t.state} : u = [t EXCEPT !.state = s]
    BY <1>4 DEF Stops
  <2>2. u.last = t.last
    BY <1>1, <2>1 DEF StreamType
  <2>3. seenEntries' \subseteq seenEntries
    BY <1>4 DEF Stops
  <2>4. t.last <= u.last
    BY <1>1, <2>2
  <2> QED
    BY <1>3, <2>3, <2>4 DEF Came
<1>5. CASE ~ Stops /\ seenEntries' = seenEntries
  <2>1. t.last <= u.last
    BY <1>5, StreamLife DEF StreamMoves
  <2> QED
    BY <1>3, <1>5, <2>1 DEF Came
<1>6. ASSUME NEW i \in 1 .. Len(feed), Arrives(i), ~ Stops,
             seenEntries' = seenEntries \cup {Key(feed[i])}
      PROVE  Came(seenEntries', feed', u)
  <2>1. t.last <= u.last
    BY <1>6, StreamLife DEF StreamMoves
  <2>2. u.last = i /\ i \in 1 .. i
    BY <1>6 DEF Arrives
  <2>3. feed' = feed
    BY <1>6 DEF Arrives
  <2> QED
    BY <1>3, <1>6, <2>1, <2>2, <2>3 DEF Came
<1>7. seenEntries' = seenEntries \/ Stops
      \/ \E i \in 1 .. Len(feed) : Arrives(i) /\ seenEntries' = seenEntries \cup {Key(feed[i])}
  BY LifeChange DEF Rests, Publishes, Begins, Accepted, Resends, Drops, Takes, GivesUp,
                    Connects, Hydrates, Adopts
<1> QED
  BY <1>4, <1>5, <1>6, <1>7

LEMMA SteadyStep ==
  ASSUME OneStart, Lossless, Shape, StreamOrder, [Next]_vars,
         Steady(streams[1], boots[1], sessionMap)
  PROVE  Steady(streams'[1], boots'[1], sessionMap')
<1> DEFINE t == streams[1]
           u == streams'[1]
           Sent(v) == v.last # 0 => v.next \in {v.last, v.last + 1}
           Silent(v, p, map) ==
             p \in {"idle", "connect"} => v.state # "listening" /\ \A j \in Jobs : map[j] = 0
<1>1. t \in StreamType
  BY OnlyOne
<1>2. \A x : LET v == [t EXCEPT !.state = x] IN v.state = x /\ v.last = t.last /\ v.next = t.next
  BY <1>1 DEF StreamType
<1>3. \A x : LET v == [t EXCEPT !.next = x] IN v.state = t.state /\ v.last = t.last /\ v.next = x
  BY <1>1 DEF StreamType
<1>4. Sent(t) /\ Silent(t, boots[1].pc, sessionMap)
  BY DEF Steady
<1> SUFFICES Sent(u) /\ Silent(u, boots'[1].pc, sessionMap')
  BY DEF Steady
<1>5. CASE Rests \/ Publishes
  BY <1>4, <1>5 DEF Rests, Publishes, Unmoved
<1>6. CASE Begins
  <2>1. u = [t EXCEPT !.state = "opening"] /\ boots[1].pc = "idle" /\ sessionMap' = sessionMap
    BY <1>6 DEF Begins, Unmoved
  <2>2. u.state = "opening" /\ u.last = t.last /\ u.next = t.next
    BY <1>2, <2>1
  <2> QED
    BY <1>4, <2>1, <2>2
<1>7. CASE Accepted
  <2>1. u.state = "open" /\ u.last = 0 /\ boots' = boots /\ sessionMap' = sessionMap
    BY <1>7 DEF Accepted, Unmoved
  <2> QED
    BY <1>4, <2>1
<1>8. CASE Resends
  <2>1. PICK n \in IF t.last = 0 THEN {t.next} ELSE {t.last, t.last + 1} :
          u = [t EXCEPT !.next = n]
    BY <1>8 DEF Resends, Lossless
  <2>2. u.state = t.state /\ u.last = t.last /\ u.next = n
    BY <1>3, <2>1
  <2>3. boots' = boots /\ sessionMap' = sessionMap
    BY <1>8 DEF Resends, Unmoved
  <2> QED
    BY <1>4, <2>1, <2>2, <2>3
<1>9. CASE \E i \in 1 .. Len(feed) : Drops(i) \/ Takes(i)
  <2>1. PICK i \in 1 .. Len(feed) : Drops(i) \/ Takes(i)
    BY <1>9
  <2>2. Arrives(i)
    BY <2>1 DEF Drops, Takes
  <2>3. u = [state |-> t.state, next |-> i + 1, last |-> i] /\ boots' = boots
    BY <2>2 DEF Arrives
  <2>4. u.state = t.state /\ u.next = i + 1 /\ u.last = i
    BY <2>3
  <2>5. sessionMap' = sessionMap \/ t.state = "listening"
    BY <2>1 DEF Drops, Takes, Unmoved
  <2> QED
    BY <1>4, <2>3, <2>4, <2>5
<1>10. CASE GivesUp
  <2>1. PICK x \in {"closed", t.state} : u = [t EXCEPT !.state = x]
    BY <1>10 DEF GivesUp
  <2>2. u.last = t.last /\ u.next = t.next
    BY <1>2, <2>1
  <2> QED
    BY <1>4, <1>10, <2>2 DEF GivesUp
<1>11. CASE Connects
  <2>1. u = [t EXCEPT !.state = "listening"] /\ boots'[1].pc \in {"jobs", "done"}
    BY <1>11 DEF Connects
  <2>2. u.last = t.last /\ u.next = t.next
    BY <1>2, <2>1
  <2> QED
    BY <1>4, <2>1, <2>2
<1>12. CASE Hydrates \/ Adopts
  <2>1. streams' = streams
    BY <1>12 DEF Hydrates, Adopts
  <2>2. boots'[1].pc \notin {"idle", "connect"}
    BY <1>12 DEF Hydrates, Adopts, Listing, Reading, Finishing, Failing, Adopting, Onward
  <2> QED
    BY <1>4, <2>1, <2>2
<1>13. CASE Stops
  <2>1. PICK x \in {"closed", t.state} : u = [t EXCEPT !.state = x]
    BY <1>13 DEF Stops
  <2>2. u.state = x /\ u.last = t.last /\ u.next = t.next
    BY <1>2, <2>1
  <2>3. boots' = boots /\ sessionMap' = [j \in Jobs |-> 0]
    BY <1>13 DEF Stops
  <2> QED
    BY <1>4, <2>1, <2>2, <2>3
<1> QED
  BY <1>5, <1>6, <1>7, <1>8, <1>9, <1>10, <1>11, <1>12, <1>13, LifeChange

LEMMA LifeStep ==
  ASSUME OneStart, Lossless, Shape, StreamOrder, Life, [Next]_vars
  PROVE  Life'
<1>1. started' <=> onEntry'
  <2>1. CASE UNCHANGED <<started, onEntry>>
    BY <2>1 DEF Life
  <2>2. CASE Begins \/ Stops
    BY <2>2 DEF Life, Begins, Stops
  <2> QED
    BY <2>1, <2>2, LifeChange
       DEF Rests, Publishes, Accepted, Resends, Drops, Takes, Arrives, GivesUp, Connects, Hydrates, Adopts
<1> QED
  BY <1>1, ApartStep, CameStep, SteadyStep DEF Life

\* The session of room j holds entry i; it knows the beginning of the room.
Has(j, i, ss, map) ==
  map[j] # 0 /\ \E n \in 1 .. Len(ss[map[j]].entries) : ss[map[j]].entries[n] = i
IsRooted(j, fd, ss, map) == map[j] # 0 /\ First(fd, ss[map[j]].entries[1])
Active(j, fd) == \A i \in 1 .. Len(fd) : fd[i].job = j => fd[i].kind \notin TerminalKinds

\* What the agent knows of the feed, heard from entry c on: the entries from
\* there on are in their sessions,
HeardLive(c, fd, t, ss, map) ==
  /\ IF t.last = 0 THEN t.next = c ELSE t.last >= c - 1
  /\ \A i \in c .. t.last : Has(fd[i].job, i, ss, map)
\* the earlier ones are in the sessions that know their room's beginning,
HeardBefore(c, fd, ss, map) ==
  \A i \in 1 .. c - 1 : IsRooted(fd[i].job, fd, ss, map) => Has(fd[i].job, i, ss, map)
\* and are all in a history that is being adopted; the rooms they are in have
\* a session, unless start() has still to make one.
Hydration(c, fd, boot, map) ==
  /\ boot.pc \in {"adopt", "fetch"} =>
       \A i \in 1 .. c - 1 : fd[i].job = fd[boot.hist[1]].job =>
         \E n \in 1 .. Len(boot.hist) : boot.hist[n] = i
  /\ boot.pc \in {"history", "adopt", "fetch", "done"} =>
       \A i \in 1 .. c - 1 : Active(fd[i].job, fd) =>
         \/ fd[i].job \in boot.todo \/ map[fd[i].job] # 0
         \/ boot.pc = "adopt" /\ fd[i].job = fd[boot.hist[1]].job
  /\ boot.pc = "done" => boot.todo = {}

Heard(c, fd, t, ss, map, boot) ==
  /\ HeardLive(c, fd, t, ss, map) /\ HeardBefore(c, fd, ss, map)
  /\ Hydration(c, fd, boot, map)

Hears(fd, t, ss, map, boot, on) ==
  on /\ t.state = "listening" => \E c \in 1 .. Len(fd) + 1 : Heard(c, fd, t, ss, map, boot)

HearsNow == Hears(feed, streams[1], sessions, sessionMap, boots[1], started)

-----------------------------------------------------------------------------

\* A later feed: what was first still is, and what is active was.
LEMMA FeedTells ==
  ASSUME NEW f \in Seq(EntryType), NEW g \in Seq(EntryType), FeedGrows(f, g)
  PROVE  /\ \A i \in 1 .. Len(f) : g[i] = f[i] /\ (First(f, i) <=> First(g, i))
         /\ \A j : Active(j, g) => Active(j, f)
<1>1. Len(f) \in Nat /\ Len(g) \in Nat /\ Len(f) <= Len(g) /\ \A i \in 1 .. Len(f) : g[i] = f[i]
  BY DEF FeedGrows
<1>2. ASSUME NEW i \in 1 .. Len(f)
      PROVE  First(f, i) <=> First(g, i)
  <2>1. \A h \in 1 .. i - 1 : h \in 1 .. Len(f)
    BY <1>1
  <2> QED
    BY <1>1, <2>1 DEF First
<1>3. ASSUME NEW j, Active(j, g) PROVE Active(j, f)
  <2>1. 1 .. Len(f) \subseteq 1 .. Len(g)
    BY <1>1
  <2> QED
    BY <1>1, <1>3, <2>1 DEF Active
<1> QED
  BY <1>1, <1>2, <1>3

\* Publishing changes nothing of what was heard.
LEMMA HeardPublished ==
  ASSUME Shape, Shape', feed' \in Seq(EntryType), FeedGrows(feed, feed'),
         UNCHANGED <<streams, boots, sessions, sessionMap>>, 1 \in Starts,
         NEW c \in 1 .. Len(feed) + 1,
         Heard(c, feed, streams[1], sessions, sessionMap, boots[1])
  PROVE  Heard(c, feed', streams[1], sessions, sessionMap, boots[1])
<1>1. /\ \A i \in 1 .. Len(feed) : feed'[i] = feed[i] /\ (First(feed, i) <=> First(feed', i))
      /\ \A j : Active(j, feed') => Active(j, feed)
  BY FeedTells DEF Shape, FeedShape
<1>2. streams[1].last \in 0 .. Len(feed) /\ Len(feed) \in Nat
      /\ BootFits(boots[1], feed, sessions) /\ boots[1] \in BootType
  BY DEF Shape, StreamShape, FeedShape, BootShape
<1>3. HeardLive(c, feed', streams[1], sessions, sessionMap)
  <2>1. \A i \in c .. streams[1].last : i \in 1 .. Len(feed)
    BY <1>2
  <2> QED
    BY <1>1, <2>1 DEF Heard, HeardLive
<1>4. \A i \in 1 .. c - 1 : i \in 1 .. Len(feed)
  BY <1>2
<1>5. ASSUME NEW i \in 1 .. c - 1, IsRooted(feed'[i].job, feed', sessions, sessionMap)
      PROVE  Has(feed'[i].job, i, sessions, sessionMap)
  <2> DEFINE j == feed[i].job
  <2>1. feed'[i].job = j /\ j \in Jobs
    <3>1. feed[i] \in EntryType
      BY <1>4 DEF Shape, FeedShape
    <3> QED
      BY <1>1, <1>4, <3>1 DEF EntryType
  <2>2. sessionMap[j] # 0 /\ First(feed', sessions[sessionMap[j]].entries[1])
    BY <1>5, <2>1 DEF IsRooted
  <2>3. sessions[sessionMap[j]].entries[1] \in 1 .. Len(feed)
    <3>1. /\ sessions[sessionMap[j]].entries \in Seq(Nat) /\ sessions[sessionMap[j]].entries # <<>>
          /\ Belong(sessions[sessionMap[j]].entries, j, feed)
      BY <2>1, <2>2, EntriesAre
    <3>2. 1 \in 1 .. Len(sessions[sessionMap[j]].entries)
      BY <3>1
    <3> QED
      BY <3>1, <3>2 DEF Belong
  <2>4. IsRooted(j, feed, sessions, sessionMap)
    BY <1>1, <2>2, <2>3 DEF IsRooted
  <2> QED
    BY <2>1, <2>4 DEF Heard, HeardBefore
<1>6. Hydration(c, feed', boots[1], sessionMap)
  <2>1. boots[1].pc \in {"adopt", "fetch"} => feed'[boots[1].hist[1]] = feed[boots[1].hist[1]]
    <3> SUFFICES ASSUME boots[1].pc \in {"adopt", "fetch"}
                 PROVE  boots[1].hist[1] \in 1 .. Len(feed)
      BY <1>1
    <3>1. boots[1].hist # <<>> /\ boots[1].hist \in Seq(Nat)
          /\ Belong(boots[1].hist, feed[boots[1].hist[1]].job, feed)
      BY <1>2 DEF BootFits, BootType
    <3>2. 1 \in 1 .. Len(boots[1].hist)
      BY <3>1
    <3> QED
      BY <3>1, <3>2 DEF Belong
  <2>2. \A i \in 1 .. c - 1 : feed'[i] = feed[i]
    BY <1>1, <1>4
  <2> DEFINE boot == boots[1]
             room == feed[boot.hist[1]].job
  <2>3. /\ boot.pc \in {"adopt", "fetch"} =>
             \A i \in 1 .. c - 1 : feed[i].job = room => \E n \in 1 .. Len(boot.hist) : boot.hist[n] = i
        /\ boot.pc \in {"history", "adopt", "fetch", "done"} =>
             \A i \in 1 .. c - 1 : Active(feed[i].job, feed) =>
               feed[i].job \in boot.todo \/ sessionMap[feed[i].job] # 0
               \/ (boot.pc = "adopt" /\ feed[i].job = room)
        /\ boot.pc = "done" => boot.todo = {}
    BY DEF Heard, Hydration
  <2>4. boot.pc \in {"adopt", "fetch"} => feed'[boot.hist[1]].job = room
    BY <2>1
  <2> HIDE DEF boot, room
  <2>5. boot.pc \in {"adopt", "fetch"} =>
          \A i \in 1 .. c - 1 : feed'[i].job = feed'[boot.hist[1]].job =>
            \E n \in 1 .. Len(boot.hist) : boot.hist[n] = i
    BY <2>2, <2>3, <2>4
  <2>6. boot.pc \in {"history", "adopt", "fetch", "done"} =>
          \A i \in 1 .. c - 1 : Active(feed'[i].job, feed') =>
            feed'[i].job \in boot.todo \/ sessionMap[feed'[i].job] # 0
            \/ (boot.pc = "adopt" /\ feed'[i].job = feed'[boot.hist[1]].job)
    BY <1>1, <2>2, <2>3, <2>4
  <2>7. Hydration(c, feed', boot, sessionMap)
    BY <2>3, <2>5, <2>6 DEF Hydration
  <2> QED
    BY <2>7 DEF boot
<1> QED
  BY <1>3, <1>5, <1>6 DEF Heard, HeardBefore

\* Sessions that grow, and the map with them: who had an entry has it still.
LEMMA HasGrows ==
  ASSUME NEW ss \in Seq(SessionType), NEW tt \in Seq(SessionType), SessionsGrow(ss, tt),
         NEW map, NEW next, NEW j, map[j] \in 0 .. Len(ss),
         map[j] # 0 =>
           /\ next[j] \in 1 .. Len(tt)
           /\ Len(ss[map[j]].entries) <= Len(tt[next[j]].entries)
           /\ \A n \in 1 .. Len(ss[map[j]].entries) :
                tt[next[j]].entries[n] = ss[map[j]].entries[n]
  PROVE  \A i : Has(j, i, ss, map) => Has(j, i, tt, next)
<1> SUFFICES ASSUME NEW i, Has(j, i, ss, map) PROVE Has(j, i, tt, next)
  OBVIOUS
<1>1. map[j] # 0
  BY DEF Has
<1>2. PICK n \in 1 .. Len(ss[map[j]].entries) : ss[map[j]].entries[n] = i
  BY DEF Has
<1>3. map[j] \in 1 .. Len(ss) /\ next[j] \in 1 .. Len(tt)
  BY <1>1
<1> DEFINE old == ss[map[j]].entries
           new == tt[next[j]].entries
<1>4. old \in Seq(Nat) /\ new \in Seq(Nat)
  <2>1. ss[map[j]] \in SessionType /\ tt[next[j]] \in SessionType
    BY <1>3
  <2> QED
    BY <2>1 DEF SessionType
<1>5. Len(old) <= Len(new) /\ \A m \in 1 .. Len(old) : new[m] = old[m]
  BY <1>1
<1>6. n \in 1 .. Len(old) /\ old[n] = i
  BY <1>2
<1>7. next[j] # 0
  BY <1>3
<1> SUFFICES \E m \in 1 .. Len(new) : new[m] = i
  BY <1>7 DEF Has
<1> HIDE DEF old, new
<1>8. n \in 1 .. Len(new) /\ new[n] = i
  BY <1>4, <1>5, <1>6
<1> QED
  BY <1>8

\* Entry i is handed on to its session.
LEMMA TakenHas ==
  ASSUME Shape, NEW i \in 1 .. Len(feed), Dispatch(i)
  PROVE  LET j == feed[i].job IN
         /\ Has(j, i, sessions', sessionMap')
         /\ \A q \in Jobs : \A h : Has(q, h, sessions, sessionMap) => Has(q, h, sessions', sessionMap')
         /\ \A q \in Jobs : sessionMap[q] # 0 => sessionMap'[q] # 0
         /\ \A q \in Jobs : IsRooted(q, feed, sessions', sessionMap') =>
              \/ IsRooted(q, feed, sessions, sessionMap)
              \/ q = j /\ sessionMap[q] = 0 /\ First(feed, i)
<1> DEFINE j == feed[i].job
           r == sessionMap'[j]
           old == OldEntries(j)
<1>1. /\ j \in Jobs /\ sessionMap' = [sessionMap EXCEPT ![j] = r] /\ r \in 1 .. Len(sessions')
      /\ sessions'[r].entries = Append(old, i) /\ sessions' \in Seq(SessionType)
      /\ Len(sessions') \in {Len(sessions), Len(sessions) + 1}
  BY DispatchSteps
<1>2. \A s \in 1 .. Len(sessions) :
        /\ sessions'[s].job = sessions[s].job /\ sessions'[s].roles = sessions[s].roles
        /\ sessions'[s].entries = IF s = sessionMap[j] THEN Append(sessions[s].entries, i)
                                                       ELSE sessions[s].entries
  BY DispatchSteps
<1>3. /\ sessions \in Seq(SessionType) /\ Len(sessions) \in Nat
      /\ sessionMap \in [Jobs -> 0 .. Len(sessions)]
      /\ \A s \in 1 .. Len(sessions) : sessions[s].entries \in Seq(Nat) /\ sessions[s].entries # <<>>
  <2>1. sessions \in Seq(SessionType)
    BY DEF Shape, SessionShape
  <2>2. Len(sessions) \in Nat /\ \A s \in 1 .. Len(sessions) : sessions[s] \in SessionType
    BY <2>1
  <2>3. sessionMap \in [Jobs -> 0 .. Len(sessions)]
    BY DEF Shape, SessionShape
  <2>4. ASSUME NEW s \in 1 .. Len(sessions)
        PROVE  sessions[s].entries \in Seq(Nat) /\ sessions[s].entries # <<>>
    <3>1. sessions[s] \in SessionType
      BY <2>2
    <3>2. sessions[s].entries # <<>>
      BY DEF Shape, SessionShape, SessionFits
    <3> QED
      BY <3>1, <3>2 DEF SessionType
  <2> QED
    BY <2>1, <2>2, <2>3, <2>4
<1>4. \A q \in Jobs : q # j /\ sessionMap[q] # 0 => sessionMap[q] # sessionMap[j]
  BY <1>1 DEF Shape, SessionShape
<1>5. old \in Seq(Nat) /\ i \in Nat /\ Len(Append(old, i)) = Len(old) + 1 /\ Len(old) \in Nat
      /\ Append(old, i)[Len(old) + 1] = i
      /\ \A n \in 1 .. Len(old) : Append(old, i)[n] = old[n]
  <2>1. old \in Seq(Nat)
    <3>1. CASE sessionMap[j] = 0
      BY <3>1 DEF OldEntries
    <3>2. CASE sessionMap[j] # 0
      BY <1>1, <1>3, <3>2 DEF OldEntries
    <3> QED
      BY <3>1, <3>2
  <2> HIDE DEF old
  <2> QED
    BY <2>1
<1>6. SessionsGrow(sessions, sessions')
  <2>1. \A s \in 1 .. Len(sessions) : sessions'[s].entries = sessions[s].entries
                                      \/ sessions'[s].entries = Append(sessions[s].entries, i)
    BY <1>2
  <2>2. \A s \in 1 .. Len(sessions) :
          /\ Len(sessions[s].entries) <= Len(sessions'[s].entries)
          /\ \A n \in 1 .. Len(sessions[s].entries) : sessions'[s].entries[n] = sessions[s].entries[n]
    <3> SUFFICES ASSUME NEW e \in Seq(Nat), NEW x, x = e \/ x = Append(e, i)
                 PROVE  Len(e) <= Len(x) /\ \A n \in 1 .. Len(e) : x[n] = e[n]
      BY <1>3, <2>1
    <3>1. Len(e) \in Nat
      OBVIOUS
    <3>2. CASE x = e
      BY <3>1, <3>2
    <3>3. CASE x = Append(e, i)
      <4>1. i \in Nat
        BY <1>5
      <4> QED
        BY <3>1, <3>3, <4>1
    <3> QED
      BY <3>2, <3>3
  <2> QED
    BY <1>1, <1>2, <1>3, <2>2 DEF SessionsGrow
<1>7. Has(j, i, sessions', sessionMap')
  <2>1. Len(old) + 1 \in 1 .. Len(sessions'[r].entries) /\ sessions'[r].entries[Len(old) + 1] = i
    BY <1>1, <1>5
  <2>2. r # 0
    BY <1>1
  <2> QED
    BY <2>1, <2>2 DEF Has
<1>8. ASSUME NEW q \in Jobs, sessionMap[q] # 0
      PROVE  /\ sessionMap'[q] \in 1 .. Len(sessions') /\ sessionMap'[q] # 0
             /\ Len(sessions[sessionMap[q]].entries) <= Len(sessions'[sessionMap'[q]].entries)
             /\ \A n \in 1 .. Len(sessions[sessionMap[q]].entries) :
                  sessions'[sessionMap'[q]].entries[n] = sessions[sessionMap[q]].entries[n]
  <2>1. CASE q = j
    <3>1. old = sessions[sessionMap[q]].entries /\ sessionMap'[q] = r
      BY <1>1, <1>3, <1>8, <2>1 DEF OldEntries
    <3>2. r \in 1 .. Len(sessions') /\ r # 0 /\ sessions'[r].entries = Append(old, i)
      BY <1>1
    <3>3. Len(old) <= Len(sessions'[r].entries)
          /\ \A n \in 1 .. Len(old) : sessions'[r].entries[n] = old[n]
      BY <1>5, <3>2
    <3> HIDE DEF old, r
    <3> QED
      BY <3>1, <3>2, <3>3
  <2>2. CASE q # j
    <3>1. sessionMap'[q] = sessionMap[q] /\ sessionMap[q] \in 1 .. Len(sessions)
      BY <1>1, <1>3, <1>8, <2>2
    <3>2. Len(sessions) <= Len(sessions')
      BY <1>6 DEF SessionsGrow
    <3> QED
      BY <1>3, <1>6, <3>1, <3>2 DEF SessionsGrow
  <2> QED
    BY <2>1, <2>2
<1>9. \A q \in Jobs : \A h : Has(q, h, sessions, sessionMap) => Has(q, h, sessions', sessionMap')
  BY <1>1, <1>3, <1>6, <1>8, HasGrows
<1>10. ASSUME NEW q \in Jobs, IsRooted(q, feed, sessions', sessionMap')
       PROVE  \/ IsRooted(q, feed, sessions, sessionMap)
              \/ q = j /\ sessionMap[q] = 0 /\ First(feed, i)
  <2>1. CASE sessionMap[q] # 0
    <3>1. 1 \in 1 .. Len(sessions[sessionMap[q]].entries)
      BY <1>3, <2>1
    <3>2. sessions'[sessionMap'[q]].entries[1] = sessions[sessionMap[q]].entries[1]
      BY <1>8, <2>1, <3>1
    <3> QED
      BY <1>10, <2>1, <3>2 DEF IsRooted
  <2>2. CASE sessionMap[q] = 0
    <3>1. q = j
      BY <1>1, <1>3, <1>10, <2>2 DEF IsRooted
    <3>2. sessions'[r].entries = Append(<<>>, i)
      BY <1>1, <2>2, <3>1 DEF OldEntries
    <3>3. sessions'[r].entries[1] = i
      BY <1>5, <3>2
    <3> QED
      BY <1>10, <2>2, <3>1, <3>3 DEF IsRooted
  <2> QED
    BY <2>1, <2>2
<1> HIDE DEF r, old
<1> QED
  BY <1>7, <1>8, <1>9, <1>10

\* The job of an entry of the feed.
LEMMA JobOf ==
  ASSUME Shape, NEW i \in 1 .. Len(feed)
  PROVE  feed[i].job \in Jobs
<1>1. feed[i] \in EntryType
  BY DEF Shape, FeedShape
<1> QED
  BY <1>1 DEF EntryType

LEMMA HeardTaken ==
  ASSUME OneStart, Shape, Steady(streams[1], boots[1], sessionMap),
         NEW i \in 1 .. Len(feed), Takes(i), NEW c \in 1 .. Len(feed) + 1,
         Heard(c, feed, streams[1], sessions, sessionMap, boots[1])
  PROVE  Heard(c, feed, streams'[1], sessions', sessionMap', boots'[1])
<1> DEFINE t == streams[1]
           u == streams'[1]
           j == feed[i].job
<1>1. /\ boots' = boots /\ i = t.next /\ u = [state |-> t.state, next |-> i + 1, last |-> i]
      /\ Dispatch(i)
  BY DEF Takes, Arrives
<1>2. t.last \in 0 .. Len(feed) /\ Len(feed) \in Nat
  BY OnlyOne
<1>3. u.last = i
  BY <1>1
<1>4. /\ t.last = 0 => i = c
      /\ t.last # 0 => t.last >= c - 1 /\ i \in {t.last, t.last + 1}
  BY <1>1 DEF Heard, HeardLive, Steady
<1>5. i >= c - 1
  BY <1>2, <1>4
<1>6. /\ Has(j, i, sessions', sessionMap')
      /\ \A q \in Jobs : \A h : Has(q, h, sessions, sessionMap) => Has(q, h, sessions', sessionMap')
  BY <1>1, TakenHas
<1>7. \A q \in Jobs : sessionMap[q] # 0 => sessionMap'[q] # 0
  BY <1>1, TakenHas
<1>8. \A q \in Jobs : IsRooted(q, feed, sessions', sessionMap') =>
        \/ IsRooted(q, feed, sessions, sessionMap)
        \/ q = j /\ sessionMap[q] = 0 /\ First(feed, i)
  BY <1>1, TakenHas
<1>9. HeardLive(c, feed, u, sessions', sessionMap')
  <2>1. ASSUME NEW h \in c .. i PROVE Has(feed[h].job, h, sessions', sessionMap')
    <3>1. CASE h = i
      BY <1>6, <3>1
    <3>2. CASE h # i
      <4>1. h \in c .. t.last /\ h \in 1 .. Len(feed)
        BY <1>2, <1>4, <3>2
      <4>2. Has(feed[h].job, h, sessions, sessionMap)
        BY <4>1 DEF Heard, HeardLive
      <4> QED
        BY <1>6, <4>1, <4>2, JobOf
    <3> QED
      BY <3>1, <3>2
  <2>2. i # 0
    OBVIOUS
  <2> HIDE DEF u
  <2> QED
    BY <1>3, <1>5, <2>1, <2>2 DEF HeardLive
<1>10. HeardBefore(c, feed, sessions', sessionMap')
  <2> SUFFICES ASSUME NEW h \in 1 .. c - 1, IsRooted(feed[h].job, feed, sessions', sessionMap')
               PROVE  Has(feed[h].job, h, sessions', sessionMap')
    BY DEF HeardBefore
  <2>1. h \in 1 .. Len(feed) /\ feed[h].job \in Jobs
    BY <1>2, JobOf
  <2>2. CASE IsRooted(feed[h].job, feed, sessions, sessionMap)
    <3>1. Has(feed[h].job, h, sessions, sessionMap)
      BY <2>2 DEF Heard, HeardBefore
    <3> QED
      BY <1>6, <2>1, <3>1
  <2>3. CASE feed[h].job = j /\ First(feed, i)
    <3>1. ~ (h \in 1 .. i - 1)
      BY <2>3 DEF First
    <3>2. h = i
      BY <1>2, <1>5, <3>1
    <3> QED
      BY <1>6, <3>2
  <2> QED
    BY <1>8, <2>1, <2>2, <2>3
<1>11. Hydration(c, feed, boots[1], sessionMap')
  <2> DEFINE boot == boots[1]
  <2>1. Hydration(c, feed, boot, sessionMap)
    BY DEF Heard
  <2>2. \A h \in 1 .. c - 1 : feed[h].job \in Jobs
    BY <1>2, JobOf
  <2> HIDE DEF boot
  <2>3. boot.pc \in {"history", "adopt", "fetch", "done"} =>
          \A h \in 1 .. c - 1 : Active(feed[h].job, feed) =>
            \/ feed[h].job \in boot.todo \/ sessionMap'[feed[h].job] # 0
            \/ boot.pc = "adopt" /\ feed[h].job = feed[boot.hist[1]].job
    BY <1>7, <2>1, <2>2 DEF Hydration
  <2>4. Hydration(c, feed, boot, sessionMap')
    BY <2>1, <2>3 DEF Hydration
  <2> QED
    BY <2>4 DEF boot
<1> QED
  BY <1>1, <1>9, <1>10, <1>11 DEF Heard

\* A resent entry is dropped: it is the last that came, and was taken then.
LEMMA HeardDropped ==
  ASSUME OneStart, Shape, Life, started, streams[1].state = "listening",
         NEW i \in 1 .. Len(feed), Drops(i), NEW c \in 1 .. Len(feed) + 1,
         Heard(c, feed, streams[1], sessions, sessionMap, boots[1])
  PROVE  Heard(c, feed, streams'[1], sessions', sessionMap', boots'[1])
<1> DEFINE t == streams[1]
           u == streams'[1]
<1>1. Arrives(i) /\ Unmoved /\ Key(feed[i]) \in seenEntries
  BY DEF Drops, Life
<1>2. boots' = boots /\ i = t.next /\ u = [state |-> t.state, next |-> i + 1, last |-> i]
      /\ sessions' = sessions /\ sessionMap' = sessionMap
  BY <1>1 DEF Arrives, Unmoved
<1>3. t.last \in 0 .. Len(feed) /\ Len(feed) \in Nat
  BY OnlyOne
<1>4. PICK h \in 1 .. t.last : Key(feed[i]) = Key(feed[h])
  BY <1>1 DEF Life, Came
<1>5. h = i
  <2>1. feed[h].at = feed[i].at /\ h \in 1 .. Len(feed)
    BY <1>3, <1>4 DEF Key
  <2>2. \A a \in 1 .. Len(feed) : feed[a].at \in Nat
    <3>1. \A a \in 1 .. Len(feed) : feed[a] \in EntryType
      BY DEF Shape, FeedShape
    <3> QED
      BY <3>1, ConstantsAssumption DEF EntryType
  <2>3. ~ (h < i) /\ ~ (i < h)
    BY <2>1, <2>2 DEF Life, Apart
  <2> QED
    BY <1>3, <2>1, <2>3
<1>6. t.last = i
  <2>1. t.last # 0 /\ i <= t.last
    BY <1>3, <1>4, <1>5
  <2>2. i \in {t.last, t.last + 1}
    BY <1>2, <2>1 DEF Life, Steady
  <2> QED
    BY <1>3, <2>1, <2>2
<1>7. u.last = t.last /\ t.last # 0
  BY <1>2, <1>6
<1>8. HeardLive(c, feed, t, sessions, sessionMap) => HeardLive(c, feed, u, sessions, sessionMap)
  <2> HIDE DEF t, u
  <2> QED
    BY <1>7 DEF HeardLive
<1> QED
  BY <1>2, <1>8 DEF Heard

LEMMA HeardAdopted ==
  ASSUME OneStart, Shape, Adopts, NEW c \in 1 .. Len(feed) + 1,
         Heard(c, feed, streams[1], sessions, sessionMap, boots[1])
  PROVE  Heard(c, feed, streams'[1], sessions', sessionMap', boots'[1])
<1> DEFINE boot == boots[1]
           b == boots'[1]
           j == RoomOf(boot)
           h == boot.hist
<1>1. /\ streams' = streams /\ Adopting(boot, b) /\ j \in Jobs /\ j = feed[h[1]].job
      /\ boot.pc = "adopt" /\ b.pc = "fetch" /\ b.todo = boot.todo /\ b.hist = h
  BY DEF Adopts, Adopting, RoomOf
<1>2. Len(feed) \in Nat /\ h \in Seq(Nat) /\ h # <<>> /\ streams[1].last \in 0 .. Len(feed)
  BY OnlyOne DEF Adopts, BootType
<1>3. sessions \in Seq(SessionType) /\ Len(sessions) \in Nat /\ sessionMap \in [Jobs -> 0 .. Len(sessions)]
  BY DEF Shape, SessionShape
<1>4. \A i \in 1 .. c - 1 : feed[i].job = j => \E n \in 1 .. Len(h) : h[n] = i
  BY <1>1 DEF Heard, Hydration
<1>5. Hydration(c, feed, boot, sessionMap)
  BY DEF Heard
<1>6. \A i \in 1 .. c - 1 : i \in 1 .. Len(feed) /\ feed[i].job \in Jobs
  BY <1>2, JobOf
<1>7. \A i \in c .. streams[1].last : i \in 1 .. Len(feed) /\ feed[i].job \in Jobs
  BY <1>2, JobOf
<1>8. ASSUME NEW map, map[j] # 0, \A q \in Jobs : sessionMap[q] # 0 => map[q] # 0
      PROVE  Hydration(c, feed, b, map)
  <2>1. \A i \in 1 .. c - 1 : Active(feed[i].job, feed) =>
          feed[i].job \in b.todo \/ map[feed[i].job] # 0
    BY <1>1, <1>5, <1>6, <1>8 DEF Hydration
  <2>2. \A i \in 1 .. c - 1 : feed[i].job = feed[b.hist[1]].job => \E n \in 1 .. Len(b.hist) : b.hist[n] = i
    BY <1>1, <1>4
  <2>3. b.pc = "fetch"
    BY <1>1
  <2> HIDE DEF b
  <2> QED
    BY <2>1, <2>2, <2>3 DEF Hydration
<1>9. CASE Unmoved /\ sessionMap[j] # 0
  <2>1. sessions' = sessions /\ sessionMap' = sessionMap
    BY <1>9 DEF Unmoved
  <2>2. Hydration(c, feed, b, sessionMap)
    BY <1>8, <1>9
  <2> QED
    BY <1>1, <2>1, <2>2 DEF Heard
<1>10. CASE /\ sessionMap[j] = 0 /\ sessions' = Append(sessions, NewSession(j, h))
            /\ sessionMap' = [sessionMap EXCEPT ![j] = Len(sessions) + 1]
  <2>1. /\ \A s \in 1 .. Len(sessions) : sessions'[s] = sessions[s]
        /\ sessions'[Len(sessions) + 1] = NewSession(j, h)
    BY <1>3, <1>10
  <2>2. NewSession(j, h).entries = h
    BY DEF NewSession
  <2>3. sessionMap'[j] = Len(sessions) + 1 /\ sessionMap'[j] # 0 /\ sessions'[sessionMap'[j]].entries = h
    BY <1>1, <1>3, <1>10, <2>1, <2>2
  <2>4. \A q \in Jobs : q # j => /\ sessionMap'[q] = sessionMap[q]
                                 /\ sessionMap[q] # 0 => sessions'[sessionMap[q]] = sessions[sessionMap[q]]
    BY <1>3, <1>10, <2>1
  <2>5. \A q \in Jobs : \A i : Has(q, i, sessions, sessionMap) => Has(q, i, sessions', sessionMap')
    BY <1>10, <2>4 DEF Has
  <2>6. HeardLive(c, feed, streams[1], sessions', sessionMap')
    BY <1>7, <2>5 DEF Heard, HeardLive
  <2>7. HeardBefore(c, feed, sessions', sessionMap')
    <3> SUFFICES ASSUME NEW i \in 1 .. c - 1, IsRooted(feed[i].job, feed, sessions', sessionMap')
                 PROVE  Has(feed[i].job, i, sessions', sessionMap')
      BY DEF HeardBefore
    <3>1. feed[i].job \in Jobs
      BY <1>6
    <3>2. CASE feed[i].job = j
      <4>1. PICK n \in 1 .. Len(h) : h[n] = i
        BY <1>4, <3>2
      <4> HIDE DEF h
      <4> QED
        BY <2>3, <3>2, <4>1 DEF Has
    <3>3. CASE feed[i].job # j
      <4>1. IsRooted(feed[i].job, feed, sessions, sessionMap)
        BY <2>4, <3>1, <3>3 DEF IsRooted
      <4>2. Has(feed[i].job, i, sessions, sessionMap)
        BY <4>1 DEF Heard, HeardBefore
      <4> QED
        BY <2>5, <3>1, <4>2
    <3> QED
      BY <3>2, <3>3
  <2>8. \A q \in Jobs : sessionMap[q] # 0 => sessionMap'[q] # 0
    BY <2>3, <2>4
  <2>9. Hydration(c, feed, b, sessionMap')
    BY <1>8, <2>3, <2>8
  <2> QED
    BY <1>1, <2>6, <2>7, <2>9 DEF Heard
<1> QED
  BY <1>9, <1>10 DEF Adopts

LEMMA HeardHydrates ==
  ASSUME OneStart, Shape, Hydrates, NEW c \in 1 .. Len(feed) + 1,
         Heard(c, feed, streams[1], sessions, sessionMap, boots[1])
  PROVE  Heard(c, feed, streams'[1], sessions', sessionMap', boots'[1])
<1> DEFINE boot == boots[1]
           b == boots'[1]
<1>1. streams' = streams /\ sessions' = sessions /\ sessionMap' = sessionMap
  BY DEF Hydrates, Unmoved
<1>2. Len(feed) \in Nat /\ BootFits(boot, feed, sessions) /\ boot \in BootType
  BY OnlyOne
<1>3. \A i \in 1 .. c - 1 : i \in 1 .. Len(feed) /\ feed[i].job \in Jobs
  BY <1>2, JobOf
<1>4. Hydration(c, feed, boot, sessionMap)
  BY DEF Heard
<1> HIDE DEF boot, b
<1>5. ASSUME Listing(boot, b) PROVE Hydration(c, feed, b, sessionMap)
  <2>1. \A i \in 1 .. c - 1 : Active(feed[i].job, feed) => feed[i].job \in ActiveJobs
    <3>1. DOMAIN feed = 1 .. Len(feed)
      BY DEF Shape, FeedShape
    <3> QED
      BY <1>3, <3>1 DEF ActiveJobs, Active, Kind
  <2>2. b.todo = ActiveJobs /\ (b.pc = "history" \/ (b.pc = "done" /\ b.todo = {}))
    BY <1>5 DEF Listing, Onward
  <2> QED
    BY <2>1, <2>2 DEF Hydration
<1>6. ASSUME NEW j \in boot.todo, Reading(boot, b, j) PROVE Hydration(c, feed, b, sessionMap)
  <2>1. boot.pc = "history" /\ b.todo = boot.todo \ {j} /\ b.hist = Room(j)
    BY <1>6 DEF Reading
  <2>2. \A i \in 1 .. c - 1 : Active(feed[i].job, feed) =>
          feed[i].job \in b.todo \/ feed[i].job = j \/ sessionMap[feed[i].job] # 0
    BY <1>4, <2>1 DEF Hydration
  <2>3. /\ Room(j) \in Seq(Nat) /\ Belong(Room(j), j, feed)
        /\ \A i \in 1 .. Len(feed) : feed[i].job = j => \E n \in 1 .. Len(Room(j)) : Room(j)[n] = i
        /\ Room(j) # <<>> <=> \E i \in 1 .. Len(feed) : feed[i].job = j
    BY RoomIs, RoomBelongs DEF Shape
  <2>4. CASE Room(j) = <<>>
    <3>1. b.pc = "history" \/ (b.pc = "done" /\ b.todo = {})
      BY <1>6, <2>4 DEF Reading, Onward
    <3>2. \A i \in 1 .. c - 1 : feed[i].job # j
      BY <1>3, <2>3, <2>4
    <3> QED
      BY <2>2, <3>1, <3>2 DEF Hydration
  <2>5. CASE Room(j) # <<>>
    <3>1. b.pc = "adopt"
      BY <1>6, <2>5 DEF Reading
    <3>2. 1 \in 1 .. Len(Room(j))
      BY <2>3, <2>5
    <3>3. feed[b.hist[1]].job = j
      BY <2>1, <2>3, <3>2 DEF Belong
    <3>4. \A i \in 1 .. c - 1 : feed[i].job = j => \E n \in 1 .. Len(b.hist) : b.hist[n] = i
      BY <1>3, <2>1, <2>3
    <3> QED
      BY <2>2, <3>1, <3>3, <3>4 DEF Hydration
  <2> QED
    BY <2>4, <2>5
<1>7. ASSUME Finishing(boot, b) PROVE Hydration(c, feed, b, sessionMap)
  <2>1. boot.pc = "fetch" /\ b.todo = boot.todo
        /\ (b.pc = "history" \/ (b.pc = "done" /\ b.todo = {}))
    BY <1>7 DEF Finishing, Onward
  <2>2. \A i \in 1 .. c - 1 : Active(feed[i].job, feed) =>
          feed[i].job \in b.todo \/ sessionMap[feed[i].job] # 0
    BY <1>4, <2>1 DEF Hydration
  <2> QED
    BY <2>1, <2>2 DEF Hydration
<1>8. ASSUME Failing(boot, b) PROVE Hydration(c, feed, b, sessionMap)
  BY <1>8 DEF Failing, Hydration
<1>9. Hydration(c, feed, b, sessionMap)
  BY <1>5, <1>6, <1>7, <1>8 DEF Hydrates, boot, b
<1> QED
  BY <1>1, <1>9 DEF Heard, b

\* What connects has heard nothing yet, and hears from now on.
LEMMA HeardConnects ==
  ASSUME OneStart, Shape, Steady(streams[1], boots[1], sessionMap), Connects, started'
  PROVE  \E c \in 1 .. Len(feed) + 1 : Heard(c, feed, streams'[1], sessions', sessionMap', boots'[1])
<1> DEFINE t == streams[1]
           u == streams'[1]
           c == IF t.last = 0 THEN t.next ELSE t.last + 1
<1>1. t \in StreamType /\ t.last \in 0 .. Len(feed) /\ t.next \in 1 .. Len(feed) + 1 /\ Len(feed) \in Nat
  BY OnlyOne
<1>2. u = [t EXCEPT !.state = "listening"]
  BY DEF Connects
<1>3. u.last = t.last /\ u.next = t.next
  BY <1>1, <1>2 DEF StreamType
<1>4. c \in 1 .. Len(feed) + 1
  BY <1>1
<1>5. sessions' = sessions /\ sessionMap' = sessionMap /\ boots'[1].pc = "jobs" /\ boots[1].pc = "connect"
  BY DEF Connects, Unmoved
<1>6. \A j \in Jobs : sessionMap[j] = 0
  BY <1>5 DEF Steady
<1>7. \A i \in 1 .. c - 1 : feed[i].job \in Jobs
  <2>1. \A i \in 1 .. c - 1 : i \in 1 .. Len(feed)
    BY <1>1, <1>4
  <2> QED
    BY <2>1, JobOf
<1>8. HeardLive(c, feed, u, sessions, sessionMap)
  <2>1. IF u.last = 0 THEN u.next = c ELSE u.last >= c - 1
    BY <1>1, <1>3
  <2>2. ~ \E i \in c .. u.last : TRUE
    BY <1>1, <1>3
  <2> HIDE DEF u, c
  <2> QED
    BY <2>1, <2>2 DEF HeardLive
<1> HIDE DEF c
<1>9. HeardBefore(c, feed, sessions, sessionMap)
  BY <1>6, <1>7 DEF HeardBefore, IsRooted
<1>10. Hydration(c, feed, boots'[1], sessionMap)
  BY <1>5 DEF Hydration
<1> QED
  BY <1>4, <1>5, <1>8, <1>9, <1>10 DEF Heard

LEMMA HeardResends ==
  ASSUME OneStart, Lossless, Shape, Resends, NEW c \in 1 .. Len(feed) + 1,
         Heard(c, feed, streams[1], sessions, sessionMap, boots[1])
  PROVE  Heard(c, feed, streams'[1], sessions', sessionMap', boots'[1])
<1> DEFINE t == streams[1]
           u == streams'[1]
<1>1. t \in StreamType
  BY OnlyOne
<1>2. PICK n \in IF t.last = 0 THEN {t.next} ELSE {t.last, t.last + 1} : u = [t EXCEPT !.next = n]
  BY DEF Resends, Lossless
<1>3. u.last = t.last /\ u.next = n /\ (t.last = 0 => n = t.next)
  BY <1>1, <1>2 DEF StreamType
<1>4. boots' = boots /\ sessions' = sessions /\ sessionMap' = sessionMap
  BY DEF Resends, Unmoved
<1>5. HeardLive(c, feed, t, sessions, sessionMap) => HeardLive(c, feed, u, sessions, sessionMap)
  <2> HIDE DEF t, u
  <2> QED
    BY <1>3 DEF HeardLive
<1> QED
  BY <1>4, <1>5 DEF Heard

LEMMA HearsStep ==
  ASSUME OneStart, Lossless, Shape, Life, [Next]_vars, HearsNow
  PROVE  HearsNow'
<1> DEFINE t == streams[1]
           u == streams'[1]
<1> SUFFICES ASSUME started', u.state = "listening"
             PROVE  \E c \in 1 .. Len(feed') + 1 : Heard(c, feed', u, sessions', sessionMap', boots'[1])
  BY DEF HearsNow, Hears
<1>1. \A x : [t EXCEPT !.state = x].state = x
  BY OnlyOne DEF StreamType
<1>2. \A x : [t EXCEPT !.next = x].state = t.state
  BY OnlyOne DEF StreamType
<1>3. ASSUME started, t.state = "listening"
      PROVE  \E c \in 1 .. Len(feed) + 1 : Heard(c, feed, t, sessions, sessionMap, boots[1])
  BY <1>3 DEF HearsNow, Hears
<1>4. CASE Rests
  BY <1>3, <1>4 DEF Rests, Unmoved
<1>5. CASE Publishes
  <2>1. UNCHANGED <<streams, boots, sessions, sessionMap, started>>
    BY <1>5 DEF Publishes
  <2>2. Shape' /\ feed' \in Seq(EntryType) /\ FeedGrows(feed, feed') /\ 1 \in Starts
    BY ShapeStep, FeedStep, OnlyOne DEF Shape, FeedShape
  <2>3. PICK c \in 1 .. Len(feed) + 1 : Heard(c, feed, t, sessions, sessionMap, boots[1])
    BY <1>3, <2>1
  <2>4. Heard(c, feed', t, sessions, sessionMap, boots[1])
    BY <2>1, <2>2, <2>3, HeardPublished
  <2>5. c \in 1 .. Len(feed') + 1
    <3>1. Len(feed) \in Nat /\ Len(feed') \in Nat /\ Len(feed) <= Len(feed')
      BY <2>2 DEF FeedGrows, Shape, FeedShape
    <3> QED
      BY <3>1
  <2> QED
    BY <2>1, <2>4, <2>5
<1>6. CASE Begins \/ Accepted
  <2>1. ASSUME Begins PROVE FALSE
    <3>1. u = [t EXCEPT !.state = "opening"]
      BY <2>1 DEF Begins
    <3>2. u.state = "opening"
      BY <1>1, <3>1
    <3> QED
      BY <3>2
  <2>2. ASSUME Accepted PROVE FALSE
    <3>1. u = [state |-> "open", next |-> Len(feed) + 1, last |-> 0]
      BY <2>2 DEF Accepted
    <3>2. u.state = "open"
      BY <3>1
    <3> QED
      BY <3>2
  <2> QED
    BY <1>6, <2>1, <2>2
<1>7. CASE Resends
  <2>1. t.state = "listening" /\ started /\ feed' = feed
    BY <1>2, <1>7 DEF Resends, Unmoved
  <2> QED
    BY <1>3, <1>7, <2>1, HeardResends
<1>8. ASSUME NEW i \in 1 .. Len(feed), Drops(i) \/ Takes(i)
      PROVE  \E c \in 1 .. Len(feed') + 1 : Heard(c, feed', u, sessions', sessionMap', boots'[1])
  <2>1. Arrives(i)
    BY <1>8 DEF Drops, Takes
  <2>2. t.state = "listening" /\ started /\ feed' = feed
    <3>1. u.state = t.state
      BY <2>1 DEF Arrives
    <3> QED
      BY <2>1, <3>1 DEF Arrives
  <2>3. PICK c \in 1 .. Len(feed) + 1 : Heard(c, feed, t, sessions, sessionMap, boots[1])
    BY <1>3, <2>2
  <2>4. Heard(c, feed, u, sessions', sessionMap', boots'[1])
    BY <1>8, <2>2, <2>3, HeardTaken, HeardDropped DEF Life
  <2> QED
    BY <2>2, <2>4
<1>9. CASE GivesUp
  <2>1. PICK x \in {"closed", t.state} : u = [t EXCEPT !.state = x]
    BY <1>9 DEF GivesUp
  <2>2. t.state = "listening" /\ boots[1].pc = "connect"
    BY <1>1, <1>9, <2>1 DEF GivesUp
  <2> QED
    BY <2>2 DEF Life, Steady
<1>10. CASE Connects
  BY <1>10, HeardConnects DEF Life, Connects, Unmoved
<1>11. CASE Hydrates \/ Adopts
  <2>1. t.state = "listening" /\ started /\ feed' = feed
    BY <1>11 DEF Hydrates, Adopts, Unmoved
  <2> QED
    BY <1>3, <1>11, <2>1, HeardHydrates, HeardAdopted
<1>12. CASE Stops
  BY <1>12 DEF Stops
<1> QED
  BY <1>4, <1>5, <1>6, <1>7, <1>8, <1>9, <1>10, <1>11, <1>12, LifeChange

LEMMA LifeInit ==
  ASSUME OneStart, Init
  PROVE  Life /\ HearsNow
<1>1. streams[1] = [state |-> "none", next |-> 1, last |-> 0] /\ feed = <<>> /\ seenEntries = {}
      /\ started = FALSE /\ onEntry = FALSE /\ sessionMap = [j \in Jobs |-> 0]
  BY DEF Init, OneStart, Starts
<1>2. streams[1].state = "none" /\ streams[1].next = 1 /\ streams[1].last = 0
  BY <1>1
<1>3. Apart(feed) /\ Came(seenEntries, feed, streams[1])
  BY <1>1 DEF Apart, Came
<1>4. Steady(streams[1], boots[1], sessionMap)
  BY <1>1, <1>2 DEF Steady
<1> QED
  BY <1>1, <1>3, <1>4 DEF Life, HearsNow, Hears

LEMMA HearsFollows ==
  ASSUME OneStart, Shape, Life, HearsNow
  PROVE  Follows
<1> DEFINE t == streams[1]
<1> SUFFICES ASSUME Listening, boots[es].pc = "done", NEW j \in ActiveJobs
             PROVE  LET past == {i \in Range(Room(j)) :
                                   \A k \in Starts : streams[k].state = "listening" => i < streams[k].next}
                        s == sessionMap[j]
                    IN past # {} => s # 0 /\ (Rooted(s) => past \subseteq Range(sessions[s].entries))
  BY DEF Follows
<1>1. es = 1 /\ started /\ t.state = "listening" /\ boots[1].pc = "done"
  <2>1. es \in Starts
    BY ConstantsAssumption DEF Listening, Shape, StreamShape, Starts
  <2> QED
    BY <2>1, OnlyOne DEF Listening
<1>2. PICK c \in 1 .. Len(feed) + 1 : Heard(c, feed, t, sessions, sessionMap, boots[1])
  BY <1>1 DEF HearsNow, Hears
<1>3. t.last \in 0 .. Len(feed) /\ t.next \in 1 .. Len(feed) + 1 /\ Len(feed) \in Nat /\ 1 \in Starts
  BY OnlyOne
<1>4. j \in Jobs /\ Active(j, feed)
  <2>1. DOMAIN feed = 1 .. Len(feed)
    BY DEF Shape, FeedShape
  <2> QED
    BY <2>1 DEF ActiveJobs, Active, Kind
<1>5. ASSUME NEW i \in Range(Room(j)), i < t.next
      PROVE  /\ sessionMap[j] # 0
             /\ IsRooted(j, feed, sessions, sessionMap) => Has(j, i, sessions, sessionMap)
  <2>1. i \in 1 .. Len(feed) /\ feed[i].job = j
    <3>1. Room(j) \in Seq(Nat) /\ Belong(Room(j), j, feed)
      BY RoomIs, RoomBelongs DEF Shape
    <3>2. PICK n \in 1 .. Len(Room(j)) : Room(j)[n] = i
      BY <3>1 DEF Range
    <3> QED
      BY <3>1, <3>2 DEF Belong
  <2>2. CASE i < c
    <3>1. i \in 1 .. c - 1
      BY <1>2, <1>3, <2>1, <2>2
    <3>2. sessionMap[j] # 0
      BY <1>1, <1>2, <1>4, <2>1, <3>1 DEF Heard, Hydration
    <3>3. IsRooted(j, feed, sessions, sessionMap) => Has(j, i, sessions, sessionMap)
      BY <1>2, <2>1, <3>1 DEF Heard, HeardBefore
    <3> QED
      BY <3>2, <3>3
  <2>3. CASE ~ (i < c)
    <3>1. /\ IF t.last = 0 THEN t.next = c ELSE t.last >= c - 1
          /\ \A h \in c .. t.last : Has(feed[h].job, h, sessions, sessionMap)
      BY <1>2 DEF Heard, HeardLive
    <3>2. t.last # 0 => t.next \in {t.last, t.last + 1}
      BY DEF Life, Steady
    <3>3. i \in c .. t.last
      BY <1>2, <1>3, <1>5, <2>1, <2>3, <3>1, <3>2
    <3>4. Has(j, i, sessions, sessionMap)
      BY <2>1, <3>1, <3>3
    <3> QED
      BY <3>4 DEF Has
  <2> QED
    BY <2>2, <2>3
<1>6. ASSUME sessionMap[j] # 0
      PROVE  /\ Rooted(sessionMap[j]) => IsRooted(j, feed, sessions, sessionMap)
             /\ \A i : Has(j, i, sessions, sessionMap) => i \in Range(sessions[sessionMap[j]].entries)
  <2> DEFINE entries == sessions[sessionMap[j]].entries
  <2>1. entries \in Seq(Nat) /\ entries # <<>> /\ Belong(entries, j, feed) /\ sessions[sessionMap[j]].job = j
    BY <1>4, <1>6, EntriesAre DEF Shape, SessionShape
  <2>2. 1 \in 1 .. Len(entries) /\ Head(entries) = entries[1] /\ DOMAIN entries = 1 .. Len(entries)
    <3> HIDE DEF entries
    <3> QED
      BY <2>1
  <2>3. entries[1] \in 1 .. Len(feed) /\ feed[entries[1]].job = j
    BY <2>1, <2>2 DEF Belong
  <2>4. Head(Room(j)) = entries[1] <=> First(feed, entries[1])
    BY <2>3, RoomHead DEF Shape
  <2>5. Rooted(sessionMap[j]) => First(feed, entries[1])
    BY <2>1, <2>2, <2>4 DEF Rooted
  <2> QED
    BY <1>6, <2>2, <2>5 DEF IsRooted, Has, Range
<1> QED
  BY <1>1, <1>3, <1>5, <1>6

\* Once the one start() has resolved, every active room the agent could have
\* heard of has a session, and one that knows the beginning of its room
\* misses no entry the stream is past.  (A second start() is not safe: the
\* first one's hydration can outlive a stop() and adopt an older history.)
THEOREM FollowsCorrect == ASSUME OneStart, Lossless PROVE Spec => []Follows
<1>1. Init => StreamOrder /\ Life /\ HearsNow
  BY OverlapInit, LifeInit
<1>2. Shape /\ (StreamOrder /\ Life /\ HearsNow) /\ [Next]_vars => (StreamOrder /\ Life /\ HearsNow)'
  BY StreamLife, LifeStep, HearsStep
<1>3. Shape /\ Life /\ HearsNow => Follows
  BY HearsFollows
<1> QED
  BY <1>1, <1>2, <1>3, ShapeAlways, PTL DEF Spec

=============================================================================
