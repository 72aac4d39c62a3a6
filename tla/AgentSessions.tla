--------------------------- MODULE AgentSessions ---------------------------
(***************************************************************************)
(* How an agent follows its job rooms: AcpAgent.start/stop, the hydration  *)
(* of the rooms that exist already, the dispatch of the entries the chat   *)
(* stream delivers (acpAgent.ts), the stream itself (events/sseTransport)  *)
(* and the JobSession each room gets (jobSession.ts).                      *)
(*                                                                         *)
(* The backend appends entries to its rooms; `feed` is all of them in the  *)
(* order it pushes them, and an entry is known by its place in the feed.   *)
(* JavaScript runs one turn at a time: every action is the code between    *)
(* two awaits, and what interleaves are start() calls, dispatches waiting  *)
(* for fetchJob, stop(), the network and the backend.                      *)
(***************************************************************************)
EXTENDS Selection, FiniteSets, SequencesExt

CONSTANTS
  Jobs,          \* the rooms
  Party,         \* the agent's addresses in each job: [Jobs -> SUBSET AgentRole]
  Kinds,         \* the entries the backend writes in this model
  MaxEntries,    \* bound: entries in the feed
  MaxStarts,     \* bound: calls of start()
  MaxDrops,      \* bound: connection losses of the chat streams
  Early,         \* bound: the entries written before the first start()
  Replays,       \* after a loss the server resends what the stream missed
  Simultaneous   \* two entries may carry the same timestamp

AgentRole == {"client", "provider", "evaluator"}

TerminalKinds == {"job.completed", "job.rejected"}
SystemKinds ==
  {"job.created", "budget.set", "job.funded", "job.submitted"} \cup TerminalKinds
AllKinds == SystemKinds \cup {"message", "own"}

ASSUME ConstantsAssumption ==
  /\ Party \in [Jobs -> SUBSET AgentRole]
  /\ Kinds \subseteq AllKinds
  /\ MaxEntries \in Nat /\ MaxStarts \in Nat /\ MaxDrops \in Nat /\ Early \in Nat
  /\ Replays \in BOOLEAN /\ Simultaneous \in BOOLEAN

Starts == 1 .. MaxStarts

VARIABLES
  feed,       \* the backend's entries: sequence of [job, kind, at]
  drops,      \* connection losses so far
  streams,    \* the chat stream each start() opened: [state, next, last], see Reconnect
  es,         \* SseTransport.eventSource: the stream connect() stored, or 0
  onEntry,    \* SseTransport.entryHandler is set
  seenEntries,\* SseTransport.seenEntries
  started,    \* AcpAgent.started
  boots,      \* each start() call: [pc, todo, hist, sess, did]
  sessions,   \* the JobSession objects: [job, roles, entries]
  sessionMap, \* AcpAgent.sessionMap: room -> session, 0 where there is none
  tasks,      \* dispatches waiting for fetchJob: [sess, entry]
  calls       \* handler calls per entry

backend == <<feed, drops>>
transport == <<streams, es, onEntry, seenEntries>>
agent == <<sessions, sessionMap, tasks, calls>>
vars == <<backend, transport, started, boots, agent>>

Room(j) == Select([i \in DOMAIN feed |-> i], {i \in DOMAIN feed : feed[i].job = j})
Kind(i) == feed[i].kind

-----------------------------------------------------------------------------
(* The backend: rooms live through the job's events, messages at any time. *)

IsSystem(i) == Kind(i) \in SystemKinds
JobEvents(entries) == Select(entries, {i \in DOMAIN feed : IsSystem(i)})

NextKinds(j) ==
  LET events == JobEvents(Room(j))
      after == [k \in SystemKinds |->
                  CASE k = "job.created" -> {"budget.set", "job.rejected"}
                    [] k = "budget.set" -> {"budget.set", "job.funded", "job.rejected"}
                    [] k = "job.funded" -> {"job.submitted", "job.rejected"}
                    [] k = "job.submitted" -> TerminalKinds
                    [] k \in TerminalKinds -> {}]
  IN IF events = <<>> THEN {"job.created"}
     ELSE after[Kind(Last(events))] \cup {"message", "own"}

Publish ==
  /\ Len(feed) < MaxEntries
  /\ boots[1].pc = "idle" => Len(feed) < Early
  /\ \E j \in Jobs, k \in Kinds, tick \in IF Simultaneous THEN {0, 1} ELSE {1} :
       /\ k \in NextKinds(j)
       /\ feed' = Append(feed, [job |-> j, kind |-> k,
                                at |-> tick + IF feed = <<>> THEN 0 ELSE Last(feed).at])
  /\ UNCHANGED <<drops, transport, started, boots, agent>>

ActiveJobs ==
  {j \in Jobs : \A i \in DOMAIN feed : feed[i].job = j => Kind(i) \notin TerminalKinds}

-----------------------------------------------------------------------------
(* JobSession.                                                             *)

EventStatus(k) ==
  CASE k = "job.created" -> "open" [] k = "budget.set" -> "budget_set"
    [] k = "job.funded" -> "funded" [] k = "job.submitted" -> "submitted"
    [] k = "job.completed" -> "completed"
    [] k = "job.rejected" -> "rejected"

(* Mutant: the first event decides instead of the last.                    *)
StatusFirst(entries) ==
  IF JobEvents(entries) = <<>> THEN "open" ELSE EventStatus(Kind(Head(JobEvents(entries))))

Status(entries) ==
  IF JobEvents(entries) = <<>> THEN "open" ELSE EventStatus(Kind(Last(JobEvents(entries))))

Responders(k) ==
  CASE k = "job.created" -> {"provider"} [] k = "budget.set" -> {"client"}
    [] k = "job.funded" -> {"provider"} [] k = "job.submitted" -> {"evaluator"}
    [] k \in TerminalKinds -> {"client", "provider"}
    [] OTHER -> {}

ShouldRespond(roles, i) ==
  Kind(i) = "message" \/ (IsSystem(i) /\ roles \cap Responders(Kind(i)) # {})

(* Mutant: an agent that is no party to the job has no role.               *)
InferRolesNoDefault(j, entries) ==
  IF \E i \in Range(entries) : Kind(i) = "job.created" THEN Party[j] ELSE {}

(* Mutant: job.created is looked for in the newest entry only.             *)
InferRolesFromLast(j, entries) ==
  IF entries # <<>> /\ Kind(Last(entries)) = "job.created" /\ Party[j] # {}
    THEN Party[j] ELSE {"provider"}

InferRoles(j, entries) ==
  IF (\E i \in Range(entries) : Kind(i) = "job.created") /\ Party[j] # {}
    THEN Party[j]
    ELSE {"provider"}

NewSession(j, entries) == [job |-> j, roles |-> InferRoles(j, entries), entries |-> entries]

(* fireHandler, after fetchJob answered.                                   *)
FireHandler(s, i) ==
  calls' = IF ShouldRespond(sessions[s].roles, i) THEN [calls EXCEPT ![i] = @ + 1] ELSE calls

-----------------------------------------------------------------------------
(* Dispatch: the turn in which the stream's onmessage hands entry i on.    *)

(* Mutant: no two entries ever have the same key.                          *)
EntryKeyFresh(i) == [at |-> Cardinality(seenEntries), kind |-> "fresh"]

(* The dedup key of onmessage: it names neither the job nor the chain.     *)
EntryKey(i) == [at |-> feed[i].at, kind |-> Kind(i)]


Dispatch(i) ==
  LET j == feed[i].job
      s == sessionMap[j]
      known == IF s = 0 THEN NewSession(j, <<>>) ELSE sessions[s]
      appended == [known EXCEPT !.entries = Append(@, i)]
      rolesChanged == Kind(i) = "job.created" /\ InferRoles(j, <<i>>) # known.roles
      replaced == [appended EXCEPT !.roles = InferRoles(j, <<i>>)]
  IN /\ IF s # 0 /\ ~rolesChanged
          THEN /\ sessions' = [sessions EXCEPT ![s] = appended]
               /\ UNCHANGED sessionMap
          ELSE /\ sessions' = Append(IF s = 0 THEN sessions ELSE [sessions EXCEPT ![s] = appended],
                                     IF rolesChanged THEN replaced ELSE appended)
               /\ sessionMap' = [sessionMap EXCEPT ![j] = Len(sessions')]
     /\ tasks' = tasks \cup {[sess |-> sessionMap'[j], entry |-> i]}
     /\ UNCHANGED calls

(* Mutant of Deliver: entries are ignored while start() hydrates.          *)
DeliverAfterBoot ==
  \E k \in Starts :
    LET i == streams[k].next IN
    /\ streams[k].state \in {"open", "listening"}
    /\ i <= Len(feed)
    /\ streams' = [streams EXCEPT ![k].next = i + 1, ![k].last = i]
    /\ IF streams[k].state = "open" \/ EntryKey(i) \in seenEntries \/ boots[k].pc # "done"
         THEN UNCHANGED <<seenEntries, agent>>
         ELSE /\ seenEntries' = seenEntries \cup {EntryKey(i)}
              /\ IF onEntry THEN Dispatch(i) ELSE UNCHANGED agent
    /\ UNCHANGED <<backend, es, onEntry, started, boots>>

(* onmessage.  Before connect() sets it, what arrives is dropped.          *)
Deliver ==
  \E k \in Starts :
    LET i == streams[k].next IN
    /\ streams[k].state \in {"open", "listening"}
    /\ i <= Len(feed)
    /\ streams' = [streams EXCEPT ![k].next = i + 1, ![k].last = i]
    /\ IF streams[k].state = "open" \/ EntryKey(i) \in seenEntries
         THEN UNCHANGED <<seenEntries, agent>>
         ELSE /\ seenEntries' = seenEntries \cup {EntryKey(i)}
              /\ IF onEntry THEN Dispatch(i) ELSE UNCHANGED agent
    /\ UNCHANGED <<backend, es, onEntry, started, boots>>

DispatchSettles ==
  \E t \in tasks :
    /\ tasks' = tasks \ {t}
    /\ FireHandler(t.sess, t.entry) \/ UNCHANGED calls
    /\ UNCHANGED <<backend, transport, started, boots, sessions, sessionMap>>

-----------------------------------------------------------------------------
(* The chat stream.                                                        *)

(* The server accepts; from now on it pushes what is published.  It need   *)
(* not: openStream's onerror lets an EventSource that cannot connect try   *)
(* again for ever.                                                         *)
OpenStream ==
  \E k \in Starts :
    /\ streams[k].state = "opening"
    /\ streams' = [streams EXCEPT ![k] =
                     [state |-> "open", next |-> Len(feed) + 1, last |-> 0]]
    /\ UNCHANGED <<backend, es, onEntry, seenEntries, started, boots, agent>>

(* EventSource reconnects by itself.  What was on the way is lost, unless  *)
(* the server resends: from Last-Event-ID, the last entry the stream was   *)
(* sent, that entry included or not; from where the stream began if there  *)
(* is none.                                                                *)
Reconnect ==
  \E k \in Starts :
    /\ streams[k].state \in {"open", "listening"}
    /\ drops < MaxDrops
    /\ drops' = drops + 1
    /\ LET last == streams[k].last IN
       \E n \in IF ~Replays THEN {Len(feed) + 1}
                ELSE IF last = 0 THEN {streams[k].next} ELSE {last, last + 1} :
         streams' = [streams EXCEPT ![k].next = n]
    /\ UNCHANGED <<feed, es, onEntry, seenEntries, started, boots, agent>>

-----------------------------------------------------------------------------
(* start(): connect, then hydrateSessions.                                 *)

NoBoot == [pc |-> "idle", todo |-> {}, hist |-> <<>>, sess |-> 0, did |-> {}]

Start ==
  /\ ~started
  /\ \E k \in Starts :
       /\ boots[k].pc = "idle"
       /\ \A h \in 1 .. k - 1 : boots[h].pc # "idle"
       /\ boots' = [boots EXCEPT ![k].pc = "connect"]
       /\ streams' = [streams EXCEPT ![k].state = "opening"]
  /\ started' = TRUE
  /\ onEntry' = TRUE
  /\ UNCHANGED <<backend, es, seenEntries, agent>>

(* Authentication or one of the two streams failed.  The chat stream may   *)
(* be the one that did not: then nobody closes it.                         *)
ConnectFails ==
  \E k \in Starts :
    /\ boots[k].pc = "connect"
    /\ boots' = [boots EXCEPT ![k].pc = "failed"]
    /\ \E state \in {"closed", streams[k].state} :
         streams' = [streams EXCEPT ![k].state = state]
    /\ UNCHANGED <<backend, es, onEntry, seenEntries, started, agent>>

(* Both streams are open: onmessage is set and hydrateSessions runs up to  *)
(* getActiveJobs, if the agent was not stopped meanwhile.                  *)
Connected ==
  \E k \in Starts :
    /\ boots[k].pc = "connect"
    /\ streams[k].state = "open"
    /\ streams' = [streams EXCEPT ![k].state = "listening"]
    /\ es' = k
    /\ boots' = [boots EXCEPT ![k].pc = IF started THEN "jobs" ELSE "done"]
    /\ UNCHANGED <<backend, onEntry, seenEntries, started, agent>>

(* One turn of hydrateSessions that has work left goes on with the next    *)
(* room's history.                                                         *)
NextRoom(boot) == [boot EXCEPT !.pc = IF boot.todo = {} THEN "done" ELSE "history"]

ListJobs ==
  \E k \in Starts :
    /\ boots[k].pc = "jobs"
    /\ boots' = [boots EXCEPT ![k] = NextRoom([boots[k] EXCEPT !.todo = ActiveJobs])]
    /\ UNCHANGED <<backend, transport, started, agent>>

(* Mutant of ReadHistory: a room without entries is asked for again.       *)
ReadHistoryAgain ==
  \E k \in Starts :
    LET boot == boots[k] IN
    /\ boot.pc = "history"
    /\ \E j \in boot.todo :
         boots' = [boots EXCEPT ![k] =
           IF Room(j) = <<>> THEN boot
           ELSE [boot EXCEPT !.pc = "adopt", !.todo = @ \ {j}, !.hist = Room(j)]]
    /\ UNCHANGED <<backend, transport, started, agent>>

(* The server answers getHistory; the agent gets to see the answer later.  *)
ReadHistory ==
  \E k \in Starts :
    LET boot == boots[k] IN
    /\ boot.pc = "history"
    /\ \E j \in boot.todo :
         boots' = [boots EXCEPT ![k] =
           IF Room(j) = <<>> THEN NextRoom([boot EXCEPT !.todo = @ \ {j}])
           ELSE [boot EXCEPT !.pc = "adopt", !.todo = @ \ {j}, !.hist = Room(j)]]
    /\ UNCHANGED <<backend, transport, started, agent>>

(* getOrCreateSession: a session that is there already keeps its entries,  *)
(* and the history is dropped.                                             *)
Adopt ==
  \E k \in Starts :
    /\ boots[k].pc = "adopt"
    /\ LET j == feed[Head(boots[k].hist)].job
           new == sessionMap[j] = 0
       IN /\ sessions' = IF new THEN Append(sessions, NewSession(j, boots[k].hist)) ELSE sessions
          /\ sessionMap' = IF new THEN [sessionMap EXCEPT ![j] = Len(sessions) + 1] ELSE sessionMap
          /\ boots' = [boots EXCEPT ![k].pc = "fetch", ![k].sess = sessionMap'[j]]
    /\ UNCHANGED <<backend, transport, started, tasks, calls>>

(* Mutant of HydrateRoom: the handler gets the oldest entry.               *)
HydrateRoomOldest ==
  \E k \in Starts :
    LET boot == boots[k] IN
    /\ boot.pc = "fetch"
    /\ boots' = [boots EXCEPT ![k] = NextRoom([boot EXCEPT
                   !.did = @ \cup {[sess |-> boot.sess, entry |-> Last(boot.hist)]},
                   !.hist = <<>>, !.sess = 0])]
    /\ FireHandler(boot.sess, Head(boot.hist))
    /\ UNCHANGED <<backend, transport, started, sessions, sessionMap, tasks>>

(* fetchJob answered: the handler gets the newest entry of the history.    *)
HydrateRoom ==
  \E k \in Starts :
    LET boot == boots[k] IN
    /\ boot.pc = "fetch"
    /\ boots' = [boots EXCEPT ![k] = NextRoom([boot EXCEPT
                   !.did = @ \cup {[sess |-> boot.sess, entry |-> Last(boot.hist)]},
                   !.hist = <<>>, !.sess = 0])]
    /\ FireHandler(boot.sess, Last(boot.hist))
    /\ UNCHANGED <<backend, transport, started, sessions, sessionMap, tasks>>

(* A request of hydrateSessions fails: start() rejects, and the agent      *)
(* stays started.                                                          *)
HydrationFails ==
  \E k \in Starts :
    /\ boots[k].pc \in {"jobs", "history", "fetch"}
    /\ boots' = [boots EXCEPT ![k].pc = "failed", ![k].hist = <<>>, ![k].sess = 0]
    /\ UNCHANGED <<backend, transport, started, agent>>

(* stop(), with the transport's disconnect().                              *)
Stop ==
  /\ \E k \in Starts : boots[k].pc # "idle"
  /\ IF started
       THEN /\ streams' = IF es = 0 THEN streams ELSE [streams EXCEPT ![es].state = "closed"]
            /\ es' = 0 /\ onEntry' = FALSE /\ seenEntries' = {}
       ELSE UNCHANGED transport
  /\ started' = FALSE
  /\ sessionMap' = [j \in Jobs |-> 0]
  /\ UNCHANGED <<backend, boots, sessions, tasks, calls>>

Init ==
  /\ feed = <<>> /\ drops = 0
  /\ streams = [k \in Starts |-> [state |-> "none", next |-> 1, last |-> 0]]
  /\ es = 0 /\ onEntry = FALSE /\ seenEntries = {}
  /\ started = FALSE
  /\ boots = [k \in Starts |-> NoBoot]
  /\ sessions = <<>> /\ sessionMap = [j \in Jobs |-> 0]
  /\ tasks = {}
  /\ calls = [i \in 1 .. MaxEntries |-> 0]

Network ==
  \/ OpenStream \/ Deliver \/ DispatchSettles
  \/ Connected \/ ListJobs \/ ReadHistory \/ Adopt \/ HydrateRoom

Next ==
  \/ Publish \/ Reconnect \/ Start \/ ConnectFails \/ HydrationFails \/ Stop
  \/ Network

Spec == Init /\ [][Next]_vars

(* Every request is answered sooner or later, one way or the other, and an *)
(* open stream delivers; a stream need not open, and the user's start()    *)
(* and stop(), losses and new entries need not happen.                     *)
FairSpec ==
  /\ Spec
  /\ WF_vars(Deliver) /\ WF_vars(DispatchSettles)
  /\ WF_vars(ListJobs) /\ WF_vars(ReadHistory)
  /\ WF_vars(Adopt) /\ WF_vars(HydrateRoom)

-----------------------------------------------------------------------------
(* Properties.                                                             *)

TypeOK ==
  /\ feed \in Seq([job: Jobs, kind: Kinds, at: 0 .. MaxEntries]) /\ drops \in 0 .. MaxDrops
  /\ streams \in [Starts -> [state: {"none", "opening", "open", "listening", "closed"},
                             next: 1 .. Len(feed) + 1, last: 0 .. Len(feed)]]
  /\ es \in 0 .. MaxStarts /\ onEntry \in BOOLEAN
  /\ started \in BOOLEAN
  /\ \A k \in Starts :
       LET boot == boots[k] IN
       /\ boot.pc \in {"idle", "connect", "jobs", "history", "adopt", "fetch", "done", "failed"}
       /\ boot.todo \subseteq Jobs
       /\ boot.hist # <<>> <=> boot.pc \in {"adopt", "fetch"}
       /\ boot.sess # 0 <=> boot.pc = "fetch"
  /\ \A s \in DOMAIN sessions :
       /\ sessions[s].roles \subseteq AgentRole /\ sessions[s].roles # {}
       /\ \A i \in Range(sessions[s].entries) : feed[i].job = sessions[s].job
  /\ \A j \in Jobs : sessionMap[j] # 0 => sessions[sessionMap[j]].job = j
  /\ tasks \subseteq [sess: DOMAIN sessions, entry: DOMAIN feed]
  /\ calls \in [1 .. MaxEntries -> Nat]

Tracked == {sessionMap[j] : j \in Jobs} \ {0}
Rooted(s) ==
  LET entries == sessions[s].entries IN
  entries # <<>> /\ Head(entries) = Head(Room(sessions[s].job))
Listening ==
  /\ started /\ es # 0
  /\ streams[es].state = "listening"
  /\ \A k \in es + 1 .. MaxStarts : boots[k].pc = "idle"

TrueRoles(j) == IF Party[j] = {} THEN {"provider"} ELSE Party[j]
RoomStatus(j) == EventStatus(Kind(Last(JobEvents(Room(j)))))

(* A session that holds its job's creation has the agent's true roles,     *)
(* whether the entry came live, from the history, or both.                 *)
RolesKnown ==
  \A s \in Tracked :
    (\E i \in Range(sessions[s].entries) : Kind(i) = "job.created") =>
      sessions[s].roles = TrueRoles(sessions[s].job)

(* A session's entries are the room's in order, but for one overlap: the   *)
(* history first, then what came live.  A replay after a connection loss   *)
(* adds nothing.                                                           *)
OneOverlap ==
  \A s \in Tracked :
    LET entries == sessions[s].entries IN
    Cardinality({n \in 2 .. Len(entries) : entries[n] <= entries[n - 1]}) <= 1

(* Once start() has resolved, every active room the agent could have heard *)
(* of has a session, and one that knows the beginning of its room misses   *)
(* no entry the streams are past: history and stream leave no gap.         *)
Follows ==
  Listening /\ boots[es].pc = "done" =>
    \A j \in ActiveJobs :
      LET past == {i \in Range(Room(j)) :
                     \A k \in Starts : streams[k].state = "listening" => i < streams[k].next}
          s == sessionMap[j]
      IN past # {} => s # 0 /\ (Rooted(s) => past \subseteq Range(sessions[s].entries))

(* Hydration fires the handler for the newest entry of every room whose    *)
(* session knows the room's beginning, if that entry is the agent's to     *)
(* answer.                                                                 *)
Hydrated(d) ==
  ShouldRespond(TrueRoles(feed[d.entry].job), d.entry) => calls[d.entry] > 0
ResumesRooted ==
  \A k \in Starts : \A d \in boots[k].did : Rooted(d.sess) => Hydrated(d)

(* After a restart the handler is fired for the newest entry of every room *)
(* that is hydrated, if it is the agent's to answer (the header of         *)
(* examples/basic/buyer.ts); acpAgent.ts:434-440.                          *)
ResumesAll == \A k \in Starts : \A d \in boots[k].did : Hydrated(d)

(* No entry reaches the handler more than twice in the life of one start:  *)
(* once from the history, once from the stream, however often the server   *)
(* resends it (EventSource reconnections, seenEntries).                    *)
TwiceAtMost == \A i \in DOMAIN feed : calls[i] <= 2 * MaxStarts

(* A start() ends, or waits for a stream for ever: once both streams are   *)
(* open it resolves or rejects, in whatever state its jobs' rooms are and  *)
(* whether or not the agent was stopped meanwhile.                         *)
StartSettles ==
  \A k \in Starts :
    boots[k].pc # "idle" ~>
      (boots[k].pc \in {"done", "failed"} \/ [](boots[k].pc = "connect"))

(* However history, stream and replays overlap, the status of a session    *)
(* that knows the room's beginning ends up as the room's.                  *)
Converges ==
  <>[](Listening =>
         \A s \in Tracked :
           Rooted(s) => Status(sessions[s].entries) = RoomStatus(sessions[s].job))
=============================================================================
