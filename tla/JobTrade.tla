------------------------------ MODULE JobTrade ------------------------------
(***************************************************************************)
(* One job from creation to its end: the client that creates and funds it  *)
(* and evaluates the work, the provider that prices and delivers it, the   *)
(* chain, and the backend that writes the chain's events and the parties'  *)
(* messages into the job's room and keeps the job's record.                *)
(*                                                                         *)
(* A party is an AcpAgent with one of the repository's handlers: the       *)
(* scripted ones (examples/basic) call the session's methods, the LLM ones *)
(* (examples/llm) let a model choose among availableTools() and call       *)
(* executeTool().  A dispatch or a handler is a task with its own program  *)
(* counter; every action is what one turn does between two awaits.         *)
(*                                                                         *)
(* AgentSessions is about how the stream and the history become a session; *)
(* here a session is a prefix of the room.  A send is what SendContract    *)
(* promises: it takes effect, or fails for good, or fails with its outcome *)
(* open and may take effect later.                                         *)
(***************************************************************************)
EXTENDS JobProgram, Selection, FiniteSets, SequencesExt

CONSTANTS
  Budgets,       \* the prices a provider may ask
  Deliverables,  \* what a provider may deliver
  Setups,        \* the set-ups to consider, see SetupType
  SelfEval,      \* the client is the evaluator; otherwise nobody is
  Faults,        \* the kinds of fault that may happen
  MaxFaults,     \* bound: faults
  MaxMessages,   \* bound: messages the handlers send
  MaxPosts       \* attempts to post the requirement (maxRetries)

Parties == {"client", "provider"}
FaultKinds == {"crash", "request", "send", "deadline"}

\* How both parties handle entries, and whether the job is created with a
\* router whose hooks are configured afterwards.  The setBudget tool throws on
\* such a job, so its seller is a scripted one.
SetupType == {s \in [style : {"script", "llm"}, multiHook : BOOLEAN] : s.style = "llm" => ~s.multiHook}

ASSUME ConstantsAssumption ==
  /\ Budgets \subseteq Nat \ {0} /\ Budgets # {} /\ Deliverables # {}
  /\ Setups \subseteq SetupType
  /\ SelfEval \in BOOLEAN
  /\ Faults \subseteq FaultKinds
  /\ MaxFaults \in Nat /\ MaxMessages \in Nat /\ MaxPosts \in Nat \ {0}

NoBudget == 0
NoDeliverable == "none"
Nothing == "nothing"
ASSUME DeliverablesAssumption == NoDeliverable \notin Deliverables

VARIABLES
  setup,    \* the set-up of this behaviour
  job,      \* on-chain: [state, budget, deliverable, hooks]; state "none" before it exists
  log,      \* the program's events, in order: [kind, amount]
  overdue,  \* the job's deadline has passed
  room,     \* the room's entries: [kind, by, amount]
  posted,   \* the deliverable the backend keeps for the job
  creation, \* createJobFromOffering: [pc, tries]
  up,       \* which agents run
  seen,     \* how much of the room each agent's session holds
  tasks,    \* dispatches and handlers under way: [who, entry, pc, ver, op, arg]
  mail,     \* messages handed to the transport and not yet posted, per party
  late,     \* transactions whose send gave up: [who, op, arg]
  faults,   \* faults so far
  chatter   \* messages the handlers sent so far

chain == <<job, log, overdue, setup>>
backend == <<room, posted>>
agents == <<up, seen, tasks>>
bounds == <<faults, chatter>>
vars == <<chain, backend, creation, agents, mail, late, bounds>>

Fault(k) == k \in Faults /\ faults < MaxFaults /\ faults' = faults + 1

-----------------------------------------------------------------------------
(* The backend.  An entry by "chain" is a system entry; the record GET     *)
(* /jobs returns reflects the events the room has.                         *)

IsSystem(e) == e.by = "chain"
EventsIn(entries) == Select(entries, {e \in Range(entries) : IsSystem(e)})
Observed == Len(EventsIn(room))

Entry(kind, by, amount) == [kind |-> kind, by |-> by, amount |-> amount]

Observe ==
  /\ Observed + 1 \in DOMAIN log
  /\ LET e == log[Observed + 1] IN room' = Append(room, Entry(e.kind, "chain", e.amount))
  /\ UNCHANGED <<chain, posted, creation, agents, mail, late, bounds>>

\* The budget the record holds after the first v events.
BudgetAt(v) ==
  LET sets == Select(SubSeq(log, 1, v), {e \in Range(log) : e.kind = "budget.set"})
  IN IF sets = <<>> THEN NoBudget ELSE Last(sets).amount

\* GET /jobs lists the jobs whose record is not terminal.
RecordIsActive ==
  /\ Observed > 0
  /\ log[Observed].kind \notin {"job.completed", "job.rejected", "job.expired"}

PostMessage(p) ==
  /\ mail[p] > 0
  /\ mail' = [mail EXCEPT ![p] = @ - 1]
  /\ room' = Append(room, Entry("message", p, 0))
  /\ UNCHANGED <<chain, posted, creation, agents, late, bounds>>

-----------------------------------------------------------------------------
(* The chain.                                                              *)

EventOf(op) ==
  CASE op = "setBudget" -> "budget.set" [] op = "fund" -> "job.funded"
    [] op = "submit" -> IF SelfEval THEN "job.submitted" ELSE "job.completed"
    [] op = "complete" -> "job.completed" [] op = "reject" -> "job.rejected"

MaySend(who, op) ==
  CASE op = "setBudget" -> who = "provider"
    [] op = "fund" -> who = "client"
    [] op = "submit" -> who = "provider"
    [] op = "complete" -> who = "client" /\ SelfEval
    [] op = "reject" -> \/ job.state = "open"
                        \/ job.state = "funded" /\ who = "provider"
                        \/ job.state = "submitted" /\ who = "client" /\ SelfEval

Accepts(x) ==
  /\ x.op \in Ops /\ job.state \in AllowedStates(x.op)
  /\ ExpiryGated(x.op) => ~overdue
  /\ MaySend(x.who, x.op)
  /\ x.op = "fund" => job.budget # NoBudget /\ x.arg = job.budget
  /\ x.op = "submit" => job.state = "funded"  \* an open job only if its budget is zero

Apply(x) ==
  /\ job' = [job EXCEPT !.state = NextState(x.op, SelfEval),
                        !.budget = IF x.op = "setBudget" THEN x.arg ELSE @,
                        !.deliverable = IF x.op = "submit" THEN x.arg ELSE @]
  /\ log' = Append(log, [kind |-> EventOf(x.op),
                         amount |-> IF x.op \in {"setBudget", "fund"} THEN x.arg ELSE 0])
  /\ UNCHANGED <<overdue, setup>>

DeadlinePasses ==
  /\ ~overdue /\ job.state # "none" /\ Fault("deadline")
  /\ overdue' = TRUE
  /\ UNCHANGED <<job, log, setup, backend, creation, agents, mail, late, chatter>>

Expire ==
  /\ overdue /\ job.state \in JobStates \ Terminal
  /\ job' = [job EXCEPT !.state = "expired"]
  /\ log' = Append(log, [kind |-> "job.expired", amount |-> 0])
  /\ UNCHANGED <<overdue, setup, backend, creation, agents, mail, late, bounds>>

LateLands(x) ==
  /\ x \in late /\ Accepts(x) /\ Apply(x)
  /\ late' = late \ {x}
  /\ UNCHANGED <<backend, creation, agents, mail, bounds>>

LateIsDropped(x) ==
  /\ x \in late /\ late' = late \ {x}
  /\ UNCHANGED <<chain, backend, creation, agents, mail, bounds>>

-----------------------------------------------------------------------------
(* createJobFromOffering: the job, its id, its hooks, the requirement.     *)

\* stop(): the agent leaves the room; the process has nothing left to do.
StopAgent(p) ==
  /\ up' = [up EXCEPT ![p] = FALSE] /\ seen' = [seen EXCEPT ![p] = 0]
  /\ tasks' = {t \in tasks : t.who # p}

Creation(pc, tries) ==
  creation' = [pc |-> pc, tries |-> tries] /\ UNCHANGED agents

\* createJobFromOffering throws; the buyers of the examples stop.
CreationFails(tries) ==
  creation' = [pc |-> "failed", tries |-> tries] /\ StopAgent("client")

CreateJob ==
  /\ creation.pc = "create" /\ up["client"]
  /\ \/ /\ Creation("readId", 0) /\ UNCHANGED faults
     \/ /\ CreationFails(0) /\ Fault("send")
  /\ job' = [job EXCEPT !.state = "open"]
  /\ log' = Append(log, [kind |-> "job.created", amount |-> 0])
  /\ UNCHANGED <<overdue, setup, backend, mail, late, chatter>>

(* Mutant: the requirement is posted before the hooks are configured.      *)
ReadJobIdRequiresFirst ==
  /\ creation.pc = "readId"
  /\ Creation("require", 0) /\ UNCHANGED faults
  /\ UNCHANGED <<chain, backend, mail, late, chatter>>

ReadJobId ==
  /\ creation.pc = "readId"
  /\ \/ Creation(IF setup.multiHook THEN "configure" ELSE "require", 0) /\ UNCHANGED faults
     \/ CreationFails(0) /\ Fault("request")
  /\ UNCHANGED <<chain, backend, mail, late, chatter>>

BatchConfigureHooks ==
  /\ creation.pc = "configure"
  /\ \/ /\ job.state = "open" /\ job' = [job EXCEPT !.hooks = TRUE]
        /\ \/ Creation("require", 0) /\ UNCHANGED faults
           \/ CreationFails(0) /\ Fault("send")
     \/ /\ job.state # "open" /\ CreationFails(0) /\ UNCHANGED <<job, faults>>
  /\ UNCHANGED <<log, overdue, setup, backend, mail, late, chatter>>

(* The requirement is resent when the answer to the post is lost, whether  *)
(* or not the post arrived.                                                *)
PostRequirement ==
  /\ creation.pc = "require"
  /\ LET tries == creation.tries + 1
         arrives == room' = Append(room, Entry("requirement", "client", 0))
     IN \/ Creation("done", tries) /\ arrives /\ UNCHANGED faults
        \/ /\ IF tries = MaxPosts THEN CreationFails(tries) ELSE Creation("require", tries)
           /\ arrives \/ UNCHANGED room
           /\ Fault("request")
  /\ UNCHANGED <<chain, posted, mail, late, chatter>>

-----------------------------------------------------------------------------
(* JobSession: status, responders, tools.                                  *)

Roles(p) == IF p = "provider" THEN {"provider"}
            ELSE {"client"} \cup (IF SelfEval THEN {"evaluator"} ELSE {})

EventStatus(kind) ==
  CASE kind = "job.created" -> "open" [] kind = "budget.set" -> "budget_set"
    [] kind = "job.funded" -> "funded" [] kind = "job.submitted" -> "submitted"
    [] kind = "job.completed" -> "completed" [] kind = "job.rejected" -> "rejected"
    [] kind = "job.expired" -> "expired"

EntriesOf(p) == SubSeq(room, 1, seen[p])
SeenEvents(p) == Len(EventsIn(EntriesOf(p)))
StatusAfter(v) == IF v = 0 THEN "open" ELSE EventStatus(log[v].kind)
Status(p) == StatusAfter(SeenEvents(p))

(* Mutant: the new budget is announced to the provider.                    *)
RespondersSwapped(kind) ==
  CASE kind \in {"job.created", "budget.set", "job.funded"} -> {"provider"}
    [] kind = "job.submitted" -> {"evaluator"}
    [] OTHER -> {"client", "provider"}

Responders(kind) ==
  CASE kind = "job.created" -> {"provider"} [] kind = "budget.set" -> {"client"}
    [] kind = "job.funded" -> {"provider"} [] kind = "job.submitted" -> {"evaluator"}
    [] kind \in {"job.completed", "job.rejected", "job.expired"} -> {"client", "provider"}

ShouldRespond(p, e) == IF IsSystem(e) THEN Roles(p) \cap Responders(e.kind) # {} ELSE e.by # p

ToolMatrix(role, status) ==
  CASE role = "provider" /\ status = "open" -> {"setBudget", "sendMessage", "wait"}
    [] role = "provider" /\ status = "budget_set" -> {"setBudget"}
    [] role = "provider" /\ status = "funded" -> {"submit"}
    [] role = "client" /\ status = "open" -> {"sendMessage", "wait"}
    [] role = "client" /\ status = "budget_set" -> {"sendMessage", "fund", "wait"}
    [] role = "evaluator" /\ status = "submitted" -> {"complete", "reject"}
    [] OTHER -> {}

AvailableTools(p, status) ==
  LET tools == UNION {ToolMatrix(r, status) : r \in Roles(p)}
  IN IF tools = {} THEN {"wait"} ELSE tools

-----------------------------------------------------------------------------
(* Tasks.                                                                  *)

Task(p, entry, pc) ==
  [who |-> p, entry |-> entry, pc |-> pc, ver |-> 0, op |-> "none", arg |-> Nothing]

Drop(t) == tasks' = tasks \ {t}
Go(t, u) == tasks' = (tasks \ {t}) \cup {u}
(* Mutant: the whole session is counted, messages too.                     *)
SendCountsMessages(t, op, arg) ==
  [t EXCEPT !.pc = "send", !.ver = seen[t.who], !.op = op, !.arg = arg]

Send(t, op, arg) == [t EXCEPT !.pc = "send", !.ver = SeenEvents(t.who), !.op = op, !.arg = arg]

(* Mutant: the deliverable is not posted before the submit.                *)
FulfilUnposted(t, d) == Send(t, "submit", d)

\* submit(): postDeliverable, then the transaction.
Fulfil(t, d) == [Send(t, "submit", d) EXCEPT !.pc = "post"]

Say(p) ==
  IF chatter < MaxMessages
    THEN mail' = [mail EXCEPT ![p] = @ + 1] /\ chatter' = chatter + 1
    ELSE UNCHANGED <<mail, chatter>>

\* The session has entry i as its last: fetchJob, and the handler if it must
\* respond (a dispatch that only loads the record changes nothing here).
Dispatch(p, i) ==
  tasks' = IF ShouldRespond(p, room[i]) THEN tasks \cup {Task(p, i, "fetch")} ELSE tasks

\* The stream hands the next entry to dispatch, which appends it.
Deliver(p) ==
  /\ up[p] /\ seen[p] < Len(room)
  /\ seen' = [seen EXCEPT ![p] = @ + 1]
  /\ Dispatch(p, seen[p] + 1)
  /\ UNCHANGED <<chain, backend, creation, up, mail, late, bounds>>

RequestFails(t) ==
  /\ t.pc \in {"fetch", "refetch", "post"}
  /\ Fault("request") /\ Drop(t)
  /\ UNCHANGED <<chain, backend, creation, up, seen, mail, late, chatter>>

-----------------------------------------------------------------------------
(* The handlers, from their start to the first await or send.              *)

Ignore(t) == Drop(t) /\ UNCHANGED <<up, seen, mail, chatter>>

BuyerHandler(t, e) ==
  CASE IsSystem(e) /\ e.kind = "budget.set" ->
         Say("client") /\ Go(t, [t EXCEPT !.pc = "refetch", !.ver = Observed]) /\ UNCHANGED <<up, seen>>
    [] IsSystem(e) /\ e.kind = "job.submitted" ->
         Go(t, Send(t, "complete", Nothing)) /\ UNCHANGED <<up, seen, mail, chatter>>
    [] IsSystem(e) /\ EventStatus(e.kind) \in Terminal -> StopAgent("client") /\ UNCHANGED <<mail, chatter>>
    [] OTHER -> Ignore(t)

\* setBudgetWithSubscriptionAndFundRequest throws unless the router knows both
\* hooks; the other variants refuse a job with hooks they do not expect.
SetBudget(t, b) == IF setup.multiHook => job.hooks THEN Go(t, Send(t, "setBudget", b)) ELSE Drop(t)

SellerHandler(t, e) ==
  CASE IsSystem(e) /\ e.kind = "job.funded" ->
         \E d \in Deliverables :
           Say("provider") /\ Go(t, Fulfil(t, d)) /\ UNCHANGED <<up, seen>>
    [] e.kind = "requirement" /\ Status("provider") = "open" ->
         /\ \/ \E b \in Budgets : SetBudget(t, b)
            \/ Go(t, Send(t, "reject", Nothing))
         /\ UNCHANGED <<up, seen, mail, chatter>>
    [] OTHER -> Ignore(t)

\* The model is asked with the tools of this moment.
AskModel(t) == Go(t, [t EXCEPT !.pc = "think", !.ver = SeenEvents(t.who)])
                 /\ UNCHANGED <<up, seen, mail, chatter>>

LlmBuyerHandler(t, e) ==
  IF IsSystem(e) /\ EventStatus(e.kind) \in Terminal
    THEN StopAgent("client") /\ UNCHANGED <<mail, chatter>>
    ELSE AskModel(t)

\* Only the requirement asks for a quote: job.created is not handed to the model.
LlmSellerHandler(t, e) ==
  IF IsSystem(e) /\ (EventStatus(e.kind) \in Terminal \/ e.kind = "job.created")
    THEN Ignore(t)
    ELSE AskModel(t)

\* fetchJob returned: the record is stored, then fireHandler.
StartHandler(t) ==
  /\ t.pc = "fetch"
  /\ LET e == room[t.entry]
         llm == setup.style = "llm"
     IN IF t.who = "client" THEN IF llm THEN LlmBuyerHandler(t, e) ELSE BuyerHandler(t, e)
        ELSE IF llm THEN LlmSellerHandler(t, e) ELSE SellerHandler(t, e)
  /\ UNCHANGED <<chain, backend, creation, late, faults>>

\* The scripted buyer's own fetchJob returned: fund() with the record's budget.
\* The record was read at some moment since it was asked for.
FundLoaded(t) ==
  /\ t.pc = "refetch"
  /\ \E v \in t.ver .. Observed : Go(t, Send(t, "fund", BudgetAt(v)))
  /\ UNCHANGED <<chain, backend, creation, up, seen, mail, late, bounds>>

RunTool(t, tool) ==
  CASE tool = "wait" -> Drop(t) /\ UNCHANGED <<mail, chatter>>
    [] tool = "sendMessage" -> Drop(t) /\ Say(t.who)
    [] tool = "setBudget" ->
         (\E b \in Budgets : SetBudget(t, b)) /\ UNCHANGED <<mail, chatter>>
    [] tool = "fund" ->
         Go(t, Send(t, tool, BudgetAt(SeenEvents(t.who)))) /\ UNCHANGED <<mail, chatter>>
    [] tool = "submit" ->
         (\E d \in Deliverables : Go(t, Fulfil(t, d)))
         /\ UNCHANGED <<mail, chatter>>
    [] OTHER -> Go(t, Send(t, tool, Nothing)) /\ UNCHANGED <<mail, chatter>>

(* Mutant: executeTool does not look at the tools again.                   *)
ExecuteToolUnchecked(t, tool) == RunTool(t, tool)

\* executeTool: the tools are those of the moment, not those the model saw.
ExecuteTool(t, tool) ==
  IF tool \in AvailableTools(t.who, Status(t.who))
    THEN RunTool(t, tool)
    ELSE Drop(t) /\ UNCHANGED <<mail, chatter>>

ModelAnswers(t) ==
  /\ t.pc = "think"
  /\ \E tool \in AvailableTools(t.who, StatusAfter(t.ver)) : ExecuteTool(t, tool)
  /\ UNCHANGED <<chain, backend, creation, up, seen, late, faults>>

-----------------------------------------------------------------------------
(* The steps of an on-chain action.                                        *)

PostDeliverable(t) ==
  /\ t.pc = "post"
  /\ posted' = t.arg
  /\ Go(t, [t EXCEPT !.pc = "send"])
  /\ UNCHANGED <<chain, room, creation, up, seen, mail, late, bounds>>

SendLands(t) ==
  /\ t.pc = "send" /\ Accepts(t) /\ Apply(t) /\ Drop(t)
  /\ UNCHANGED <<backend, creation, up, seen, mail, late, bounds>>

SendIsRefused(t) ==
  /\ t.pc = "send" /\ ~Accepts(t) /\ Drop(t)
  /\ UNCHANGED <<chain, backend, creation, up, seen, mail, late, bounds>>

SendGivesUp(t) ==
  /\ t.pc = "send" /\ Fault("send") /\ Drop(t)
  /\ late' = late \cup {[who |-> t.who, op |-> t.op, arg |-> t.arg]}
  /\ UNCHANGED <<chain, backend, creation, up, seen, mail, chatter>>

-----------------------------------------------------------------------------
(* Crash and restart.  A transaction being sent may still land.            *)

Crash(p) ==
  /\ up[p] /\ Fault("crash")
  /\ StopAgent(p)
  /\ late' = late \cup {[who |-> t.who, op |-> t.op, arg |-> t.arg] :
                        t \in {u \in tasks : u.who = p /\ u.pc = "send"}}
  /\ creation' = IF p = "client" /\ creation.pc # "done" THEN [creation EXCEPT !.pc = "failed"]
                                                        ELSE creation
  /\ UNCHANGED <<chain, backend, mail, chatter>>

\* start() hydrates the job's room and fires the handler for its last entry.
Restart(p) ==
  /\ ~up[p] /\ job.state # "none"
  /\ up' = [up EXCEPT ![p] = TRUE] /\ seen' = [seen EXCEPT ![p] = Len(room)]
  /\ IF RecordIsActive THEN Dispatch(p, Len(room)) ELSE UNCHANGED tasks
  /\ UNCHANGED <<chain, backend, creation, mail, late, bounds>>

-----------------------------------------------------------------------------
Init ==
  /\ setup \in Setups
  /\ job = [state |-> "none", budget |-> NoBudget, deliverable |-> NoDeliverable, hooks |-> FALSE]
  /\ log = <<>> /\ overdue = FALSE
  /\ room = <<>> /\ posted = NoDeliverable
  /\ creation = [pc |-> "create", tries |-> 0]
  /\ up = [p \in Parties |-> TRUE] /\ seen = [p \in Parties |-> 0]
  /\ tasks = {}
  /\ mail = [p \in Parties |-> 0] /\ late = {}
  /\ faults = 0 /\ chatter = 0

TaskStep(t) ==
  \/ StartHandler(t) \/ FundLoaded(t) \/ ModelAnswers(t)
  \/ PostDeliverable(t) \/ SendLands(t) \/ SendIsRefused(t)

Create == CreateJob \/ ReadJobId \/ BatchConfigureHooks \/ PostRequirement

\* What goes on by itself: the backend, the network and the event loops.
Progress ==
  \/ Observe \/ Create
  \/ \E p \in Parties : PostMessage(p) \/ Deliver(p) \/ Restart(p)
  \/ \E t \in tasks : TaskStep(t)
  \/ \E x \in late : LateLands(x) \/ LateIsDropped(x)

Disturbance ==
  \/ DeadlinePasses \/ Expire
  \/ \E p \in Parties : Crash(p)
  \/ \E t \in tasks : RequestFails(t) \/ SendGivesUp(t)

Next == Progress \/ Disturbance

Spec == Init /\ [][Next]_vars
FairSpec == Spec /\ WF_vars(Progress)

-----------------------------------------------------------------------------
(* Properties.                                                             *)

Amounts == Budgets \cup {NoBudget}
LogKinds == {"job.created", "budget.set", "job.funded", "job.submitted", "job.completed",
             "job.rejected", "job.expired"}
LogType == [kind : LogKinds, amount : Amounts]
RoomType == [kind : LogKinds \cup {"message", "requirement"}, by : Parties \cup {"chain"},
             amount : Amounts]
JobType == [state : JobStates \cup {"none"}, budget : Amounts,
            deliverable : Deliverables \cup {NoDeliverable}, hooks : BOOLEAN]
CreationType == [pc : {"create", "readId", "configure", "require", "done", "failed"},
                 tries : 0 .. MaxPosts]
TaskPcs == {"fetch", "refetch", "think", "post", "send"}

\* What an instruction may carry.
ArgsOf(op) ==
  CASE op = "setBudget" -> Budgets [] op = "fund" -> Amounts
    [] op = "submit" -> Deliverables [] OTHER -> {Nothing}

(* Every variable has its type: the room shows no event the chain does not *)
(* have, no task goes by more of them than there are, and what is being    *)
(* sent, or was given up and may still land, carries what its instruction  *)
(* takes.                                                                  *)
TypeOK ==
  /\ setup \in Setups /\ job \in JobType /\ log \in Seq(LogType) /\ overdue \in BOOLEAN
  /\ room \in Seq(RoomType) /\ Observed \in 0 .. Len(log)
  /\ posted \in Deliverables \cup {NoDeliverable}
  /\ creation \in CreationType
  /\ up \in [Parties -> BOOLEAN] /\ seen \in [Parties -> 0 .. Len(room)]
  /\ \A t \in tasks :
       /\ t.who \in Parties /\ t.entry \in DOMAIN room
       /\ t.pc \in TaskPcs /\ t.ver \in 0 .. Len(log)
       /\ IF t.pc \in {"post", "send"} THEN t.op \in Ops /\ t.arg \in ArgsOf(t.op)
                                       ELSE t.op = "none" /\ t.arg = Nothing
  /\ \A x \in late : x.who \in Parties /\ x.op \in Ops /\ x.arg \in ArgsOf(x.op)
  /\ mail \in [Parties -> Nat] /\ faults \in 0 .. MaxFaults /\ chatter \in 0 .. MaxMessages

(* A job that has been submitted has a deliverable at the backend, whatever*)
(* fails or crashes in between, and though a submit whose sender gave up   *)
(* can land much later: internalSubmit posts it before it sends.           *)
SubmittedIsPosted == job.deliverable # NoDeliverable => posted # NoDeliverable

(* The provider learns what is wanted only when the router of the job knows*)
(* its hooks: its handler, fired once, finds them configured and can price *)
(* the job (createMultiHookJob configures before createJobFromOffering     *)
(* posts the requirement).                                                 *)
RequirementFollowsHooks ==
  setup.multiHook /\ (\E i \in DOMAIN room : room[i].kind = "requirement") => job.hooks

(* A tool executeTool lets through is refused for the job's state only when*)
(* the chain is ahead of the session: the tool matrix offers a role nothing*)
(* the job, as its room shows it, would not accept.                        *)
ToolsKeepUp ==
  \A t \in tasks :
    t.pc \in {"post", "send"} /\ setup.style = "llm" =>
      \/ job.state \in AllowedStates(t.op) /\ MaySend(t.who, t.op)
      \/ Len(log) > t.ver

(* While nothing fails and its deadline is ahead, a job whose requirement  *)
(* was posted comes to an end.                                             *)
Finishes ==
  (creation.pc = "done" /\ setup.style = "script") ~> (job.state \in Terminal \/ faults > 0)
=============================================================================
