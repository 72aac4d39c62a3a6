--------------------------- MODULE JobTradeProofs ---------------------------
(***************************************************************************)
(* What JobTrade guarantees for every set of set-ups, budgets,             *)
(* deliverables and faults: every variable has its type, a submitted job   *)
(* has its deliverable at the backend, the provider is asked only when the *)
(* job's router knows its hooks, and the tools a model may use are current *)
(* or the chain has moved on.                                              *)
(***************************************************************************)
EXTENDS JobTrade, SelectionProofs

-----------------------------------------------------------------------------
(* A record is given back by its fields; EXCEPT then means what it says.   *)

TaskShape(t) ==
  t = [who |-> t.who, entry |-> t.entry, pc |-> t.pc, ver |-> t.ver, op |-> t.op, arg |-> t.arg]

JobShape ==
  job = [state |-> job.state, budget |-> job.budget, deliverable |-> job.deliverable,
         hooks |-> job.hooks]

CreationShape == creation = [pc |-> creation.pc, tries |-> creation.tries]

IsSequence(s) == \E S : s \in Seq(S)

LEMMA AppendShape ==
  ASSUME NEW s, IsSequence(s), NEW e
  PROVE  /\ IsSequence(Append(s, e))
         /\ \A i \in DOMAIN Append(s, e) :
              \/ i \in DOMAIN s /\ Append(s, e)[i] = s[i]
              \/ Append(s, e)[i] = e
<1>1. PICK S : s \in Seq(S)
  BY DEF IsSequence
<1>2. s \in Seq(S \cup {e})
  BY <1>1
<1>3. Append(s, e) \in Seq(S \cup {e})
  BY <1>2
<1>4. \A i \in DOMAIN Append(s, e) :
        \/ i \in DOMAIN s /\ Append(s, e)[i] = s[i]
        \/ Append(s, e)[i] = e
  BY <1>2
<1> QED
  BY <1>3, <1>4 DEF IsSequence

-----------------------------------------------------------------------------
(* Deliverables.                                                           *)

IsPosted == posted # NoDeliverable

(* Every submit that is or may still be sent has posted its deliverable,   *)
(* the ones whose sender gave up or crashed included; one that has not     *)
(* been sent has a deliverable to post.                                    *)
Backed ==
  /\ JobShape
  /\ \A t \in tasks : /\ TaskShape(t)
                      /\ t.pc = "post" => t.op = "submit" /\ t.arg \in Deliverables
                      /\ t.pc = "send" /\ t.op = "submit" => IsPosted
  /\ \A x \in late : x.op = "submit" => IsPosted
  /\ SubmittedIsPosted

\* A task that sends no submit yet.
Quiet(u) ==
  /\ TaskShape(u)
  /\ u.pc = "post" => u.op = "submit" /\ u.arg \in Deliverables
  /\ ~(u.pc = "send" /\ u.op = "submit")

LEMMA SendShape ==
  ASSUME NEW t, TaskShape(t), NEW op, NEW arg
  PROVE  /\ TaskShape(Send(t, op, arg))
         /\ Send(t, op, arg).pc = "send" /\ Send(t, op, arg).op = op /\ Send(t, op, arg).arg = arg
         /\ Send(t, op, arg).who = t.who /\ Send(t, op, arg).entry = t.entry
         /\ Send(t, op, arg).ver = SeenEvents(t.who)
<1>1. PICK who, entry, pc, ver, o, a :
        t = [who |-> who, entry |-> entry, pc |-> pc, ver |-> ver, op |-> o, arg |-> a]
  BY DEF TaskShape
<1> DEFINE v == SeenEvents(t.who)
           u == [who |-> who, entry |-> entry, pc |-> "send", ver |-> v, op |-> op, arg |-> arg]
<1>2. Send(t, op, arg) = [t EXCEPT !.pc = "send", !.ver = v, !.op = op, !.arg = arg]
  BY DEF Send
<1> HIDE DEF v
<1>3. Send(t, op, arg) = u
  BY <1>1, <1>2
<1>4. TaskShape(u) /\ u.pc = "send" /\ u.op = op /\ u.arg = arg
      /\ u.who = who /\ u.entry = entry /\ u.ver = v
  BY DEF TaskShape
<1>5. t.who = who /\ t.entry = entry
  BY <1>1
<1> HIDE DEF u
<1>6. u.ver = SeenEvents(t.who)
  BY <1>4 DEF v
<1> QED
  BY <1>3, <1>4, <1>5, <1>6

LEMMA QuietSend ==
  ASSUME NEW t, TaskShape(t), NEW op, op # "submit", NEW arg
  PROVE  Quiet(Send(t, op, arg))
BY SendShape DEF Quiet

LEMMA QuietFulfil ==
  ASSUME NEW t, TaskShape(t), NEW d \in Deliverables
  PROVE  Quiet(Fulfil(t, d))
<1> DEFINE s == Send(t, "submit", d)
<1>1. TaskShape(s) /\ s.op = "submit" /\ s.arg = d
  BY SendShape
<1>2. Fulfil(t, d) = [s EXCEPT !.pc = "post"]
  BY DEF Fulfil
<1> HIDE DEF s
<1> QED
  BY <1>1, <1>2 DEF Quiet, TaskShape

LEMMA QuietTask ==
  ASSUME NEW p, NEW i
  PROVE  Quiet(Task(p, i, "fetch"))
BY DEF Quiet, Task, TaskShape

LEMMA QuietStep ==
  ASSUME NEW t, TaskShape(t), NEW next, next # "post", next # "send", NEW moment
  PROVE  Quiet([t EXCEPT !.pc = next, !.ver = moment])
<1> DEFINE r == [t EXCEPT !.pc = next, !.ver = moment]
<1>1. PICK who, entry, p, v, o, a :
        t = [who |-> who, entry |-> entry, pc |-> p, ver |-> v, op |-> o, arg |-> a]
  BY DEF TaskShape
<1> DEFINE m == [t EXCEPT !.pc = next]
<1>2. m = [who |-> who, entry |-> entry, pc |-> next, ver |-> v, op |-> o, arg |-> a]
  BY <1>1
<1>3. r = [m EXCEPT !.ver = moment]
  OBVIOUS
<1> HIDE DEF m, r
<1>4. r = [who |-> who, entry |-> entry, pc |-> next, ver |-> moment, op |-> o, arg |-> a]
  BY <1>2, <1>3
<1>5. TaskShape(r) /\ r.pc = next
  BY <1>4 DEF TaskShape
<1>6. Quiet(r)
  BY <1>5 DEF Quiet
<1> QED
  BY <1>6 DEF r

\* Tasks that go on, or are dropped, send no submit that is not posted.
Tame == \A u \in tasks' : u \in tasks \/ Quiet(u)

LEMMA SetBudgetIsTame ==
  ASSUME NEW t, TaskShape(t), NEW b, SetBudget(t, b)
  PROVE  Tame
<1>1. Quiet(Send(t, "setBudget", b))
  BY QuietSend
<1> QED
  BY <1>1 DEF SetBudget, Go, Drop, Tame

LEMMA AskModelIsTame ==
  ASSUME NEW t, TaskShape(t), AskModel(t)
  PROVE  Tame
<1>1. Quiet([t EXCEPT !.pc = "think", !.ver = SeenEvents(t.who)])
  BY QuietStep
<1> QED
  BY <1>1 DEF AskModel, Go, Tame

LEMMA BuyerIsTame ==
  ASSUME NEW t, TaskShape(t), NEW e, BuyerHandler(t, e)
  PROVE  Tame
<1>1. CASE IsSystem(e) /\ e.kind = "budget.set"
  <2>1. Go(t, [t EXCEPT !.pc = "refetch", !.ver = Observed])
    BY <1>1 DEF BuyerHandler, EventStatus, Terminal
  <2>2. Quiet([t EXCEPT !.pc = "refetch", !.ver = Observed])
    BY QuietStep
  <2> QED
    BY <2>1, <2>2 DEF Go, Tame
<1>2. CASE IsSystem(e) /\ e.kind = "job.submitted"
  <2>1. Go(t, Send(t, "complete", Nothing))
    BY <1>2 DEF BuyerHandler, EventStatus, Terminal
  <2>2. Quiet(Send(t, "complete", Nothing))
    BY QuietSend
  <2> QED
    BY <2>1, <2>2 DEF Go, Tame
<1>3. CASE ~(IsSystem(e) /\ e.kind \in {"budget.set", "job.submitted"})
  <2>1. StopAgent("client") \/ Ignore(t)
    BY <1>3 DEF BuyerHandler
  <2> QED
    BY <2>1 DEF StopAgent, Ignore, Drop, Tame
<1> QED
  BY <1>1, <1>2, <1>3

LEMMA SellerIsTame ==
  ASSUME NEW t, TaskShape(t), NEW e, SellerHandler(t, e)
  PROVE  Tame
<1>1. CASE IsSystem(e) /\ e.kind = "job.funded"
  <2>1. PICK d \in Deliverables : Go(t, Fulfil(t, d))
    BY <1>1 DEF SellerHandler
  <2>2. Quiet(Fulfil(t, d))
    BY QuietFulfil
  <2> QED
    BY <2>1, <2>2 DEF Go, Tame
<1>2. CASE /\ ~(IsSystem(e) /\ e.kind = "job.funded")
           /\ e.kind = "requirement" /\ Status("provider") = "open"
  <2>1. (\E b \in Budgets : SetBudget(t, b)) \/ Go(t, Send(t, "reject", Nothing))
    BY <1>2 DEF SellerHandler
  <2>2. Quiet(Send(t, "reject", Nothing))
    BY QuietSend
  <2> QED
    BY <2>1, <2>2, SetBudgetIsTame DEF Go, Tame
<1>3. CASE /\ ~(IsSystem(e) /\ e.kind = "job.funded")
           /\ ~(e.kind = "requirement" /\ Status("provider") = "open")
  <2>1. Ignore(t)
    BY <1>3 DEF SellerHandler
  <2> QED
    BY <2>1 DEF Ignore, Drop, Tame
<1> QED
  BY <1>1, <1>2, <1>3

LEMMA StartIsTame ==
  ASSUME NEW t, TaskShape(t), StartHandler(t)
  PROVE  Tame
<1> DEFINE e == room[t.entry]
<1>1. LlmBuyerHandler(t, e) \/ BuyerHandler(t, e) \/ LlmSellerHandler(t, e) \/ SellerHandler(t, e)
  BY DEF StartHandler
<1> HIDE DEF e
<1>2. CASE LlmBuyerHandler(t, e)
  <2>1. StopAgent("client") \/ AskModel(t)
    BY <1>2 DEF LlmBuyerHandler
  <2> QED
    BY <2>1, AskModelIsTame DEF StopAgent, Tame
<1>3. CASE LlmSellerHandler(t, e)
  <2>1. Ignore(t) \/ AskModel(t)
    BY <1>3 DEF LlmSellerHandler
  <2> QED
    BY <2>1, AskModelIsTame DEF Ignore, Drop, Tame
<1> QED
  BY <1>1, <1>2, <1>3, BuyerIsTame, SellerIsTame

LEMMA ToolIsTame ==
  ASSUME NEW t, TaskShape(t), NEW tool, ExecuteTool(t, tool)
  PROVE  Tame
<1>1. Drop(t) \/ RunTool(t, tool)
  BY DEF ExecuteTool
<1>2. CASE Drop(t)
  BY <1>2 DEF Drop, Tame
<1>3. CASE RunTool(t, tool) /\ tool \in {"wait", "sendMessage"}
  BY <1>3 DEF RunTool, Drop, Tame
<1>4. CASE RunTool(t, tool) /\ tool = "setBudget"
  BY <1>4, SetBudgetIsTame DEF RunTool
<1>5. CASE RunTool(t, tool) /\ tool = "fund"
  <2>1. Go(t, Send(t, "fund", BudgetAt(SeenEvents(t.who))))
    BY <1>5 DEF RunTool
  <2>2. Quiet(Send(t, "fund", BudgetAt(SeenEvents(t.who))))
    BY QuietSend
  <2> QED
    BY <2>1, <2>2 DEF Go, Tame
<1>6. CASE RunTool(t, tool) /\ tool = "submit"
  <2>1. PICK d \in Deliverables : Go(t, Fulfil(t, d))
    BY <1>6 DEF RunTool
  <2>2. Quiet(Fulfil(t, d))
    BY QuietFulfil
  <2> QED
    BY <2>1, <2>2 DEF Go, Tame
<1>7. CASE RunTool(t, tool) /\ tool \notin {"wait", "sendMessage", "setBudget", "fund", "submit"}
  <2>1. Go(t, Send(t, tool, Nothing))
    BY <1>7 DEF RunTool
  <2>2. Quiet(Send(t, tool, Nothing))
    BY <1>7, QuietSend
  <2> QED
    BY <2>1, <2>2 DEF Go, Tame
<1> QED
  BY <1>1, <1>2, <1>3, <1>4, <1>5, <1>6, <1>7

\* A step that changes neither what is posted nor what is delivered nor what
\* may land late, and starts no submit, keeps the invariant.
LEMMA TameKeepsBacked ==
  ASSUME Backed, Tame, posted' = posted, late' \subseteq late,
         JobShape', job'.deliverable = job.deliverable
  PROVE  Backed'
<1>1. IsPosted' = IsPosted
  BY DEF IsPosted
<1>2. \A t \in tasks' : /\ TaskShape(t)
                        /\ t.pc = "post" => t.op = "submit" /\ t.arg \in Deliverables
                        /\ t.pc = "send" /\ t.op = "submit" => IsPosted
  BY DEF Tame, Quiet, Backed
<1>3. \A x \in late' : x.op = "submit" => IsPosted
  BY DEF Backed
<1>4. SubmittedIsPosted'
  BY DEF Backed, SubmittedIsPosted
<1> QED
  BY <1>1, <1>2, <1>3, <1>4 DEF Backed

LEMMA AppliedShape ==
  ASSUME JobShape, NEW x, Apply(x)
  PROVE  /\ JobShape'
         /\ job'.deliverable = IF x.op = "submit" THEN x.arg ELSE job.deliverable
         /\ job'.hooks = job.hooks /\ job'.state = NextState(x.op, SelfEval)
         /\ job'.budget = IF x.op = "setBudget" THEN x.arg ELSE job.budget
<1> DEFINE state == NextState(x.op, SelfEval)
           budget == IF x.op = "setBudget" THEN x.arg ELSE job.budget
           deliverable == IF x.op = "submit" THEN x.arg ELSE job.deliverable
<1>1. PICK st, b, d, h : job = [state |-> st, budget |-> b, deliverable |-> d, hooks |-> h]
  BY DEF JobShape
<1>2. job' = [job EXCEPT !.state = state, !.budget = budget, !.deliverable = deliverable]
  BY <1>1 DEF Apply
<1> HIDE DEF state, budget, deliverable
<1>3. job' = [state |-> state, budget |-> budget, deliverable |-> deliverable, hooks |-> h]
  <2> DEFINE one == [job EXCEPT !.state = state]
             two == [one EXCEPT !.budget = budget]
  <2>1. one = [state |-> state, budget |-> b, deliverable |-> d, hooks |-> h]
    BY <1>1
  <2>2. job' = [two EXCEPT !.deliverable = deliverable]
    BY <1>2
  <2> HIDE DEF one
  <2>3. two = [state |-> state, budget |-> budget, deliverable |-> d, hooks |-> h]
    BY <2>1
  <2> HIDE DEF two
  <2> QED
    BY <2>2, <2>3
<1>4. h = job.hooks
  BY <1>1
<1> QED
  BY <1>3, <1>4 DEF JobShape, state, budget, deliverable

\* Creation changes only the job's state and hooks, and starts no task.
LEMMA CreationSteps ==
  ASSUME JobShape, Create
  PROVE  /\ JobShape' /\ job'.deliverable = job.deliverable
         /\ tasks' \subseteq tasks /\ posted' = posted /\ late' = late
<1>1. CASE CreateJob
  <2>1. job' = [job EXCEPT !.state = "open"]
    BY <1>1 DEF CreateJob
  <2>2. tasks' \subseteq tasks
    BY <1>1 DEF CreateJob, Creation, CreationFails, StopAgent, agents
  <2>3. JobShape' /\ job'.deliverable = job.deliverable
    BY <2>1 DEF JobShape
  <2> QED
    BY <1>1, <2>2, <2>3 DEF CreateJob, backend
<1>2. CASE ReadJobId
  BY <1>2 DEF ReadJobId, Creation, CreationFails, StopAgent, agents, chain, backend, JobShape
<1>3. CASE BatchConfigureHooks
  <2>1. job' = [job EXCEPT !.hooks = TRUE] \/ job' = job
    BY <1>3 DEF BatchConfigureHooks
  <2>2. tasks' \subseteq tasks
    BY <1>3 DEF BatchConfigureHooks, Creation, CreationFails, StopAgent, agents
  <2>3. JobShape' /\ job'.deliverable = job.deliverable
    BY <2>1 DEF JobShape
  <2> QED
    BY <1>3, <2>2, <2>3 DEF BatchConfigureHooks, backend
<1>4. CASE PostRequirement
  BY <1>4 DEF PostRequirement, Creation, CreationFails, StopAgent, agents, chain, JobShape
<1> QED
  BY <1>1, <1>2, <1>3, <1>4 DEF Create

LEMMA DispatchIsTame ==
  ASSUME NEW p, NEW i, Dispatch(p, i)
  PROVE  Tame
BY QuietTask DEF Dispatch, Tame

LEMMA BackedInit == Init => Backed
<1> SUFFICES ASSUME Init PROVE Backed
  OBVIOUS
<1> QED
  BY DEF Init, Backed, JobShape, SubmittedIsPosted

LEMMA BackedNext == Backed /\ [Next]_vars => Backed'
<1> SUFFICES ASSUME Backed, [Next]_vars PROVE Backed'
  OBVIOUS
<1>1. /\ JobShape
      /\ \A t \in tasks : /\ TaskShape(t)
                          /\ t.pc = "post" => t.op = "submit" /\ t.arg \in Deliverables
                          /\ t.pc = "send" /\ t.op = "submit" => IsPosted
      /\ \A x \in late : x.op = "submit" => IsPosted
      /\ SubmittedIsPosted
  BY DEF Backed
\* Steps that leave the job alone.
<1>2. ASSUME Tame, posted' = posted, late' \subseteq late, job' = job
      PROVE  Backed'
  BY <1>1, <1>2, TameKeepsBacked DEF JobShape
<1>3. CASE Observe \/ (\E p \in Parties : PostMessage(p)) \/ DeadlinePasses \/ UNCHANGED vars
  BY <1>2, <1>3 DEF Observe, PostMessage, DeadlinePasses, vars, chain, backend, agents, Tame
<1>4. CASE Create
  BY <1>1, <1>4, CreationSteps, TameKeepsBacked DEF Tame
<1>5. ASSUME NEW p \in Parties, Deliver(p)
      PROVE  Backed'
  BY <1>2, <1>5, DispatchIsTame DEF Deliver, chain, backend
<1>6. ASSUME NEW p \in Parties, Restart(p)
      PROVE  Backed'
  <2>1. Tame
    BY <1>6, DispatchIsTame DEF Restart, Tame
  <2> QED
    BY <1>2, <1>6, <2>1 DEF Restart, chain, backend
<1>7. ASSUME NEW t \in tasks, StartHandler(t)
      PROVE  Backed'
  <2>1. Tame
    BY <1>1, <1>7, StartIsTame
  <2> QED
    BY <1>2, <1>7, <2>1 DEF StartHandler, chain, backend
<1>8. ASSUME NEW t \in tasks, FundLoaded(t)
      PROVE  Backed'
  <2>1. PICK v \in t.ver .. Observed : Go(t, Send(t, "fund", BudgetAt(v)))
    BY <1>8 DEF FundLoaded
  <2>2. Quiet(Send(t, "fund", BudgetAt(v)))
    BY <1>1, QuietSend
  <2>3. Tame
    BY <2>1, <2>2 DEF Go, Tame
  <2> QED
    BY <1>2, <1>8, <2>3 DEF FundLoaded, chain, backend
<1>9. ASSUME NEW t \in tasks, ModelAnswers(t)
      PROVE  Backed'
  <2>1. Tame
    BY <1>1, <1>9, ToolIsTame DEF ModelAnswers
  <2> QED
    BY <1>2, <1>9, <2>1 DEF ModelAnswers, chain, backend
\* The deliverable is posted, and the submit follows.
<1>10. ASSUME NEW t \in tasks, PostDeliverable(t)
       PROVE  Backed'
  <2> DEFINE u == [t EXCEPT !.pc = "send"]
  <2>1. IsPosted'
    BY <1>1, <1>10, DeliverablesAssumption DEF PostDeliverable, IsPosted
  <2>2. TaskShape(u) /\ u.pc = "send"
    BY <1>1 DEF TaskShape
  <2>3. tasks' = (tasks \ {t}) \cup {u}
    BY <1>10 DEF PostDeliverable, Go
  <2>4. job' = job /\ late' = late
    BY <1>10 DEF PostDeliverable, chain
  <2> HIDE DEF u
  <2>5. \A w \in tasks' : /\ TaskShape(w)
                          /\ w.pc = "post" => w.op = "submit" /\ w.arg \in Deliverables
    BY <1>1, <2>2, <2>3
  <2>6. JobShape' /\ SubmittedIsPosted'
    BY <1>1, <2>1, <2>4 DEF JobShape, SubmittedIsPosted, IsPosted
  <2> QED
    BY <2>1, <2>5, <2>6 DEF Backed
\* A transaction lands, now or late.
<1>11. ASSUME NEW x, Apply(x), x.op = "submit" => IsPosted,
              tasks' \subseteq tasks, late' \subseteq late, posted' = posted
       PROVE  Backed'
  <2>1. JobShape' /\ job'.deliverable = IF x.op = "submit" THEN x.arg ELSE job.deliverable
    BY <1>1, <1>11, AppliedShape
  <2>2. CASE x.op = "submit"
    <3>1. IsPosted'
      BY <1>11, <2>2 DEF IsPosted
    <3> QED
      BY <1>1, <1>11, <2>1, <3>1 DEF Backed, SubmittedIsPosted, IsPosted
  <2>3. CASE x.op # "submit"
    BY <1>11, <2>1, <2>3, TameKeepsBacked DEF Tame
  <2> QED
    BY <2>2, <2>3
<1>12. ASSUME NEW t \in tasks, SendLands(t)
       PROVE  Backed'
  <2>1. t.op = "submit" => IsPosted
    BY <1>1, <1>12 DEF SendLands
  <2> QED
    BY <1>11, <1>12, <2>1 DEF SendLands, Drop, backend
<1>13. ASSUME NEW x \in late, LateLands(x)
       PROVE  Backed'
  <2>1. x.op = "submit" => IsPosted
    BY <1>1
  <2> QED
    BY <1>11, <1>13, <2>1 DEF LateLands, backend, agents
<1>14. ASSUME NEW x \in late, LateIsDropped(x)
       PROVE  Backed'
  BY <1>2, <1>14 DEF LateIsDropped, chain, backend, agents, Tame
<1>15. ASSUME NEW t \in tasks, SendIsRefused(t) \/ RequestFails(t)
       PROVE  Backed'
  BY <1>2, <1>15 DEF SendIsRefused, RequestFails, Drop, chain, backend, Tame
<1>16. CASE Expire
  <2>1. job' = [job EXCEPT !.state = "expired"]
    BY <1>16 DEF Expire
  <2>2. JobShape' /\ job'.deliverable = job.deliverable
    BY <1>1, <2>1 DEF JobShape
  <2> QED
    BY <1>16, <2>2, TameKeepsBacked DEF Expire, backend, agents, Tame
\* A send that gives up, and a crash while sending, leave transactions behind
\* whose deliverables were posted.
<1>17. ASSUME NEW p \in Parties, Crash(p)
       PROVE  Backed'
  <2>1. tasks' \subseteq tasks /\ job' = job /\ posted' = posted
    BY <1>17 DEF Crash, StopAgent, chain, backend
  <2>2. \A x \in late' : x.op = "submit" => IsPosted
    <3> SUFFICES ASSUME NEW x \in late', x.op = "submit"
                 PROVE  IsPosted
      OBVIOUS
    <3>1. CASE x \in late
      BY <1>1, <3>1
    <3>2. CASE x \notin late
      <4>1. PICK t \in tasks : t.pc = "send" /\ x = [who |-> t.who, op |-> t.op, arg |-> t.arg]
        BY <1>17, <3>2 DEF Crash
      <4>2. t.op = "submit"
        BY <4>1
      <4> QED
        BY <1>1, <4>1, <4>2
    <3> QED
      BY <3>1, <3>2
  <2> QED
    BY <1>1, <2>1, <2>2 DEF Backed, JobShape, SubmittedIsPosted, IsPosted
<1>18. ASSUME NEW t \in tasks, SendGivesUp(t)
       PROVE  Backed'
  <2>1. tasks' \subseteq tasks /\ job' = job /\ posted' = posted
    BY <1>18 DEF SendGivesUp, Drop, chain, backend
  <2>2. \A x \in late' : x.op = "submit" => IsPosted
    BY <1>1, <1>18 DEF SendGivesUp
  <2> QED
    BY <1>1, <2>1, <2>2 DEF Backed, JobShape, SubmittedIsPosted, IsPosted
<1> QED
  BY <1>3, <1>4, <1>5, <1>6, <1>7, <1>8, <1>9, <1>10, <1>12, <1>13, <1>14, <1>15, <1>16,
     <1>17, <1>18 DEF Next, Progress, Disturbance, TaskStep

\* A job that has been submitted has a deliverable at the backend, whatever
\* fails, crashes or lands late: internalSubmit posts it before it sends.
THEOREM DeliverableFirst == Spec => []SubmittedIsPosted
<1>1. Backed => SubmittedIsPosted
  BY DEF Backed
<1> QED
  BY BackedInit, BackedNext, <1>1, PTL DEF Spec

-----------------------------------------------------------------------------
(* The requirement.                                                        *)

NoRequirement(entries) == \A i \in DOMAIN entries : entries[i].kind # "requirement"

(* While the requirement of a router job is to be posted, and once the room*)
(* has one, the hooks are configured.  The program's events, which become  *)
(* entries too, are none.                                                  *)
Asked ==
  /\ JobShape /\ CreationShape
  /\ IsSequence(room) /\ IsSequence(log) /\ NoRequirement(log)
  /\ setup.multiHook /\ creation.pc = "require" => job.hooks
  /\ RequirementFollowsHooks

LEMMA AppendNoRequirement ==
  ASSUME NEW s, IsSequence(s), NoRequirement(s), NEW e, e.kind # "requirement"
  PROVE  IsSequence(Append(s, e)) /\ NoRequirement(Append(s, e))
BY AppendShape DEF NoRequirement

\* Unless the requirement is posted, what the room asks for it asked before.
LEMMA SameRequirement ==
  ASSUME NEW s, IsSequence(s), NEW e, e.kind # "requirement",
         \E i \in DOMAIN Append(s, e) : Append(s, e)[i].kind = "requirement"
  PROVE  \E i \in DOMAIN s : s[i].kind = "requirement"
BY AppendShape

LEMMA AskedInit == Init => Asked
<1> SUFFICES ASSUME Init PROVE Asked
  OBVIOUS
<1>1. IsSequence(<<>>)
  <2>1. <<>> \in Seq({})
    OBVIOUS
  <2> QED
    BY <2>1 DEF IsSequence
<1> QED
  BY <1>1 DEF Init, Asked, JobShape, CreationShape, NoRequirement, RequirementFollowsHooks

LEMMA AskedNext == Asked /\ [Next]_vars => Asked'
<1> SUFFICES ASSUME Asked, [Next]_vars PROVE Asked'
  OBVIOUS
<1>1. /\ JobShape /\ CreationShape
      /\ IsSequence(room) /\ IsSequence(log) /\ NoRequirement(log)
      /\ setup.multiHook /\ creation.pc = "require" => job.hooks
      /\ RequirementFollowsHooks
  BY DEF Asked
\* Steps that leave the chain, the room and the creation alone.
<1>2. ASSUME UNCHANGED <<setup, job, log, room, creation>>
      PROVE  Asked'
  BY <1>1, <1>2 DEF Asked, JobShape, CreationShape, IsSequence, NoRequirement,
     RequirementFollowsHooks
\* Steps of the chain.
<1>3. ASSUME UNCHANGED <<setup, room, creation>>, JobShape', job'.hooks = job.hooks,
             NEW e, e.kind # "requirement", log' = Append(log, e)
      PROVE  Asked'
  <2>1. IsSequence(log') /\ NoRequirement(log')
    BY <1>1, <1>3, AppendNoRequirement
  <2> QED
    BY <1>1, <1>3, <2>1 DEF Asked, CreationShape, IsSequence, NoRequirement,
       RequirementFollowsHooks
<1>4. ASSUME NEW x, Apply(x), x.op \in Ops, UNCHANGED <<room, creation>>
      PROVE  Asked'
  <2>1. JobShape' /\ job'.hooks = job.hooks
    BY <1>1, <1>4, AppliedShape
  <2> DEFINE e == [kind |-> EventOf(x.op),
                   amount |-> IF x.op \in {"setBudget", "fund"} THEN x.arg ELSE 0]
  <2>2. log' = Append(log, e) /\ setup' = setup
    BY <1>4 DEF Apply
  <2>3. e.kind # "requirement"
    BY <1>4 DEF EventOf, Ops
  <2> HIDE DEF e
  <2> QED
    BY <1>3, <1>4, <2>1, <2>2, <2>3
<1>5. ASSUME NEW x, Accepts(x)
      PROVE  x.op \in Ops
  BY <1>5 DEF Accepts
<1>6. ASSUME NEW t \in tasks, SendLands(t)
      PROVE  Asked'
  BY <1>4, <1>5, <1>6 DEF SendLands, backend
<1>7. ASSUME NEW x \in late, LateLands(x)
      PROVE  Asked'
  BY <1>4, <1>5, <1>7 DEF LateLands, backend
<1>8. CASE Expire
  <2>1. job' = [job EXCEPT !.state = "expired"]
    BY <1>8 DEF Expire
  <2>2. JobShape' /\ job'.hooks = job.hooks
    BY <1>1, <2>1 DEF JobShape
  <2> DEFINE e == [kind |-> "job.expired", amount |-> 0]
  <2>3. log' = Append(log, e) /\ e.kind # "requirement"
    BY <1>8 DEF Expire
  <2> HIDE DEF e
  <2> QED
    BY <1>3, <1>8, <2>2, <2>3 DEF Expire, backend
\* Entries that are no requirement.
<1>9. ASSUME UNCHANGED <<setup, job, log, creation>>,
             NEW e, e.kind # "requirement", room' = Append(room, e)
      PROVE  Asked'
  <2>1. IsSequence(room')
    BY <1>1, <1>9, AppendShape
  <2>2. RequirementFollowsHooks'
    BY <1>1, <1>9, SameRequirement DEF RequirementFollowsHooks
  <2> QED
    BY <1>1, <1>9, <2>1, <2>2 DEF Asked, JobShape, CreationShape, IsSequence, NoRequirement
<1>10. CASE Observe
  <2> DEFINE e == Entry(log[Observed + 1].kind, "chain", log[Observed + 1].amount)
  <2>1. room' = Append(room, e)
    BY <1>10 DEF Observe
  <2>2. e.kind # "requirement"
    BY <1>1, <1>10 DEF Observe, NoRequirement, Entry
  <2> HIDE DEF e
  <2> QED
    BY <1>9, <1>10, <2>1, <2>2 DEF Observe, chain
<1>11. ASSUME NEW p \in Parties, PostMessage(p)
       PROVE  Asked'
  <2> DEFINE e == Entry("message", p, 0)
  <2>1. room' = Append(room, e) /\ e.kind # "requirement"
    BY <1>11 DEF PostMessage, Entry
  <2> HIDE DEF e
  <2> QED
    BY <1>9, <1>11, <2>1 DEF PostMessage, chain
\* The steps of createJobFromOffering.
<1>12. CASE CreateJob
  <2>1. job' = [job EXCEPT !.state = "open"]
    BY <1>12 DEF CreateJob
  <2>2. JobShape' /\ job'.hooks = job.hooks
    BY <1>1, <2>1 DEF JobShape
  <2> DEFINE e == [kind |-> "job.created", amount |-> 0]
  <2>3. log' = Append(log, e) /\ e.kind # "requirement"
    BY <1>12 DEF CreateJob
  <2> HIDE DEF e
  <2>4. IsSequence(log') /\ NoRequirement(log')
    BY <1>1, <2>3, AppendNoRequirement
  <2>5. CreationShape' /\ creation'.pc \in {"readId", "failed"}
    BY <1>12 DEF CreateJob, Creation, CreationFails, CreationShape
  <2>6. setup' = setup /\ room' = room
    BY <1>12 DEF CreateJob, backend
  <2> QED
    BY <1>1, <2>2, <2>4, <2>5, <2>6 DEF Asked, IsSequence, RequirementFollowsHooks
<1>13. CASE ReadJobId
  <2>1. CreationShape' /\ (setup.multiHook => creation'.pc # "require")
    BY <1>13 DEF ReadJobId, Creation, CreationFails, CreationShape
  <2>2. UNCHANGED <<setup, job, log, room>>
    BY <1>13 DEF ReadJobId, chain, backend
  <2> QED
    BY <1>1, <2>1, <2>2 DEF Asked, JobShape, IsSequence, NoRequirement, RequirementFollowsHooks
<1>14. CASE BatchConfigureHooks
  <2>1. \/ job' = [job EXCEPT !.hooks = TRUE]
        \/ job' = job /\ CreationFails(0)
    BY <1>14 DEF BatchConfigureHooks
  <2>2. JobShape' /\ (job.hooks => job'.hooks)
    BY <1>1, <2>1 DEF JobShape
  <2>3. CreationShape' /\ (creation'.pc = "require" => job'.hooks)
    BY <1>1, <1>14 DEF BatchConfigureHooks, Creation, CreationFails, CreationShape, JobShape
  <2>4. UNCHANGED <<setup, log, room>>
    BY <1>14 DEF BatchConfigureHooks, backend
  <2> QED
    BY <1>1, <2>2, <2>3, <2>4 DEF Asked, IsSequence, NoRequirement, RequirementFollowsHooks
<1>15. CASE PostRequirement
  <2> DEFINE e == Entry("requirement", "client", 0)
  <2>1. room' = room \/ room' = Append(room, e)
    BY <1>15 DEF PostRequirement
  <2>2. UNCHANGED <<setup, job, log>> /\ (setup.multiHook => job.hooks)
    BY <1>1, <1>15 DEF PostRequirement, chain
  <2>3. CreationShape'
    BY <1>15 DEF PostRequirement, Creation, CreationFails, CreationShape
  <2> HIDE DEF e
  <2>4. IsSequence(room')
    BY <1>1, <2>1, AppendShape
  <2> QED
    BY <1>1, <2>2, <2>3, <2>4 DEF Asked, JobShape, IsSequence, NoRequirement,
       RequirementFollowsHooks
<1>16. ASSUME NEW p \in Parties, Crash(p)
       PROVE  Asked'
  <2>1. creation' = [creation EXCEPT !.pc = "failed"] \/ creation' = creation
    BY <1>16 DEF Crash
  <2>2. CreationShape' /\ creation'.pc \in {"failed", creation.pc}
    BY <1>1, <2>1 DEF CreationShape
  <2>3. UNCHANGED <<setup, job, log, room>>
    BY <1>16 DEF Crash, chain, backend
  <2> QED
    BY <1>1, <2>2, <2>3 DEF Asked, JobShape, IsSequence, NoRequirement, RequirementFollowsHooks
\* Everything else.
<1>17. CASE DeadlinePasses \/ UNCHANGED vars
  BY <1>2, <1>17 DEF DeadlinePasses, vars, chain, backend
<1>18. ASSUME NEW p \in Parties, Deliver(p) \/ Restart(p)
       PROVE  Asked'
  BY <1>2, <1>18 DEF Deliver, Restart, chain, backend
<1>19. ASSUME NEW t \in tasks,
              \/ StartHandler(t) \/ FundLoaded(t) \/ ModelAnswers(t) \/ PostDeliverable(t)
              \/ SendIsRefused(t) \/ RequestFails(t) \/ SendGivesUp(t)
       PROVE  Asked'
  <2>1. UNCHANGED <<setup, job, log, room, creation>>
    BY <1>19 DEF StartHandler, FundLoaded, ModelAnswers, PostDeliverable, SendIsRefused,
       RequestFails, SendGivesUp, chain, backend
  <2> QED
    BY <1>2, <2>1
<1>20. ASSUME NEW x \in late, LateIsDropped(x)
       PROVE  Asked'
  BY <1>2, <1>20 DEF LateIsDropped, chain, backend
<1> QED
  BY <1>6, <1>7, <1>8, <1>10, <1>11, <1>12, <1>13, <1>14, <1>15, <1>16, <1>17, <1>18, <1>19,
     <1>20 DEF Next, Progress, Disturbance, TaskStep, Create

\* The provider is asked for work only when the job's router knows its hooks,
\* whatever fails or crashes while the job is created.
THEOREM HooksFirst == Spec => []RequirementFollowsHooks
<1>1. Asked => RequirementFollowsHooks
  BY DEF Asked
<1> QED
  BY AskedInit, AskedNext, <1>1, PTL DEF Spec

-----------------------------------------------------------------------------
(* The inductive type invariant: TypeOK, with what the types of the next   *)
(* state rest on, part by part.  A task's view of the job is a number of   *)
(* events, and ToolsKeepUp is part of what a task is.                      *)

\* The state an event leaves the job in.
StateFrom(kind) ==
  CASE kind \in {"job.created", "budget.set"} -> "open"
    [] kind = "job.funded" -> "funded" [] kind = "job.submitted" -> "submitted"
    [] kind = "job.completed" -> "completed" [] kind = "job.rejected" -> "rejected"
    [] kind = "job.expired" -> "expired"

(* The job's state is the one its last event says.                         *)
ChainPart ==
  /\ setup \in Setups /\ overdue \in BOOLEAN
  /\ job \in JobType /\ log \in Seq(LogType)
  /\ job.state = IF log = <<>> THEN "none" ELSE StateFrom(log[Len(log)].kind)

(* The backend writes no event the chain does not have.                    *)
RoomPart ==
  /\ room \in Seq(RoomType) /\ posted \in Deliverables \cup {NoDeliverable}
  /\ Observed <= Len(log) /\ (room # <<>> => log # <<>>)

CreationPart ==
  /\ creation \in CreationType
  /\ creation.pc = "require" => creation.tries < MaxPosts
  /\ creation.pc \in {"readId", "configure", "require"} => log # <<>>

AgentPart ==
  /\ up \in [Parties -> BOOLEAN] /\ seen \in [Parties -> 0 .. Len(room)]
  /\ mail \in [Parties -> Nat] /\ \A p \in Parties : mail[p] > 0 => log # <<>>
  /\ faults \in 0 .. MaxFaults /\ chatter \in 0 .. MaxMessages

\* What a transaction carries.
Payload(op, arg) == op \in Ops /\ arg \in ArgsOf(op)

KeepsUp(t) == (job.state \in AllowedStates(t.op) /\ MaySend(t.who, t.op)) \/ Len(log) > t.ver

Sound(t) ==
  /\ TaskShape(t)
  /\ t.who \in Parties /\ t.entry \in 1 .. Len(room) /\ t.ver \in 0 .. Len(log)
  /\ t.pc \in TaskPcs
  /\ IF t.pc \in {"post", "send"} THEN Payload(t.op, t.arg) ELSE t.op = "none" /\ t.arg = Nothing
  /\ t.pc = "post" => t.op = "submit"
  /\ setup.style = "llm" => t.pc # "refetch" /\ (t.pc \in {"post", "send"} => KeepsUp(t))

TaskPart == \A t \in tasks : Sound(t)
LatePart == \A x \in late : x.who \in Parties /\ Payload(x.op, x.arg)

Typed == ChainPart /\ RoomPart /\ CreationPart /\ AgentPart /\ TaskPart /\ LatePart

-----------------------------------------------------------------------------
(* The events among a room's entries.                                      *)

SystemEntries == {e \in RoomType : IsSystem(e)}

LEMMA EventsAre ==
  ASSUME NEW s \in Seq(RoomType)
  PROVE  EventsIn(s) = Select(s, SystemEntries)
<1> DEFINE R == {e \in Range(s) : IsSystem(e)}
<1>1. \A n \in 1 .. Len(s) : s[n] \in RoomType /\ s[n] \in Range(s)
  BY DEF Range
<1>2. \A n \in 1 .. Len(s) : s[n] \in R <=> s[n] \in SystemEntries
  BY <1>1 DEF SystemEntries
<1> HIDE DEF R
<1>3. Select(s, R) = Select(s, SystemEntries)
  BY <1>2, SelectSame
<1> QED
  BY <1>3 DEF EventsIn, R

LEMMA EventsCount ==
  ASSUME NEW s \in Seq(RoomType)
  PROVE  EventsIn(s) \in Seq(RoomType) /\ Len(EventsIn(s)) \in Nat
<1>1. Select(s, SystemEntries) \in Seq(RoomType \cap SystemEntries)
  BY SelectTyped
<1>2. RoomType \cap SystemEntries = SystemEntries
  BY DEF SystemEntries
<1>3. EventsIn(s) \in Seq(SystemEntries)
  BY <1>1, <1>2, EventsAre
<1> QED
  BY <1>3 DEF SystemEntries

LEMMA EventsAppend ==
  ASSUME NEW s \in Seq(RoomType), NEW e \in RoomType
  PROVE  Len(EventsIn(Append(s, e))) = Len(EventsIn(s)) + (IF IsSystem(e) THEN 1 ELSE 0)
<1>1. Append(s, e) \in Seq(RoomType)
  OBVIOUS
<1>2. EventsIn(Append(s, e)) = IF e \in SystemEntries THEN Append(EventsIn(s), e) ELSE EventsIn(s)
  <2>1. EventsIn(s) = Select(s, SystemEntries)
    BY EventsAre
  <2>2. EventsIn(Append(s, e)) = Select(Append(s, e), SystemEntries)
    BY <1>1, EventsAre
  <2>3. Select(Append(s, e), SystemEntries) =
          IF e \in SystemEntries THEN Append(Select(s, SystemEntries), e)
                                 ELSE Select(s, SystemEntries)
    BY SelectAppend
  <2> QED
    BY <2>1, <2>2, <2>3
<1>3. EventsIn(s) \in Seq(RoomType) /\ Len(EventsIn(s)) \in Nat
  BY EventsCount
<1>4. e \in SystemEntries <=> IsSystem(e)
  BY DEF SystemEntries
<1> QED
  BY <1>2, <1>3, <1>4

LEMMA EventsPrefix ==
  ASSUME NEW s \in Seq(RoomType), NEW k \in 0 .. Len(s)
  PROVE  Len(EventsIn(SubSeq(s, 1, k))) <= Len(EventsIn(s))
<1>1. SubSeq(s, 1, k) \in Seq(RoomType)
  OBVIOUS
<1>2. EventsIn(SubSeq(s, 1, k)) = Selected(s, SystemEntries)[k]
  BY <1>1, EventsAre, SelectMonotone
<1>3. Len(Selected(s, SystemEntries)[k]) <= Len(Select(s, SystemEntries))
  BY SelectMonotone
<1> QED
  BY <1>2, <1>3, EventsAre

\* What a party has seen of the chain, the chain has.
LEMMA SeenEventsFit ==
  ASSUME RoomPart, ChainPart, AgentPart, NEW p \in Parties
  PROVE  SeenEvents(p) \in 0 .. Len(log) /\ Observed \in 0 .. Len(log)
<1>1. room \in Seq(RoomType) /\ Observed <= Len(log) /\ seen[p] \in 0 .. Len(room)
      /\ Len(log) \in Nat
  BY DEF RoomPart, AgentPart, ChainPart
<1>2. SubSeq(room, 1, seen[p]) \in Seq(RoomType)
  BY <1>1
<1>3. SeenEvents(p) \in Nat
  BY <1>2, EventsCount DEF SeenEvents, EntriesOf
<1>4. SeenEvents(p) <= Observed /\ Observed \in Nat
  BY <1>1, EventsPrefix, EventsCount DEF SeenEvents, EntriesOf, Observed
<1> QED
  BY <1>1, <1>3, <1>4

-----------------------------------------------------------------------------
(* The chain: an event for every change of the job's state.                *)

LogGrows == \/ log' = log /\ job'.state = job.state
            \/ Len(log') = Len(log) + 1

LEMMA AppliedChain ==
  ASSUME ChainPart, NEW x, Payload(x.op, x.arg), Accepts(x), Apply(x)
  PROVE  ChainPart' /\ LogGrows
<1> DEFINE e == [kind |-> EventOf(x.op), amount |-> IF x.op \in {"setBudget", "fund"} THEN x.arg ELSE 0]
<1>1. job \in JobType /\ log \in Seq(LogType) /\ setup \in Setups /\ overdue \in BOOLEAN
  BY DEF ChainPart
<1>2. x.op \in Ops
  BY DEF Accepts
<1>3. JobShape
  BY <1>1 DEF JobType, JobShape
<1>4. /\ JobShape' /\ job'.hooks = job.hooks /\ job'.state = NextState(x.op, SelfEval)
      /\ job'.deliverable = IF x.op = "submit" THEN x.arg ELSE job.deliverable
      /\ job'.budget = IF x.op = "setBudget" THEN x.arg ELSE job.budget
  BY <1>3, AppliedShape
<1>5. log' = Append(log, e) /\ setup' = setup /\ overdue' = overdue
  BY DEF Apply
<1>6. e.kind \in LogKinds /\ NextState(x.op, SelfEval) = StateFrom(e.kind)
      /\ NextState(x.op, SelfEval) \in JobStates
  BY <1>2, ConstantsAssumption
     DEF Ops, EventOf, NextState, StateFrom, LogKinds, JobStates
<1>7. e \in LogType
  <2>1. x.op \in {"setBudget", "fund"} => x.arg \in Amounts
    BY DEF Payload, ArgsOf, Amounts
  <2>2. 0 \in Amounts
    BY DEF Amounts, NoBudget
  <2>3. e.amount \in Amounts
    BY <2>1, <2>2
  <2> QED
    BY <1>6, <2>3 DEF LogType
<1> HIDE DEF e
<1>8. log' \in Seq(LogType) /\ Len(log') = Len(log) + 1 /\ log'[Len(log')] = e /\ log' # <<>>
  BY <1>1, <1>5, <1>7
<1>9. job' \in JobType
  <2>1. job'.state \in JobStates \cup {"none"}
    BY <1>4, <1>6
  <2>2. job'.budget \in Amounts
    BY <1>1, <1>4 DEF JobType, Payload, ArgsOf, Amounts
  <2>3. job'.deliverable \in Deliverables \cup {NoDeliverable}
    BY <1>1, <1>4 DEF JobType, Payload, ArgsOf
  <2>4. job'.hooks \in BOOLEAN
    BY <1>1, <1>4 DEF JobType
  <2>5. job' = [state |-> job'.state, budget |-> job'.budget, deliverable |-> job'.deliverable,
                hooks |-> job'.hooks]
    BY <1>4 DEF JobShape
  <2> QED
    BY <2>1, <2>2, <2>3, <2>4, <2>5 DEF JobType
<1> QED
  BY <1>1, <1>4, <1>5, <1>6, <1>8, <1>9 DEF ChainPart, LogGrows

LEMMA ChainStep ==
  ASSUME Typed, [Next]_vars
  PROVE  ChainPart' /\ LogGrows
<1>1. /\ job \in JobType /\ log \in Seq(LogType) /\ setup \in Setups /\ overdue \in BOOLEAN
      /\ job.state = IF log = <<>> THEN "none" ELSE StateFrom(log[Len(log)].kind)
  BY DEF Typed, ChainPart
<1>2. ASSUME job' = job, log' = log, setup' = setup, overdue' \in BOOLEAN
      PROVE  ChainPart' /\ LogGrows
  BY <1>1, <1>2 DEF ChainPart, LogGrows
\* An event that is not a transaction of a party.
<1>3. ASSUME NEW state \in JobStates, NEW kind \in LogKinds, state = StateFrom(kind),
             job' = [job EXCEPT !.state = state],
             log' = Append(log, [kind |-> kind, amount |-> 0]),
             setup' = setup, overdue' = overdue
      PROVE  ChainPart' /\ LogGrows
  <2>1. job' \in JobType /\ job'.state = state
    BY <1>1, <1>3 DEF JobType
  <2> DEFINE e == [kind |-> kind, amount |-> 0]
  <2>2. e \in LogType /\ e.kind = kind
    BY DEF LogType, Amounts, NoBudget
  <2> HIDE DEF e
  <2>3. log' = Append(log, e)
    BY <1>3 DEF e
  <2>4. log' \in Seq(LogType) /\ Len(log') = Len(log) + 1 /\ log'[Len(log')] = e /\ log' # <<>>
    BY <1>1, <2>2, <2>3
  <2> QED
    BY <1>1, <1>3, <2>1, <2>2, <2>4 DEF ChainPart, LogGrows
<1>4. CASE CreateJob
  BY <1>3, <1>4 DEF CreateJob, StateFrom, JobStates, LogKinds
<1>5. CASE Expire
  BY <1>3, <1>5 DEF Expire, StateFrom, JobStates, LogKinds
<1>6. CASE BatchConfigureHooks
  <2>1. job' = [job EXCEPT !.hooks = TRUE] \/ job' = job
    BY <1>6 DEF BatchConfigureHooks
  <2>2. job' \in JobType /\ job'.state = job.state
    BY <1>1, <2>1 DEF JobType
  <2>3. log' = log /\ setup' = setup /\ overdue' = overdue
    BY <1>6 DEF BatchConfigureHooks
  <2> QED
    BY <1>1, <2>2, <2>3 DEF ChainPart, LogGrows
<1>7. CASE \E t \in tasks : SendLands(t)
  <2>1. PICK t \in tasks : t.pc = "send" /\ Accepts(t) /\ Apply(t)
    BY <1>7 DEF SendLands
  <2>2. Payload(t.op, t.arg)
    BY <2>1 DEF Typed, TaskPart, Sound
  <2> QED
    BY <2>1, <2>2, AppliedChain DEF Typed
<1>8. CASE \E x \in late : LateLands(x)
  <2>1. PICK x \in late : Accepts(x) /\ Apply(x)
    BY <1>8 DEF LateLands
  <2>2. Payload(x.op, x.arg)
    BY DEF Typed, LatePart
  <2> QED
    BY <2>1, <2>2, AppliedChain DEF Typed
<1>9. CASE DeadlinePasses
  BY <1>2, <1>9 DEF DeadlinePasses
<1>10. ASSUME ~ CreateJob, ~ Expire, ~ BatchConfigureHooks, ~ DeadlinePasses,
              ~ (\E t \in tasks : SendLands(t)), ~ (\E x \in late : LateLands(x))
       PROVE  UNCHANGED chain
  <2>1. CASE Observe \/ ReadJobId \/ PostRequirement \/ UNCHANGED vars
    BY <2>1 DEF Observe, ReadJobId, PostRequirement, vars
  <2>2. CASE \E p \in Parties : PostMessage(p) \/ Deliver(p) \/ Restart(p) \/ Crash(p)
    BY <2>2 DEF PostMessage, Deliver, Restart, Crash
  <2>3. CASE \E t \in tasks : \/ StartHandler(t) \/ FundLoaded(t) \/ ModelAnswers(t)
                              \/ PostDeliverable(t) \/ SendIsRefused(t) \/ RequestFails(t)
                              \/ SendGivesUp(t)
    BY <2>3 DEF StartHandler, FundLoaded, ModelAnswers, PostDeliverable, SendIsRefused,
                RequestFails, SendGivesUp
  <2>4. CASE \E x \in late : LateIsDropped(x)
    BY <2>4 DEF LateIsDropped
  <2> QED
    BY <1>10, <2>1, <2>2, <2>3, <2>4 DEF Next, Progress, Disturbance, Create, TaskStep
<1> QED
  BY <1>1, <1>2, <1>4, <1>5, <1>6, <1>7, <1>8, <1>9, <1>10 DEF chain

-----------------------------------------------------------------------------
(* The room, the creation and the agents.                                  *)

LEMMA RoomStep ==
  ASSUME Typed, [Next]_vars
  PROVE  RoomPart' /\ Len(room) <= Len(room')
<1>1. /\ room \in Seq(RoomType) /\ posted \in Deliverables \cup {NoDeliverable}
      /\ Observed <= Len(log) /\ (room # <<>> => log # <<>>)
      /\ log \in Seq(LogType) /\ Observed \in Nat
  BY EventsCount DEF Typed, RoomPart, ChainPart, Observed
<1>2. /\ Len(log) \in Nat /\ Len(log') \in Nat /\ Len(log) <= Len(log')
      /\ (log # <<>> => log' # <<>>)
  BY <1>1, ChainStep DEF LogGrows, ChainPart
<1>3. ASSUME room' = room, posted' \in Deliverables \cup {NoDeliverable}
      PROVE  RoomPart' /\ Len(room) <= Len(room')
  BY <1>1, <1>2, <1>3 DEF RoomPart, Observed
<1>4. ASSUME NEW e \in RoomType, room' = Append(room, e), posted' = posted, log # <<>>,
             IsSystem(e) => Observed < Len(log)
      PROVE  RoomPart' /\ Len(room) <= Len(room')
  <2>1. room' \in Seq(RoomType) /\ Len(room) <= Len(room')
    BY <1>1, <1>4
  <2>2. Observed' = Observed + (IF IsSystem(e) THEN 1 ELSE 0)
    BY <1>1, <1>4, EventsAppend DEF Observed
  <2> QED
    BY <1>1, <1>2, <1>4, <2>1, <2>2 DEF RoomPart
<1>5. CASE Observe
  <2>1. Observed + 1 \in 1 .. Len(log)
    BY <1>1, <1>5 DEF Observe
  <2> DEFINE x == log[Observed + 1]
             e == Entry(x.kind, "chain", x.amount)
  <2>2. x \in LogType
    BY <1>1, <2>1
  <2>3. e \in RoomType
    BY <2>2 DEF Entry, LogType, RoomType
  <2>4. room' = Append(room, e) /\ posted' = posted
    BY <1>5 DEF Observe
  <2>5. Observed < Len(log) /\ log # <<>>
    BY <1>1, <2>1
  <2> HIDE DEF e
  <2> QED
    BY <1>4, <2>3, <2>4, <2>5
<1>6. CASE \E p \in Parties : PostMessage(p)
  <2>1. PICK p \in Parties : PostMessage(p)
    BY <1>6
  <2> DEFINE e == Entry("message", p, 0)
  <2>2. e \in RoomType /\ ~ IsSystem(e)
    BY DEF Entry, RoomType, IsSystem, Parties, Amounts, NoBudget
  <2>3. log # <<>>
    BY <2>1 DEF PostMessage, Typed, AgentPart
  <2>4. room' = Append(room, e) /\ posted' = posted
    BY <2>1 DEF PostMessage
  <2> HIDE DEF e
  <2> QED
    BY <1>4, <2>2, <2>3, <2>4
<1>7. CASE PostRequirement
  <2> DEFINE e == Entry("requirement", "client", 0)
  <2>1. e \in RoomType /\ ~ IsSystem(e)
    BY DEF Entry, RoomType, IsSystem, Parties, Amounts, NoBudget
  <2>2. log # <<>>
    BY <1>7 DEF PostRequirement, Typed, CreationPart
  <2>3. (room' = Append(room, e) \/ room' = room) /\ posted' = posted
    BY <1>7 DEF PostRequirement
  <2> HIDE DEF e
  <2> QED
    BY <1>1, <1>3, <1>4, <2>1, <2>2, <2>3
<1>8. CASE \E t \in tasks : PostDeliverable(t)
  <2>1. PICK t \in tasks : PostDeliverable(t)
    BY <1>8
  <2>2. t.pc = "post" /\ posted' = t.arg /\ room' = room
    BY <2>1 DEF PostDeliverable
  <2>3. t.arg \in Deliverables
    BY <2>2 DEF Typed, TaskPart, Sound, Payload, ArgsOf
  <2> QED
    BY <1>3, <2>2, <2>3
<1>9. ASSUME ~ Observe, ~ PostRequirement, ~ (\E p \in Parties : PostMessage(p)),
             ~ (\E t \in tasks : PostDeliverable(t))
      PROVE  room' = room /\ posted' = posted
  <2>1. CASE CreateJob \/ ReadJobId \/ BatchConfigureHooks \/ DeadlinePasses \/ Expire \/ UNCHANGED vars
    BY <2>1 DEF CreateJob, ReadJobId, BatchConfigureHooks, DeadlinePasses, Expire, vars, backend
  <2>2. CASE \E p \in Parties : Deliver(p) \/ Restart(p) \/ Crash(p)
    BY <2>2 DEF Deliver, Restart, Crash, backend
  <2>3. CASE \E t \in tasks : \/ StartHandler(t) \/ FundLoaded(t) \/ ModelAnswers(t)
                              \/ SendLands(t) \/ SendIsRefused(t) \/ RequestFails(t)
                              \/ SendGivesUp(t)
    BY <2>3 DEF StartHandler, FundLoaded, ModelAnswers, SendLands, SendIsRefused,
                RequestFails, SendGivesUp, backend
  <2>4. CASE \E x \in late : LateLands(x) \/ LateIsDropped(x)
    BY <2>4 DEF LateLands, LateIsDropped, backend
  <2> QED
    BY <1>9, <2>1, <2>2, <2>3, <2>4 DEF Next, Progress, Disturbance, Create, TaskStep
<1> QED
  BY <1>1, <1>3, <1>5, <1>6, <1>7, <1>8, <1>9

LEMMA CreationStep ==
  ASSUME Typed, [Next]_vars
  PROVE  CreationPart'
<1>1. /\ creation \in CreationType
      /\ creation.pc = "require" => creation.tries < MaxPosts
      /\ creation.pc \in {"readId", "configure", "require"} => log # <<>>
      /\ log \in Seq(LogType) /\ MaxPosts \in Nat \ {0}
  BY ConstantsAssumption DEF Typed, CreationPart, ChainPart
<1>2. log # <<>> => log' # <<>>
  BY <1>1, ChainStep DEF LogGrows, ChainPart
<1>3. CASE creation' = creation
  BY <1>1, <1>2, <1>3 DEF CreationPart
<1>4. ASSUME NEW pc \in {"readId", "configure", "require", "done", "failed"},
             NEW tries \in 0 .. MaxPosts, creation' = [pc |-> pc, tries |-> tries],
             pc = "require" => tries < MaxPosts,
             pc \in {"readId", "configure", "require"} => log' # <<>>
      PROVE  CreationPart'
  BY <1>4 DEF CreationPart, CreationType
<1>5. 0 \in 0 .. MaxPosts /\ 0 < MaxPosts
  BY <1>1
<1>6. CASE CreateJob
  <2>1. \E pc \in {"readId", "failed"} : creation' = [pc |-> pc, tries |-> 0]
    BY <1>6 DEF CreateJob, Creation, CreationFails
  <2>2. log' = Append(log, [kind |-> "job.created", amount |-> 0])
    BY <1>6 DEF CreateJob
  <2>3. log' # <<>>
    BY <1>1, <2>2
  <2> QED
    BY <1>4, <1>5, <2>1, <2>3
<1>7. CASE ReadJobId
  <2>1. \E pc \in {"configure", "require", "failed"} : creation' = [pc |-> pc, tries |-> 0]
    BY <1>7 DEF ReadJobId, Creation, CreationFails
  <2>2. log # <<>>
    BY <1>1, <1>7 DEF ReadJobId
  <2> QED
    BY <1>2, <1>4, <1>5, <2>1, <2>2
<1>8. CASE BatchConfigureHooks
  <2>1. \E pc \in {"require", "failed"} : creation' = [pc |-> pc, tries |-> 0]
    BY <1>8 DEF BatchConfigureHooks, Creation, CreationFails
  <2>2. log # <<>>
    BY <1>1, <1>8 DEF BatchConfigureHooks
  <2> QED
    BY <1>2, <1>4, <1>5, <2>1, <2>2
<1>9. CASE PostRequirement
  <2> DEFINE tries == creation.tries + 1
  <2>1. creation.pc = "require" /\ creation.tries \in 0 .. MaxPosts
    BY <1>1, <1>9 DEF PostRequirement, CreationType
  <2>2. tries \in 0 .. MaxPosts /\ (tries = MaxPosts \/ tries < MaxPosts)
    BY <1>1, <2>1
  <2>3. \/ creation' = [pc |-> "done", tries |-> tries]
        \/ creation' = [pc |-> "failed", tries |-> tries]
        \/ tries # MaxPosts /\ creation' = [pc |-> "require", tries |-> tries]
    BY <1>9 DEF PostRequirement, Creation, CreationFails
  <2> HIDE DEF tries
  <2> QED
    BY <1>1, <1>2, <1>4, <2>1, <2>2, <2>3
<1>10. CASE \E p \in Parties : Crash(p)
  <2>1. creation' = [creation EXCEPT !.pc = "failed"] \/ creation' = creation
    BY <1>10 DEF Crash
  <2>2. CASE creation' = [creation EXCEPT !.pc = "failed"]
    BY <1>1, <2>2 DEF CreationPart, CreationType
  <2> QED
    BY <1>3, <2>1, <2>2
<1>11. ASSUME ~ CreateJob, ~ ReadJobId, ~ BatchConfigureHooks, ~ PostRequirement,
              ~ (\E p \in Parties : Crash(p))
       PROVE  creation' = creation
  <2>1. CASE Observe \/ DeadlinePasses \/ Expire \/ UNCHANGED vars
    BY <2>1 DEF Observe, DeadlinePasses, Expire, vars
  <2>2. CASE \E p \in Parties : PostMessage(p) \/ Deliver(p) \/ Restart(p)
    BY <2>2 DEF PostMessage, Deliver, Restart
  <2>3. CASE \E t \in tasks : TaskStep(t) \/ RequestFails(t) \/ SendGivesUp(t)
    BY <2>3 DEF TaskStep, StartHandler, FundLoaded, ModelAnswers, PostDeliverable, SendLands,
                SendIsRefused, RequestFails, SendGivesUp
  <2>4. CASE \E x \in late : LateLands(x) \/ LateIsDropped(x)
    BY <2>4 DEF LateLands, LateIsDropped
  <2> QED
    BY <1>11, <2>1, <2>2, <2>3, <2>4 DEF Next, Progress, Disturbance, Create
<1> QED
  BY <1>3, <1>6, <1>7, <1>8, <1>9, <1>10, <1>11

\* What a handler may do besides its tasks: say something, and stop its agent.
HandlerSpeaks ==
  /\ UNCHANGED <<mail, chatter>> \/ (\E p \in Parties : Say(p))
  /\ UNCHANGED <<up, seen>> \/ (\E p \in Parties : StopAgent(p))
  /\ faults' = faults

LEMMA HandlersSpeak ==
  ASSUME NEW t, t.who \in Parties, StartHandler(t) \/ ModelAnswers(t)
  PROVE  HandlerSpeaks
<1>1. "client" \in Parties /\ "provider" \in Parties
  BY DEF Parties
<1>2. ASSUME NEW e, LlmBuyerHandler(t, e) \/ LlmSellerHandler(t, e), faults' = faults
      PROVE  HandlerSpeaks
  BY <1>1, <1>2 DEF LlmBuyerHandler, LlmSellerHandler, AskModel, Ignore, HandlerSpeaks
<1>3. ASSUME NEW e, BuyerHandler(t, e), faults' = faults
      PROVE  HandlerSpeaks
  <2>1. \/ Say("client") /\ UNCHANGED <<up, seen>>
        \/ UNCHANGED <<up, seen, mail, chatter>>
        \/ StopAgent("client") /\ UNCHANGED <<mail, chatter>>
    <3>1. CASE IsSystem(e) /\ e.kind = "budget.set"
      BY <1>3, <3>1 DEF BuyerHandler, EventStatus, Terminal
    <3>2. CASE IsSystem(e) /\ e.kind = "job.submitted"
      BY <1>3, <3>2 DEF BuyerHandler, EventStatus, Terminal
    <3>3. CASE ~ (IsSystem(e) /\ e.kind \in {"budget.set", "job.submitted"})
      BY <1>3, <3>3 DEF BuyerHandler, Ignore
    <3> QED
      BY <3>1, <3>2, <3>3
  <2> QED
    BY <1>1, <1>3, <2>1 DEF HandlerSpeaks
<1>4. ASSUME NEW e, SellerHandler(t, e), faults' = faults
      PROVE  HandlerSpeaks
  <2>1. \/ Say("provider") /\ UNCHANGED <<up, seen>>
        \/ UNCHANGED <<up, seen, mail, chatter>>
    <3>1. CASE IsSystem(e) /\ e.kind = "job.funded"
      BY <1>4, <3>1 DEF SellerHandler
    <3>2. CASE ~ (IsSystem(e) /\ e.kind = "job.funded") /\ e.kind = "requirement" /\ Status("provider") = "open"
      BY <1>4, <3>2 DEF SellerHandler
    <3>3. CASE /\ ~ (IsSystem(e) /\ e.kind = "job.funded")
               /\ ~ (e.kind = "requirement" /\ Status("provider") = "open")
      BY <1>4, <3>3 DEF SellerHandler, Ignore
    <3> QED
      BY <3>1, <3>2, <3>3
  <2> QED
    BY <1>1, <1>4, <2>1 DEF HandlerSpeaks
<1>5. CASE StartHandler(t)
  <2> DEFINE e == room[t.entry]
  <2>1. /\ LlmBuyerHandler(t, e) \/ BuyerHandler(t, e) \/ LlmSellerHandler(t, e) \/ SellerHandler(t, e)
        /\ faults' = faults
    BY <1>5 DEF StartHandler
  <2> HIDE DEF e
  <2> QED
    BY <1>2, <1>3, <1>4, <2>1
<1>6. CASE ModelAnswers(t)
  <2>1. PICK tool : ExecuteTool(t, tool)
    BY <1>6 DEF ModelAnswers
  <2>2. UNCHANGED <<mail, chatter>> \/ RunTool(t, tool)
    BY <2>1 DEF ExecuteTool
  <2>3. UNCHANGED <<mail, chatter>> \/ Say(t.who)
    <3>1. CASE RunTool(t, tool) /\ tool = "sendMessage"
      BY <3>1 DEF RunTool
    <3>2. CASE RunTool(t, tool) /\ tool \in {"wait", "setBudget", "fund", "submit"}
      BY <3>2 DEF RunTool
    <3>3. CASE RunTool(t, tool) /\ tool \notin {"sendMessage", "wait", "setBudget", "fund", "submit"}
      BY <3>3 DEF RunTool
    <3> QED
      BY <2>2, <3>1, <3>2, <3>3
  <2>4. UNCHANGED <<up, seen, faults>>
    BY <1>6 DEF ModelAnswers
  <2> QED
    BY <2>3, <2>4 DEF HandlerSpeaks
<1> QED
  BY <1>5, <1>6

LEMMA AgentStep ==
  ASSUME Typed, [Next]_vars
  PROVE  AgentPart'
<1>1. /\ up \in [Parties -> BOOLEAN] /\ seen \in [Parties -> 0 .. Len(room)]
      /\ mail \in [Parties -> Nat] /\ (\A p \in Parties : mail[p] > 0 => log # <<>>)
      /\ faults \in 0 .. MaxFaults /\ chatter \in 0 .. MaxMessages
      /\ MaxFaults \in Nat /\ MaxMessages \in Nat
  BY ConstantsAssumption DEF Typed, AgentPart
<1>2. /\ Len(room) \in Nat /\ Len(room') \in Nat /\ Len(room) <= Len(room')
      /\ (log # <<>> => log' # <<>>)
  BY RoomStep, ChainStep DEF Typed, RoomPart, ChainPart, LogGrows
<1>3. \A t \in tasks : t.who \in Parties /\ log # <<>>
  <2>1. \A t \in tasks : t.who \in Parties /\ t.entry \in 1 .. Len(room)
    BY DEF Typed, TaskPart, Sound
  <2>2. tasks # {} => room # <<>>
    BY <2>1
  <2> QED
    BY <2>1, <2>2 DEF Typed, RoomPart
\* The three parts of it.
<1> DEFINE Runs == up' \in [Parties -> BOOLEAN] /\ seen' \in [Parties -> 0 .. Len(room')]
           Talks == /\ mail' \in [Parties -> Nat] /\ (\A p \in Parties : mail'[p] > 0 => log' # <<>>)
                    /\ chatter' \in 0 .. MaxMessages
           Fails == faults' \in 0 .. MaxFaults
<1>4. ASSUME Runs, Talks, Fails PROVE AgentPart'
  BY <1>4 DEF AgentPart
<1>5. ASSUME UNCHANGED <<up, seen>> PROVE Runs
  BY <1>1, <1>2, <1>5
<1>6. ASSUME NEW p \in Parties, StopAgent(p) PROVE Runs
  <2>1. 0 \in 0 .. Len(room')
    BY <1>2
  <2> QED
    BY <1>1, <1>2, <1>6, <2>1 DEF StopAgent
<1>7. ASSUME UNCHANGED <<mail, chatter>> PROVE Talks
  BY <1>1, <1>2, <1>7
<1>8. ASSUME NEW p \in Parties, Say(p), log # <<>> PROVE Talks
  BY <1>1, <1>2, <1>8 DEF Say
<1>9. ASSUME faults' = faults \/ (\E k : Fault(k)) PROVE Fails
  BY <1>1, <1>9 DEF Fault
<1> HIDE DEF Runs, Talks, Fails
<1>10. CASE \E t \in tasks : StartHandler(t) \/ ModelAnswers(t)
  <2>1. log # <<>> /\ HandlerSpeaks
    BY <1>3, <1>10, HandlersSpeak
  <2> QED
    BY <1>4, <1>5, <1>6, <1>7, <1>8, <1>9, <2>1 DEF HandlerSpeaks
<1>11. CASE \E p \in Parties : Deliver(p)
  <2>1. PICK p \in Parties : Deliver(p)
    BY <1>11
  <2>2. seen[p] < Len(room) /\ seen' = [seen EXCEPT ![p] = @ + 1] /\ up' = up
    BY <2>1 DEF Deliver
  <2>3. Runs
    BY <1>1, <1>2, <2>2 DEF Runs
  <2>4. Talks /\ Fails
    BY <1>7, <1>9, <2>1 DEF Deliver, bounds
  <2> QED
    BY <1>4, <2>3, <2>4
<1>12. CASE \E p \in Parties : Restart(p)
  <2>1. PICK p \in Parties : Restart(p)
    BY <1>12
  <2>2. up' = [up EXCEPT ![p] = TRUE] /\ seen' = [seen EXCEPT ![p] = Len(room)]
    BY <2>1 DEF Restart
  <2>3. Len(room) \in 0 .. Len(room')
    BY <1>2
  <2>4. Runs
    BY <1>1, <1>2, <2>2, <2>3 DEF Runs
  <2>5. Talks /\ Fails
    BY <1>7, <1>9, <2>1 DEF Restart, bounds
  <2> QED
    BY <1>4, <2>4, <2>5
<1>13. CASE \E p \in Parties : Crash(p)
  BY <1>4, <1>6, <1>7, <1>9, <1>13 DEF Crash
<1>14. CASE \E p \in Parties : PostMessage(p)
  <2>1. PICK p \in Parties : PostMessage(p)
    BY <1>14
  <2>2. mail[p] > 0 /\ mail' = [mail EXCEPT ![p] = @ - 1] /\ chatter' = chatter
    BY <2>1 DEF PostMessage, bounds
  <2>3. Talks
    BY <1>1, <1>2, <2>2 DEF Talks
  <2>4. Runs /\ Fails
    BY <1>5, <1>9, <2>1 DEF PostMessage, agents, bounds
  <2> QED
    BY <1>4, <2>3, <2>4
<1>15. CASE Create
  <2>1. faults' = faults \/ (\E k : Fault(k))
    BY <1>15 DEF Create, CreateJob, ReadJobId, BatchConfigureHooks, PostRequirement
  <2>2. UNCHANGED <<mail, chatter>>
    BY <1>15 DEF Create, CreateJob, ReadJobId, BatchConfigureHooks, PostRequirement
  <2>3. UNCHANGED <<up, seen>> \/ StopAgent("client")
    BY <1>15 DEF Create, CreateJob, ReadJobId, BatchConfigureHooks, PostRequirement, Creation,
                 CreationFails, agents
  <2>4. "client" \in Parties
    BY DEF Parties
  <2> QED
    BY <1>4, <1>5, <1>6, <1>7, <1>9, <2>1, <2>2, <2>3, <2>4
<1>16. ASSUME UNCHANGED <<up, seen, mail, chatter>>, faults' = faults \/ (\E k : Fault(k))
       PROVE  AgentPart'
  BY <1>4, <1>5, <1>7, <1>9, <1>16
<1>17. CASE Observe \/ Expire \/ DeadlinePasses \/ UNCHANGED vars
  BY <1>16, <1>17 DEF Observe, Expire, DeadlinePasses, vars, agents, bounds
<1>18. CASE \E t \in tasks : \/ FundLoaded(t) \/ PostDeliverable(t) \/ SendLands(t) \/ SendIsRefused(t)
                             \/ RequestFails(t) \/ SendGivesUp(t)
  BY <1>16, <1>18 DEF FundLoaded, PostDeliverable, SendLands, SendIsRefused, RequestFails,
                      SendGivesUp, bounds
<1>19. CASE \E x \in late : LateLands(x) \/ LateIsDropped(x)
  BY <1>16, <1>19 DEF LateLands, LateIsDropped, agents, bounds
<1> QED
  BY <1>10, <1>11, <1>12, <1>13, <1>14, <1>15, <1>17, <1>18, <1>19
     DEF Next, Progress, Disturbance, TaskStep

\* A transaction that may land late was being sent.
LEMMA LateStep ==
  ASSUME Typed, [Next]_vars
  PROVE  LatePart'
<1>1. \A x \in late : x.who \in Parties /\ Payload(x.op, x.arg)
  BY DEF Typed, LatePart
<1>2. \A t \in tasks : t.pc = "send" => t.who \in Parties /\ Payload(t.op, t.arg)
  BY DEF Typed, TaskPart, Sound
<1>3. ASSUME late' \subseteq late PROVE LatePart'
  BY <1>1, <1>3 DEF LatePart
<1>4. ASSUME \A x \in late' : \/ x \in late
                              \/ \E t \in tasks : /\ t.pc = "send"
                                                  /\ x = [who |-> t.who, op |-> t.op, arg |-> t.arg]
      PROVE  LatePart'
  <2> SUFFICES ASSUME NEW x \in late' PROVE x.who \in Parties /\ Payload(x.op, x.arg)
    BY DEF LatePart
  <2>1. CASE x \in late
    BY <1>1, <2>1
  <2>2. ASSUME NEW t \in tasks, t.pc = "send", x = [who |-> t.who, op |-> t.op, arg |-> t.arg]
        PROVE  x.who \in Parties /\ Payload(x.op, x.arg)
    <3>1. x.who = t.who /\ x.op = t.op /\ x.arg = t.arg
      BY <2>2
    <3> QED
      BY <1>2, <2>2, <3>1
  <2> QED
    BY <1>4, <2>1, <2>2
<1>5. CASE \E p \in Parties : Crash(p)
  BY <1>4, <1>5 DEF Crash
<1>6. CASE \E t \in tasks : SendGivesUp(t)
  BY <1>4, <1>6 DEF SendGivesUp
<1>7. CASE \E x \in late : LateLands(x) \/ LateIsDropped(x)
  BY <1>3, <1>7 DEF LateLands, LateIsDropped
<1>8. CASE Observe \/ Create \/ DeadlinePasses \/ Expire \/ UNCHANGED vars
  BY <1>3, <1>8 DEF Observe, Create, CreateJob, ReadJobId, BatchConfigureHooks, PostRequirement,
                    DeadlinePasses, Expire, vars
<1>9. CASE \E p \in Parties : PostMessage(p) \/ Deliver(p) \/ Restart(p)
  BY <1>3, <1>9 DEF PostMessage, Deliver, Restart
<1>10. CASE \E t \in tasks : TaskStep(t) \/ RequestFails(t)
  BY <1>3, <1>10 DEF TaskStep, StartHandler, FundLoaded, ModelAnswers, PostDeliverable, SendLands,
                     SendIsRefused, RequestFails
<1> QED
  BY <1>5, <1>6, <1>7, <1>8, <1>9, <1>10 DEF Next, Progress, Disturbance

-----------------------------------------------------------------------------
(* The tasks.                                                              *)

\* The budget a record holds is one that was set, or none.
LEMMA BudgetIsAmount ==
  ASSUME Typed, NEW v \in 0 .. Len(log)
  PROVE  BudgetAt(v) \in Amounts
<1> DEFINE isSet == {e \in Range(log) : e.kind = "budget.set"}
           upTo == SubSeq(log, 1, v)
           sets == Select(upTo, isSet)
<1>1. log \in Seq(LogType)
  BY DEF Typed, ChainPart
<1>2. upTo \in Seq(LogType)
  BY <1>1
<1> HIDE DEF isSet, upTo
<1>3. sets \in Seq(LogType \cap isSet)
  BY <1>2, SelectTyped
<1>4. BudgetAt(v) = IF sets = <<>> THEN NoBudget ELSE Last(sets).amount
  BY DEF BudgetAt, upTo, isSet
<1> HIDE DEF sets
<1>5. CASE sets = <<>>
  BY <1>4, <1>5 DEF Amounts
<1>6. CASE sets # <<>>
  <2>1. Len(sets) \in 1 .. Len(sets)
    BY <1>3, <1>6
  <2>2. Last(sets) \in LogType
    BY <1>3, <2>1 DEF Last
  <2> QED
    BY <1>4, <1>6, <2>2 DEF LogType
<1> QED
  BY <1>5, <1>6

\* A tool the session's status offers is one the job in that state accepts.
LEMMA ToolsFit ==
  ASSUME Typed, NEW p \in Parties, NEW tool \in Ops, tool \in AvailableTools(p, Status(p)),
         log # <<>>, SeenEvents(p) = Len(log)
  PROVE  job.state \in AllowedStates(tool) /\ MaySend(p, tool)
<1> DEFINE kind == log[Len(log)].kind
<1>1. log \in Seq(LogType) /\ job.state = StateFrom(kind)
  BY DEF Typed, ChainPart
<1>2. Len(log) # 0 /\ Len(log) \in 1 .. Len(log)
  BY <1>1
<1>3. kind \in LogKinds
  <2>1. log[Len(log)] \in LogType
    BY <1>1, <1>2
  <2> QED
    BY <2>1 DEF LogType
<1>4. Status(p) = EventStatus(kind)
  BY <1>2 DEF Status, StatusAfter
<1> HIDE DEF kind
<1>5. tool \in UNION {ToolMatrix(r, EventStatus(kind)) : r \in Roles(p)}
  BY <1>4 DEF AvailableTools, Ops
<1>6. PICK r \in Roles(p) : tool \in ToolMatrix(r, EventStatus(kind))
  BY <1>5
<1>7. /\ r = "provider" => p = "provider"
      /\ r = "client" => p = "client"
      /\ r = "evaluator" => p = "client" /\ SelfEval
      /\ r \in {"provider", "client", "evaluator"}
  BY <1>6 DEF Roles, Parties
<1>8. \/ r = "provider" /\ kind \in {"job.created", "budget.set"} /\ tool = "setBudget"
      \/ r = "provider" /\ kind = "job.funded" /\ tool = "submit"
      \/ r = "client" /\ kind = "budget.set" /\ tool = "fund"
      \/ r = "evaluator" /\ kind = "job.submitted" /\ tool \in {"complete", "reject"}
  BY <1>3, <1>6, <1>7 DEF ToolMatrix, EventStatus, LogKinds, Ops
<1> QED
  BY <1>1, <1>7, <1>8 DEF StateFrom, AllowedStates, MaySend

\* New tasks are sound; the others are what they were.
Fresh == \A u \in tasks' : u \in tasks \/ Sound(u)

LEMMA SendIsSound ==
  ASSUME Typed, NEW t, Sound(t), NEW op, NEW arg, Payload(op, arg),
         \/ setup.style # "llm"
         \/ job.state \in AllowedStates(op) /\ MaySend(t.who, op)
         \/ SeenEvents(t.who) < Len(log)
  PROVE  Sound(Send(t, op, arg))
<1> DEFINE s == Send(t, op, arg)
<1>1. TaskShape(t) /\ t.who \in Parties /\ t.entry \in 1 .. Len(room)
  BY DEF Sound
<1>2. /\ TaskShape(s) /\ s.pc = "send" /\ s.op = op /\ s.arg = arg
      /\ s.who = t.who /\ s.entry = t.entry /\ s.ver = SeenEvents(t.who)
  BY <1>1, SendShape
<1>3. SeenEvents(t.who) \in 0 .. Len(log) /\ Len(log) \in Nat
  BY <1>1, SeenEventsFit DEF Typed, ChainPart
<1> HIDE DEF s
<1>4. setup.style = "llm" => KeepsUp(s)
  BY <1>2, <1>3 DEF KeepsUp
<1>5. Sound(s)
  BY <1>1, <1>2, <1>3, <1>4 DEF Sound, TaskPcs
<1> QED
  BY <1>5 DEF s

LEMMA FulfilIsSound ==
  ASSUME Typed, NEW t, Sound(t), NEW d \in Deliverables,
         \/ setup.style # "llm"
         \/ job.state \in AllowedStates("submit") /\ MaySend(t.who, "submit")
         \/ SeenEvents(t.who) < Len(log)
  PROVE  Sound(Fulfil(t, d))
<1> DEFINE s == Send(t, "submit", d)
           f == [s EXCEPT !.pc = "post"]
<1>1. Payload("submit", d)
  BY DEF Payload, ArgsOf, Ops
<1>2. Sound(s)
  BY <1>1, SendIsSound
<1>3. s.op = "submit" /\ s.pc = "send"
  BY SendShape DEF Sound
<1> HIDE DEF s
<1>4. /\ TaskShape(f) /\ f.pc = "post" /\ f.op = s.op /\ f.arg = s.arg
      /\ f.who = s.who /\ f.entry = s.entry /\ f.ver = s.ver
  BY <1>2 DEF Sound, TaskShape
<1> HIDE DEF f
<1>5. Sound(f)
  BY <1>2, <1>3, <1>4 DEF Sound, KeepsUp, TaskPcs
<1>6. Fulfil(t, d) = f
  BY DEF Fulfil, f, s
<1> QED
  BY <1>5, <1>6

\* A task that waits for the job's record or the model.
LEMMA WaitIsSound ==
  ASSUME Typed, NEW t, Sound(t), t.pc = "fetch", NEW pc \in {"refetch", "think"},
         setup.style = "llm" => pc # "refetch", NEW ver \in 0 .. Len(log)
  PROVE  Sound([t EXCEPT !.pc = pc, !.ver = ver])
<1> DEFINE m == [t EXCEPT !.pc = pc]
           w == [m EXCEPT !.ver = ver]
<1>1. /\ TaskShape(m) /\ m.pc = pc /\ m.who = t.who /\ m.entry = t.entry
      /\ m.op = t.op /\ m.arg = t.arg
  BY DEF Sound, TaskShape
<1>2. [t EXCEPT !.pc = pc, !.ver = ver] = w
  BY DEF Sound, TaskShape
<1> HIDE DEF m
<1>3. /\ TaskShape(w) /\ w.pc = pc /\ w.who = t.who /\ w.entry = t.entry /\ w.ver = ver
      /\ w.op = t.op /\ w.arg = t.arg
  BY <1>1 DEF TaskShape
<1> HIDE DEF w
<1>4. Sound(w)
  BY <1>3 DEF Sound, TaskPcs
<1> QED
  BY <1>2, <1>4

LEMMA SetBudgetIsFresh ==
  ASSUME Typed, NEW t, Sound(t), NEW b \in Budgets, SetBudget(t, b),
         \/ setup.style # "llm"
         \/ job.state \in AllowedStates("setBudget") /\ MaySend(t.who, "setBudget")
         \/ SeenEvents(t.who) < Len(log)
  PROVE  Fresh
<1>1. Payload("setBudget", b)
  BY DEF Payload, ArgsOf, Ops
<1>2. Sound(Send(t, "setBudget", b))
  BY <1>1, SendIsSound
<1> QED
  BY <1>2 DEF SetBudget, Go, Drop, Fresh

LEMMA AskModelIsFresh ==
  ASSUME Typed, NEW t, Sound(t), t.pc = "fetch", AskModel(t)
  PROVE  Fresh
<1>1. SeenEvents(t.who) \in 0 .. Len(log)
  BY SeenEventsFit DEF Sound, Typed
<1>2. Sound([t EXCEPT !.pc = "think", !.ver = SeenEvents(t.who)])
  BY <1>1, WaitIsSound
<1> QED
  BY <1>2 DEF AskModel, Go, Fresh

LEMMA BuyerIsFresh ==
  ASSUME Typed, NEW t, Sound(t), t.pc = "fetch", setup.style # "llm", NEW e, BuyerHandler(t, e)
  PROVE  Fresh
<1>1. CASE IsSystem(e) /\ e.kind = "budget.set"
  <2>1. Go(t, [t EXCEPT !.pc = "refetch", !.ver = Observed])
    BY <1>1 DEF BuyerHandler, EventStatus, Terminal
  <2>2. Observed \in 0 .. Len(log)
    BY SeenEventsFit DEF Sound, Typed
  <2>3. Sound([t EXCEPT !.pc = "refetch", !.ver = Observed])
    BY <2>2, WaitIsSound
  <2> QED
    BY <2>1, <2>3 DEF Go, Fresh
<1>2. CASE IsSystem(e) /\ e.kind = "job.submitted"
  <2>1. Go(t, Send(t, "complete", Nothing))
    BY <1>2 DEF BuyerHandler, EventStatus, Terminal
  <2>2. Sound(Send(t, "complete", Nothing))
    BY SendIsSound DEF Payload, ArgsOf, Ops
  <2> QED
    BY <2>1, <2>2 DEF Go, Fresh
<1>3. CASE ~(IsSystem(e) /\ e.kind \in {"budget.set", "job.submitted"})
  <2>1. StopAgent("client") \/ Ignore(t)
    BY <1>3 DEF BuyerHandler
  <2> QED
    BY <2>1 DEF StopAgent, Ignore, Drop, Fresh
<1> QED
  BY <1>1, <1>2, <1>3

LEMMA SellerIsFresh ==
  ASSUME Typed, NEW t, Sound(t), setup.style # "llm", NEW e, SellerHandler(t, e)
  PROVE  Fresh
<1>1. CASE IsSystem(e) /\ e.kind = "job.funded"
  <2>1. PICK d \in Deliverables : Go(t, Fulfil(t, d))
    BY <1>1 DEF SellerHandler
  <2>2. Sound(Fulfil(t, d))
    BY FulfilIsSound
  <2> QED
    BY <2>1, <2>2 DEF Go, Fresh
<1>2. CASE /\ ~(IsSystem(e) /\ e.kind = "job.funded")
           /\ e.kind = "requirement" /\ Status("provider") = "open"
  <2>1. (\E b \in Budgets : SetBudget(t, b)) \/ Go(t, Send(t, "reject", Nothing))
    BY <1>2 DEF SellerHandler
  <2>2. Sound(Send(t, "reject", Nothing))
    BY SendIsSound DEF Payload, ArgsOf, Ops
  <2> QED
    BY <2>1, <2>2, SetBudgetIsFresh DEF Go, Fresh
<1>3. CASE /\ ~(IsSystem(e) /\ e.kind = "job.funded")
           /\ ~(e.kind = "requirement" /\ Status("provider") = "open")
  <2>1. Ignore(t)
    BY <1>3 DEF SellerHandler
  <2> QED
    BY <2>1 DEF Ignore, Drop, Fresh
<1> QED
  BY <1>1, <1>2, <1>3

LEMMA StartIsFresh ==
  ASSUME Typed, NEW t, Sound(t), StartHandler(t)
  PROVE  Fresh
<1> DEFINE e == room[t.entry]
<1>1. /\ t.pc = "fetch"
      /\ \/ LlmBuyerHandler(t, e) \/ LlmSellerHandler(t, e)
         \/ setup.style # "llm" /\ (BuyerHandler(t, e) \/ SellerHandler(t, e))
  BY DEF StartHandler
<1> HIDE DEF e
<1>2. CASE LlmBuyerHandler(t, e)
  <2>1. StopAgent("client") \/ AskModel(t)
    BY <1>2 DEF LlmBuyerHandler
  <2> QED
    BY <1>1, <2>1, AskModelIsFresh DEF StopAgent, Fresh
<1>3. CASE LlmSellerHandler(t, e)
  <2>1. Ignore(t) \/ AskModel(t)
    BY <1>3 DEF LlmSellerHandler
  <2> QED
    BY <1>1, <2>1, AskModelIsFresh DEF Ignore, Drop, Fresh
<1> QED
  BY <1>1, <1>2, <1>3, BuyerIsFresh, SellerIsFresh

LEMMA ToolIsFresh ==
  ASSUME Typed, NEW t \in tasks, NEW tool, ExecuteTool(t, tool)
  PROVE  Fresh
<1>1. Sound(t) /\ log # <<>> /\ t.who \in Parties
  <2>1. Sound(t) /\ room # <<>>
    BY DEF Typed, TaskPart, Sound
  <2> QED
    BY <2>1 DEF Sound, Typed, RoomPart
<1>2. Drop(t) \/ (RunTool(t, tool) /\ tool \in AvailableTools(t.who, Status(t.who)))
  BY DEF ExecuteTool
<1>3. CASE Drop(t)
  BY <1>3 DEF Drop, Fresh
<1>4. CASE RunTool(t, tool) /\ tool \in {"wait", "sendMessage"}
  BY <1>4 DEF RunTool, Drop, Fresh
<1>5. SeenEvents(t.who) \in 0 .. Len(log) /\ Len(log) \in Nat
  BY <1>1, SeenEventsFit DEF Typed, ChainPart
<1>6. ASSUME tool \in Ops, tool \in AvailableTools(t.who, Status(t.who))
      PROVE  \/ job.state \in AllowedStates(tool) /\ MaySend(t.who, tool)
             \/ SeenEvents(t.who) < Len(log)
  BY <1>1, <1>5, <1>6, ToolsFit
<1>7. CASE RunTool(t, tool) /\ tool \in AvailableTools(t.who, Status(t.who)) /\ tool \in Ops
  <2>1. CASE tool = "setBudget"
    <3>1. PICK b \in Budgets : SetBudget(t, b)
      BY <1>7, <2>1 DEF RunTool
    <3> QED
      BY <1>1, <1>6, <1>7, <2>1, <3>1, SetBudgetIsFresh
  <2>2. CASE tool = "submit"
    <3>1. PICK d \in Deliverables : Go(t, Fulfil(t, d))
      BY <1>7, <2>2 DEF RunTool
    <3>2. Sound(Fulfil(t, d))
      BY <1>1, <1>6, <1>7, <2>2, FulfilIsSound
    <3> QED
      BY <3>1, <3>2 DEF Go, Fresh
  <2>3. CASE tool \in {"fund", "complete", "reject"}
    <3> DEFINE arg == IF tool = "fund" THEN BudgetAt(SeenEvents(t.who)) ELSE Nothing
    <3>1. Go(t, Send(t, tool, arg))
      BY <1>7, <2>3 DEF RunTool
    <3> HIDE DEF arg
    <3>2. Payload(tool, arg)
      <4>1. tool = "fund" => arg \in Amounts
        BY <1>5, BudgetIsAmount DEF arg
      <4>2. tool # "fund" => arg = Nothing
        BY DEF arg
      <4> QED
        BY <2>3, <4>1, <4>2 DEF Payload, ArgsOf, Ops
    <3>3. Sound(Send(t, tool, arg))
      BY <1>1, <1>6, <1>7, <3>2, SendIsSound
    <3> QED
      BY <3>1, <3>3 DEF Go, Fresh
  <2> QED
    BY <1>7, <2>1, <2>2, <2>3 DEF Ops
<1>8. tool \in AvailableTools(t.who, Status(t.who)) => tool \in Ops \cup {"wait", "sendMessage"}
  BY DEF AvailableTools, ToolMatrix, Ops
<1> QED
  BY <1>2, <1>3, <1>4, <1>7, <1>8

LEMMA DispatchIsFresh ==
  ASSUME Typed, NEW p \in Parties, NEW i \in 1 .. Len(room), Dispatch(p, i)
  PROVE  Fresh
<1> DEFINE u == Task(p, i, "fetch")
<1>1. /\ TaskShape(u) /\ u.who = p /\ u.entry = i /\ u.pc = "fetch" /\ u.ver = 0
      /\ u.op = "none" /\ u.arg = Nothing
  BY DEF Task, TaskShape
<1>2. tasks' = tasks \cup {u} \/ tasks' = tasks
  BY DEF Dispatch
<1>3. 0 \in 0 .. Len(log)
  BY DEF Typed, ChainPart
<1> HIDE DEF u
<1>4. Sound(u)
  BY <1>1, <1>3 DEF Sound, TaskPcs
<1> QED
  BY <1>2, <1>4 DEF Fresh

\* What was sound stays so while the log and the room grow.
LEMMA OldIsSound ==
  ASSUME Typed, [Next]_vars, NEW t, Sound(t)
  PROVE  Sound(t)'
<1>1. /\ Len(room) \in Nat /\ Len(room') \in Nat /\ Len(room) <= Len(room')
      /\ Len(log) \in Nat /\ Len(log') \in Nat
      /\ (Len(log') = Len(log) /\ job'.state = job.state) \/ Len(log') = Len(log) + 1
  BY RoomStep, ChainStep DEF Typed, RoomPart, ChainPart, LogGrows
<1>2. setup' = setup
  <2>1. CASE \E t2 \in tasks : TaskStep(t2) \/ RequestFails(t2) \/ SendGivesUp(t2)
    BY <2>1 DEF TaskStep, StartHandler, FundLoaded, ModelAnswers, PostDeliverable, SendLands,
                Apply, SendIsRefused, RequestFails, SendGivesUp, chain
  <2>2. CASE \E x \in late : LateLands(x) \/ LateIsDropped(x)
    BY <2>2 DEF LateLands, LateIsDropped, Apply, chain
  <2>3. CASE \E p \in Parties : PostMessage(p) \/ Deliver(p) \/ Restart(p) \/ Crash(p)
    BY <2>3 DEF PostMessage, Deliver, Restart, Crash, chain
  <2>4. CASE Observe \/ Create \/ DeadlinePasses \/ Expire \/ UNCHANGED vars
    BY <2>4 DEF Observe, Create, CreateJob, ReadJobId, BatchConfigureHooks, PostRequirement,
                DeadlinePasses, Expire, vars, chain
  <2> QED
    BY <2>1, <2>2, <2>3, <2>4 DEF Next, Progress, Disturbance
<1>3. KeepsUp(t) => KeepsUp(t)'
  <2>1. t.ver \in 0 .. Len(log)
    BY DEF Sound
  <2>2. job'.state = job.state => MaySend(t.who, t.op)' = MaySend(t.who, t.op)
    BY DEF MaySend
  <2> QED
    BY <1>1, <2>1, <2>2 DEF KeepsUp
<1> QED
  BY <1>1, <1>2, <1>3 DEF Sound

LEMMA TasksStep ==
  ASSUME Typed, [Next]_vars
  PROVE  TaskPart'
<1>1. \A t \in tasks : Sound(t)
  BY DEF Typed, TaskPart
<1>2. ASSUME Fresh PROVE TaskPart'
  <2> SUFFICES ASSUME NEW u \in tasks' PROVE Sound(u)'
    BY DEF TaskPart
  <2>1. Sound(u)
    BY <1>1, <1>2 DEF Fresh
  <2> QED
    BY <2>1, OldIsSound
<1>3. CASE tasks' \subseteq tasks
  BY <1>2, <1>3 DEF Fresh
<1>4. CASE Observe \/ DeadlinePasses \/ Expire \/ UNCHANGED vars
  BY <1>3, <1>4 DEF Observe, DeadlinePasses, Expire, vars, agents
<1>5. CASE Create
  BY <1>3, <1>5 DEF Create, CreateJob, ReadJobId, BatchConfigureHooks, PostRequirement, Creation,
                    CreationFails, StopAgent, agents
<1>6. CASE \E p \in Parties : Deliver(p)
  <2>1. PICK p \in Parties : Deliver(p)
    BY <1>6
  <2>2. seen[p] \in 0 .. Len(room) /\ seen[p] < Len(room) /\ Len(room) \in Nat
    BY <2>1 DEF Deliver, Typed, AgentPart, RoomPart
  <2>3. seen[p] + 1 \in 1 .. Len(room)
    BY <2>2
  <2>4. Fresh
    BY <2>1, <2>3, DispatchIsFresh DEF Deliver
  <2> QED
    BY <1>2, <2>4
<1>7. CASE \E p \in Parties : Restart(p)
  <2>1. PICK p \in Parties : Restart(p)
    BY <1>7
  <2>2. CASE RecordIsActive
    <3>1. room # <<>>
      <4>1. ASSUME room = <<>> PROVE FALSE
        <5>1. Observed > 0
          BY <2>2 DEF RecordIsActive
        <5>2. EventsIn(<<>>) = <<>>
          BY SelectEmpty DEF EventsIn
        <5> QED
          BY <4>1, <5>1, <5>2 DEF Observed
      <4> QED
        BY <4>1
    <3>2. Len(room) \in 1 .. Len(room)
      BY <3>1 DEF Typed, RoomPart
    <3>3. Fresh
      BY <2>1, <2>2, <3>2, DispatchIsFresh DEF Restart
    <3> QED
      BY <1>2, <3>3
  <2>3. CASE ~ RecordIsActive
    BY <1>3, <2>1, <2>3 DEF Restart
  <2> QED
    BY <2>2, <2>3
<1>8. CASE \E p \in Parties : Crash(p) \/ PostMessage(p)
  BY <1>3, <1>8 DEF Crash, StopAgent, PostMessage, agents
<1>9. CASE \E t \in tasks : StartHandler(t)
  BY <1>1, <1>2, <1>9, StartIsFresh
<1>10. CASE \E t \in tasks : FundLoaded(t)
  <2>1. PICK t \in tasks : FundLoaded(t)
    BY <1>10
  <2>2. PICK v \in t.ver .. Observed : Go(t, Send(t, "fund", BudgetAt(v)))
    BY <2>1 DEF FundLoaded
  <2>3. Sound(t) /\ setup.style # "llm"
    BY <1>1, <2>1 DEF FundLoaded, Sound
  <2>4. v \in 0 .. Len(log)
    BY <2>3, SeenEventsFit DEF Sound, Typed, ChainPart
  <2>5. Payload("fund", BudgetAt(v))
    BY <2>4, BudgetIsAmount DEF Payload, ArgsOf, Ops
  <2>6. Sound(Send(t, "fund", BudgetAt(v)))
    BY <2>3, <2>5, SendIsSound
  <2>7. Fresh
    BY <2>2, <2>6 DEF Go, Fresh
  <2> QED
    BY <1>2, <2>7
<1>11. CASE \E t \in tasks : ModelAnswers(t)
  BY <1>2, <1>11, ToolIsFresh DEF ModelAnswers
\* The deliverable is posted: the submit goes on as it is.
<1>12. CASE \E t \in tasks : PostDeliverable(t)
  <2>1. PICK t \in tasks : PostDeliverable(t)
    BY <1>12
  <2> DEFINE u == [t EXCEPT !.pc = "send"]
  <2>2. t.pc = "post" /\ Go(t, u) /\ Sound(t)
    BY <1>1, <2>1 DEF PostDeliverable
  <2>3. /\ TaskShape(u) /\ u.pc = "send" /\ u.op = t.op /\ u.arg = t.arg
        /\ u.who = t.who /\ u.entry = t.entry /\ u.ver = t.ver
    BY <2>2 DEF Sound, TaskShape
  <2> HIDE DEF u
  <2>4. Sound(u)
    BY <2>2, <2>3 DEF Sound, KeepsUp, TaskPcs
  <2>5. Fresh
    BY <2>2, <2>4 DEF Go, Fresh
  <2> QED
    BY <1>2, <2>5
<1>13. CASE \E t \in tasks : SendLands(t) \/ SendIsRefused(t) \/ RequestFails(t) \/ SendGivesUp(t)
  BY <1>3, <1>13 DEF SendLands, SendIsRefused, RequestFails, SendGivesUp, Drop
<1>14. CASE \E x \in late : LateLands(x) \/ LateIsDropped(x)
  BY <1>3, <1>14 DEF LateLands, LateIsDropped, agents
<1> QED
  BY <1>4, <1>5, <1>6, <1>7, <1>8, <1>9, <1>10, <1>11, <1>12, <1>13, <1>14
     DEF Next, Progress, Disturbance, TaskStep

LEMMA TypedInit == Init => Typed
<1> SUFFICES ASSUME Init PROVE Typed
  OBVIOUS
<1>1. ChainPart
  <2>1. job \in JobType /\ job.state = "none"
    <3>1. NoBudget \in Amounts /\ NoDeliverable \in Deliverables \cup {NoDeliverable}
      BY DEF Amounts
    <3>2. job = [state |-> "none", budget |-> NoBudget, deliverable |-> NoDeliverable, hooks |-> FALSE]
      BY DEF Init
    <3> QED
      BY <3>1, <3>2 DEF JobType
  <2>2. log = <<>> /\ setup \in Setups /\ overdue = FALSE
    BY DEF Init
  <2>3. log \in Seq(LogType)
    BY <2>2
  <2> QED
    BY <2>1, <2>2, <2>3 DEF ChainPart
<1>2. RoomPart
  <2>1. EventsIn(<<>>) = <<>>
    BY SelectEmpty DEF EventsIn
  <2> QED
    BY <2>1 DEF Init, RoomPart, Observed
<1>3. CreationPart
  BY ConstantsAssumption DEF Init, CreationPart, CreationType
<1>4. AgentPart
  BY ConstantsAssumption DEF Init, AgentPart
<1>5. TaskPart /\ LatePart
  BY DEF Init, TaskPart, LatePart
<1> QED
  BY <1>1, <1>2, <1>3, <1>4, <1>5 DEF Typed

LEMMA TypedNext == Typed /\ [Next]_vars => Typed'
BY ChainStep, RoomStep, CreationStep, AgentStep, TasksStep, LateStep DEF Typed

LEMMA TypedAlways == Spec => []Typed
BY TypedInit, TypedNext, PTL DEF Spec

\* What the induction carries is stronger than the types: the cut of the room
\* at the observed events is a cut of the log.
LEMMA TypedGivesTypes == Typed => TypeOK
<1> SUFFICES ASSUME Typed PROVE TypeOK
  OBVIOUS
<1>1. /\ setup \in Setups /\ job \in JobType /\ log \in Seq(LogType) /\ overdue \in BOOLEAN
      /\ room \in Seq(RoomType) /\ posted \in Deliverables \cup {NoDeliverable}
  BY DEF Typed, ChainPart, RoomPart
<1>2. Observed \in 0 .. Len(log)
  <2>1. Observed \in Nat
    BY <1>1, EventsCount DEF Observed
  <2> QED
    BY <2>1, <1>1 DEF Typed, RoomPart
<1>3. /\ creation \in CreationType
      /\ up \in [Parties -> BOOLEAN] /\ seen \in [Parties -> 0 .. Len(room)]
      /\ mail \in [Parties -> Nat] /\ faults \in 0 .. MaxFaults /\ chatter \in 0 .. MaxMessages
  BY DEF Typed, CreationPart, AgentPart
<1>4. ASSUME NEW t \in tasks
      PROVE  /\ t.who \in Parties /\ t.entry \in DOMAIN room
             /\ t.pc \in TaskPcs /\ t.ver \in 0 .. Len(log)
             /\ IF t.pc \in {"post", "send"} THEN t.op \in Ops /\ t.arg \in ArgsOf(t.op)
                                             ELSE t.op = "none" /\ t.arg = Nothing
  BY <1>1 DEF Typed, TaskPart, Sound, Payload
<1>5. \A x \in late : x.who \in Parties /\ x.op \in Ops /\ x.arg \in ArgsOf(x.op)
  BY DEF Typed, LatePart, Payload
<1> QED
  BY <1>1, <1>2, <1>3, <1>4, <1>5 DEF TypeOK

\* Every variable has its type, whatever fails, crashes or lands late: the
\* room shows no event the chain does not have, no task goes by more of them
\* than there are, and every transaction on its way, given up or not, carries
\* what its instruction takes.
THEOREM TypesKept == Spec => []TypeOK
BY TypedAlways, TypedGivesTypes, PTL

\* A tool executeTool lets through is one the job accepts from the party that
\* calls it, unless the chain has moved on since: for every interleaving of
\* the model's answers, the stream and the other party's transactions.
THEOREM ToolsCurrent == Spec => []ToolsKeepUp
<1>1. Typed => ToolsKeepUp
  BY DEF Typed, TaskPart, Sound, KeepsUp, ToolsKeepUp
<1> QED
  BY TypedAlways, <1>1, PTL
=============================================================================
