-------------------------- MODULE SchedulerProofs --------------------------
(***************************************************************************)
(* Theorems of Scheduler: for any jobs, agents and admin requests, any     *)
(* time, any failures and any restarts.                                    *)
(*                                                                         *)
(* The running set keeps one agent's jobs apart because it is accurate,    *)
(* and stays accurate because the agent the scan has claimed has no task   *)
(* yet.  How often a job fires is told further down, of what its row, the  *)
(* scan and the tasks hold of its activations and instants.                *)
(***************************************************************************)
EXTENDS Scheduler, FiniteSetTheorems, TLAPS

Busy == {AgentOf[t.job] : t \in tasks}
ClaimIsFree == Claiming => current.job \in Jobs /\ AgentOf[current.job] \notin Busy
NamedJobs   == \A r \in Requests : requests[r].pc # "new" => requests[r].job \in Jobs

IInv ==
  /\ TypeOK
  /\ IsFiniteSet(log)
  /\ OneRunPerAgent
  /\ RunningIsAccurate
  /\ ClaimIsFree
  /\ NamedJobs

LEMMA NextFireType ==
  ASSUME NEW cron \in Nat \ {0}, NEW t \in Nat
  PROVE  NextFire(cron, t) \in Nat
<1> DEFINE q == t \div cron + 1
<1>1. q \in Nat
  BY SMT
<1> HIDE DEF q
<1>2. q * cron \in Nat
  BY <1>1, SMT
<1>3. QED
  BY <1>2 DEF NextFire, q

\* The UPDATEs keep the table's type, whether their row is there or not.
LEMMA UpdateTypes ==
  ASSUME rows \in [Jobs -> Rows], NEW j
  PROVE  /\ \A s \in {"active", "paused", "disabled", "deleted"} :
              SetStatus(j, s) => rows' \in [Jobs -> Rows]
         /\ \A t \in Nat : SetNext(j, t) => rows' \in [Jobs -> Rows]
BY DEF SetStatus, SetNext, Rows, Instants

LEMMA InitIInv == Init => IInv
<1> SUFFICES ASSUME Init PROVE IInv
  OBVIOUS
<1>1. TypeOK
  <2>1. Unborn \in Rows /\ NewReq \in [pc : Labels, op : Operations \cup {"none"},
                                        job : Jobs \cup {NoJob}, cron : Nat, next : Instants]
    BY DEF Unborn, Rows, NewReq, Labels, Instants, OneTime
  <2>2. QED
    BY <2>1 DEF Init, TypeOK
<1>2. IsFiniteSet(log)
  BY FS_EmptySet DEF Init
<1>3. OneRunPerAgent /\ RunningIsAccurate /\ ClaimIsFree /\ NamedJobs
  BY DEF Init, OneRunPerAgent, RunningIsAccurate, ClaimIsFree, Claiming, NamedJobs, NewReq
<1>4. QED
  BY <1>1, <1>2, <1>3 DEF IInv

(***************************************************************************)
(* A step that leaves the scan and the tasks alone has only types to keep. *)
(***************************************************************************)
LEMMA QuietIInv ==
  ASSUME IInv, TypeOK', NamedJobs', UNCHANGED <<running, phase, current, tasks, log>>
  PROVE  IInv'
BY DEF IInv, OneRunPerAgent, RunningIsAccurate, ClaimIsFree, Claiming, Busy

LEMMA ScanKeepsIInv == ASSUME IInv, ScanStep \/ ListFails PROVE IInv'
<1> USE DEF scanVars
<1>t. TypeOK
  BY DEF IInv
<1>n. NamedJobs'
  BY DEF IInv, NamedJobs, ScanStep, WakeUp, ListDue, ListFails, Skip, Claim, Reschedule, Spawn, EndScan
<1>a. AgentOf \in [Jobs -> Agents]
  BY JobsAssumption
<1>1. CASE WakeUp \/ ListDue \/ ListFails \/ EndScan \/ \E d \in due : Skip(d)
  <2>1. TypeOK'
    <3>1. CASE WakeUp
      BY <3>1, <1>t DEF WakeUp, TypeOK
    <3>2. CASE ListDue
      <4>1. {[job |-> j, cron |-> rows[j].cron, next |-> rows[j].next] :
               j \in {k \in Jobs : rows[k].status = "active" /\ rows[k].next <= now}} \subseteq DueJobs
        BY <1>t DEF TypeOK, Rows, DueJobs
      <4>2. QED
        BY <3>2, <4>1, <1>t DEF ListDue, TypeOK
    <3>3. CASE ListFails
      BY <3>3, <1>t DEF ListFails, TypeOK
    <3>4. CASE EndScan
      BY <3>4, <1>t DEF EndScan, TypeOK
    <3>5. CASE \E d \in due : Skip(d)
      BY <3>5, <1>t DEF Skip, TypeOK
    <3>6. QED
      BY <1>1, <3>1, <3>2, <3>3, <3>4, <3>5
  <2>2. ~Claiming /\ ~Claiming' /\ UNCHANGED <<running, tasks, log>>
    BY <1>1 DEF WakeUp, ListDue, ListFails, EndScan, Skip, Claiming
  <2>3. QED
    BY <1>n, <2>1, <2>2 DEF IInv, OneRunPerAgent, RunningIsAccurate, ClaimIsFree
<1>2. ASSUME NEW d \in due, Claim(d) PROVE IInv'
  <2>1. d \in DueJobs /\ d.job \in Jobs /\ AgentOf[d.job] \in Agents
    BY <1>t, <1>a DEF TypeOK, DueJobs
  <2>2. TypeOK'
    BY <1>2, <1>t, <2>1 DEF Claim, TypeOK
  <2>3. running = Busy /\ ~Claiming
    BY <1>2 DEF IInv, RunningIsAccurate, Claim, Claiming, Busy
  <2>4. RunningIsAccurate'
    BY <1>2, <2>3 DEF Claim, RunningIsAccurate, Claiming, Busy
  <2>5. ClaimIsFree'
    BY <1>2, <2>1, <2>3 DEF Claim, ClaimIsFree, Busy
  <2>6. IsFiniteSet(log') /\ OneRunPerAgent'
    BY <1>2 DEF Claim, IInv, OneRunPerAgent
  <2>7. QED
    BY <1>n, <2>2, <2>4, <2>5, <2>6 DEF IInv
<1>3. CASE Reschedule
  <2>1. current.job \in Jobs /\ current \in DueJobs
    BY <1>3, <1>t, JobsAssumption DEF Reschedule, IInv, ClaimIsFree, Claiming, TypeOK, NoDue
  <2>2. rows' \in [Jobs -> Rows]
    <3>1. CASE current.cron # OneTime /\ SetNext(current.job, NextFire(current.cron, now))
      <4>1. NextFire(current.cron, now) \in Nat
        BY <3>1, <2>1, <1>t, NextFireType DEF TypeOK, DueJobs, OneTime
      <4>2. QED
        BY <3>1, <4>1, <1>t, UpdateTypes DEF TypeOK
    <3>2. CASE SetStatus(current.job, "disabled")
      BY <3>2, <1>t, UpdateTypes DEF TypeOK
    <3>3. CASE UNCHANGED rows
      BY <3>3, <1>t DEF TypeOK
    <3>4. QED
      BY <1>3, <3>1, <3>2, <3>3 DEF Reschedule
  <2>3. faults' \in Nat
    BY <1>3, <1>t DEF Reschedule, TypeOK
  <2>4. TypeOK'
    BY <1>3, <1>t, <2>2, <2>3 DEF Reschedule, TypeOK
  <2>5. Claiming /\ Claiming' /\ UNCHANGED <<running, current, tasks, log>>
    BY <1>3 DEF Reschedule, Claiming
  <2>6. QED
    BY <1>n, <2>4, <2>5 DEF IInv, OneRunPerAgent, RunningIsAccurate, ClaimIsFree, Busy
<1>4. CASE Spawn
  <2> DEFINE new == [id |-> Cardinality(log), job |-> current.job, stage |-> "open"]
             entry == [id |-> Cardinality(log), job |-> current.job, cron |-> current.cron,
                       due |-> current.next, at |-> now]
  <2>1. current.job \in Jobs /\ current \in DueJobs /\ AgentOf[current.job] \notin Busy
    BY <1>4, <1>t, JobsAssumption DEF Spawn, IInv, ClaimIsFree, Claiming, TypeOK, NoDue
  <2>2. Cardinality(log) \in Nat
    BY FS_CardinalityType DEF IInv
  <2>3. tasks' = tasks \cup {new} /\ log' = log \cup {entry} /\ ~Claiming' /\ Claiming
    BY <1>4 DEF Spawn, Claiming
  <2>4. TypeOK'
    <3>1. entry \in [id : Nat, job : Jobs, cron : Nat, due : Instants, at : Instants]
      BY <2>1, <2>2, <1>t DEF TypeOK, DueJobs, Instants
    <3>2. new \in [id : Nat, job : Jobs, stage : {"open", "loop", "over"}]
      BY <2>1, <2>2
    <3> HIDE DEF new, entry
    <3>3. QED
      BY <1>4, <1>t, <2>3, <3>1, <3>2 DEF Spawn, TypeOK
  <2>5. IsFiniteSet(log')
    BY <2>3, FS_AddElement DEF IInv
  <2>6. OneRunPerAgent'
    BY <2>1, <2>3 DEF IInv, OneRunPerAgent, Busy
  <2>7. RunningIsAccurate' /\ ClaimIsFree'
    <3>1. running' = running /\ running = Busy \cup {AgentOf[current.job]}
      BY <1>4, <2>3 DEF Spawn, IInv, RunningIsAccurate, Busy
    <3>2. new.job = current.job
      OBVIOUS
    <3> HIDE DEF new
    <3>3. QED
      BY <2>3, <3>1, <3>2 DEF RunningIsAccurate, ClaimIsFree, Busy
  <2>8. QED
    BY <1>n, <2>4, <2>5, <2>6, <2>7 DEF IInv
<1>5. QED
  BY <1>1, <1>2, <1>3, <1>4 DEF ScanStep

LEMMA TaskKeepsIInv == ASSUME IInv, NEW a \in Agents, TaskStep(a) PROVE IInv'
<1> USE DEF scanVars
<1>t. TypeOK
  BY DEF IInv
<1>1. PICK t \in tasks : AgentOf[t.job] = a /\ (TaskStarts(t) \/ TaskEnds(t) \/ Release(t))
  BY DEF TaskStep
<1>2. t \in [id : Nat, job : Jobs, stage : {"open", "loop", "over"}]
  BY <1>t DEF TypeOK
<1>3. ASSUME NEW s \in {"loop", "over"}, Advance(t, s),
             UNCHANGED <<clock, rows, running, scanVars, log, requests, faults, crashes>>
      PROVE  IInv'
  <2> DEFINE u == [t EXCEPT !.stage = s]
  <2>1. u \in [id : Nat, job : Jobs, stage : {"open", "loop", "over"}] /\ u.job = t.job
    BY <1>2
  <2>2. tasks' = (tasks \ {t}) \cup {u}
    BY <1>3 DEF Advance
  <2> HIDE DEF u
  <2>3. TypeOK'
    BY <1>3, <1>t, <2>1, <2>2 DEF TypeOK
  <2>4. OneRunPerAgent'
    BY <2>1, <2>2 DEF IInv, OneRunPerAgent
  <2>5. Busy' = Busy
    BY <2>1, <2>2 DEF Busy
  <2>6. QED
    BY <1>3, <2>3, <2>4, <2>5 DEF IInv, RunningIsAccurate, ClaimIsFree, Claiming, Busy, NamedJobs
<1>4. CASE TaskStarts(t)
  BY <1>3, <1>4 DEF TaskStarts
<1>5. CASE TaskEnds(t)
  BY <1>3, <1>5 DEF TaskEnds
<1>6. CASE Release(t)
  <2>1. TypeOK'
    BY <1>6, <1>t DEF Release, TypeOK
  <2>2. OneRunPerAgent'
    BY <1>6 DEF Release, IInv, OneRunPerAgent
  <2>3. Busy' = Busy \ {AgentOf[t.job]}
    BY <1>6 DEF Release, IInv, OneRunPerAgent, Busy
  <2>4. RunningIsAccurate'
    BY <1>6, <2>3 DEF Release, IInv, RunningIsAccurate, ClaimIsFree, Claiming, Busy
  <2>5. QED
    BY <1>6, <2>1, <2>2, <2>3, <2>4 DEF Release, IInv, ClaimIsFree, Claiming, NamedJobs
<1>7. QED
  BY <1>1, <1>4, <1>5, <1>6

LEMMA AdminNamesJobs == ASSUME IInv, AdminStep PROVE NamedJobs'
<1>1. NamedJobs /\ requests \in [Requests -> [pc : Labels, op : Operations \cup {"none"},
                                             job : Jobs \cup {NoJob}, cron : Nat, next : Instants]]
  BY DEF IInv, TypeOK
<1>2. ASSUME NEW r \in Requests, NEW j \in Jobs,
             Create(r, j) \/ Pause(r, j) \/ Delete(r, j) \/ Resume(r, j) \/ Update(r, j)
      PROVE  NamedJobs'
  <2>1. CASE Create(r, j) \/ Pause(r, j) \/ Delete(r, j)
    BY <1>1, <2>1 DEF NamedJobs, Create, Pause, Delete, EndRequest
  <2>2. CASE Resume(r, j)
    BY <1>1, <2>2 DEF NamedJobs, Resume
  <2>3. CASE Update(r, j)
    BY <1>1, <2>3 DEF NamedJobs, Update
  <2>4. QED
    BY <1>2, <2>1, <2>2, <2>3
<1>3. ASSUME NEW r \in Requests, Refresh(r) \/ WriteNext(r) \/ WriteFields(r) \/ HandlerFails(r)
      PROVE  NamedJobs'
  BY <1>1, <1>3 DEF NamedJobs, Refresh, WriteNext, WriteFields, HandlerFails
<1>4. QED
  BY <1>2, <1>3 DEF AdminStep

LEMMA AdminKeepsIInv == ASSUME IInv, AdminStep PROVE IInv'
<1> USE DEF scanVars
<1>t. TypeOK
  BY DEF IInv
<1> DEFINE Req == [pc : Labels, op : Operations \cup {"none"}, job : Jobs \cup {NoJob},
                   cron : Nat, next : Instants]
<1>r. requests \in [Requests -> Req] /\ rows \in [Jobs -> Rows]
  BY <1>t DEF TypeOK
<1>q. SUFFICES requests' \in [Requests -> Req] /\ rows' \in [Jobs -> Rows] /\ faults' \in Nat
  <2>1. UNCHANGED <<clock, running, scanVars, tasks, log, crashes>>
    BY DEF AdminStep, Create, Pause, Delete, Resume, Update, Refresh, WriteNext, WriteFields,
           HandlerFails
  <2>2. ASSUME requests' \in [Requests -> Req], rows' \in [Jobs -> Rows], faults' \in Nat
        PROVE  TypeOK'
    BY <1>t, <2>1, <2>2 DEF TypeOK
  <2>3. NamedJobs'
    BY AdminNamesJobs
  <2>4. QED
    BY <1>q, <2>1, <2>2, <2>3, QuietIInv
<1>e. ASSUME NEW r \in Requests, NEW op, NEW j \in Jobs, Begins(r, op, j), EndRequest(r, op, j)
      PROVE  requests' \in [Requests -> Req]
  BY <1>e, <1>r DEF Begins, EndRequest, Labels
<1>1. ASSUME NEW r \in Requests, NEW j \in Jobs, Create(r, j)
      PROVE  requests' \in [Requests -> Req] /\ rows' \in [Jobs -> Rows] /\ faults' \in Nat
  <2>1. ASSUME NEW p \in Periods PROVE NextFire(p, clock) \in Nat /\ p \in Nat
    BY NextFireType, PeriodsAssumption, <1>t DEF TypeOK
  <2>2. rows' \in [Jobs -> Rows]
    BY <1>1, <1>r, <2>1, TimeAssumption DEF Create, Rows, Instants, OneTime
  <2>3. QED
    BY <1>1, <1>e, <1>t, <2>2 DEF Create, TypeOK
<1>2. ASSUME NEW r \in Requests, NEW j \in Jobs, Pause(r, j) \/ Delete(r, j)
      PROVE  requests' \in [Requests -> Req] /\ rows' \in [Jobs -> Rows] /\ faults' \in Nat
  BY <1>2, <1>e, <1>r, <1>t, UpdateTypes DEF Pause, Delete, TypeOK
<1>3. ASSUME NEW r \in Requests, NEW j \in Jobs, Resume(r, j)
      PROVE  requests' \in [Requests -> Req] /\ rows' \in [Jobs -> Rows] /\ faults' \in Nat
  <2>1. rows' \in [Jobs -> Rows]
    BY <1>3, <1>r, UpdateTypes DEF Resume
  <2>2. requests' \in [Requests -> Req]
    BY <1>3, <1>r DEF Resume, Begins, Labels
  <2>3. QED
    BY <1>3, <1>t, <2>1, <2>2 DEF Resume, TypeOK
<1>4. ASSUME NEW r \in Requests, NEW j \in Jobs, Update(r, j)
      PROVE  requests' \in [Requests -> Req] /\ rows' \in [Jobs -> Rows] /\ faults' \in Nat
  <2>1. PICK cron \in Periods \cup {rows[j].cron} :
          requests' =
            [requests EXCEPT ![r] =
               [pc   |-> IF ~Exists(j) THEN "done"
                         ELSE IF cron = OneTime THEN "writeFields" ELSE "writeNext",
                op   |-> "update",
                job  |-> j,
                cron |-> cron,
                next |-> IF cron = OneTime THEN 0 ELSE NextFire(cron, clock)]]
    BY <1>4 DEF Update
  <2>2. cron \in Nat
    BY <1>r, PeriodsAssumption DEF Rows
  <2>3. (IF cron = OneTime THEN 0 ELSE NextFire(cron, clock)) \in Nat
    BY <2>2, <1>t, NextFireType DEF TypeOK, OneTime
  <2>4. "update" \in Operations
    BY <1>4 DEF Update, Begins
  <2>5. requests' \in [Requests -> Req]
    BY <1>r, <2>1, <2>2, <2>3, <2>4 DEF Labels, Instants
  <2>6. QED
    BY <1>4, <1>t, <2>5 DEF Update, TypeOK
<1>5. ASSUME NEW r \in Requests, Refresh(r)
      PROVE  requests' \in [Requests -> Req] /\ rows' \in [Jobs -> Rows] /\ faults' \in Nat
  <2> DEFINE j == requests[r].job
  <2>1. ASSUME Exists(j), rows[j].cron # OneTime, j \in Jobs
        PROVE  NextFire(rows[j].cron, clock) \in Nat
    BY <2>1, <1>r, <1>t, NextFireType DEF TypeOK, Rows, OneTime
  <2>2. j \in Jobs
    BY <1>5 DEF Refresh, IInv, NamedJobs
  <2>3. requests' \in [Requests -> Req]
    BY <1>5, <1>r, <2>1, <2>2 DEF Refresh, Labels, Instants
  <2>4. QED
    BY <1>5, <1>t, <2>3 DEF Refresh, TypeOK
<1>6. ASSUME NEW r \in Requests, WriteNext(r)
      PROVE  requests' \in [Requests -> Req] /\ rows' \in [Jobs -> Rows] /\ faults' \in Nat
  <2>1. requests[r].next \in Nat
    BY <1>r DEF Instants
  <2>2. rows' \in [Jobs -> Rows]
    BY <1>6, <1>r, <2>1, UpdateTypes DEF WriteNext
  <2>3. requests' \in [Requests -> Req]
    BY <1>6, <1>r DEF WriteNext, AfterNext, Labels
  <2>4. QED
    BY <1>6, <1>t, <2>2, <2>3 DEF WriteNext, TypeOK
<1>7. ASSUME NEW r \in Requests, WriteFields(r)
      PROVE  requests' \in [Requests -> Req] /\ rows' \in [Jobs -> Rows] /\ faults' \in Nat
  <2>1. rows' \in [Jobs -> Rows]
    BY <1>7, <1>r DEF WriteFields, Rows
  <2>2. requests' \in [Requests -> Req]
    BY <1>7, <1>r DEF WriteFields, Labels
  <2>3. QED
    BY <1>7, <1>t, <2>1, <2>2 DEF WriteFields, TypeOK
<1>8. ASSUME NEW r \in Requests, HandlerFails(r)
      PROVE  requests' \in [Requests -> Req] /\ rows' \in [Jobs -> Rows] /\ faults' \in Nat
  <2>1. requests' \in [Requests -> Req]
    BY <1>8, <1>r DEF HandlerFails, AfterNext, Labels
  <2>2. QED
    BY <1>8, <1>t, <2>1 DEF HandlerFails, TypeOK
<1>9. QED
  BY <1>1, <1>2, <1>3, <1>4, <1>5, <1>6, <1>7, <1>8 DEF AdminStep

LEMMA StepIInv == IInv /\ [Next]_vars => IInv'
<1> SUFFICES ASSUME IInv, [Next]_vars PROVE IInv'
  OBVIOUS
<1>t. TypeOK
  BY DEF IInv
<1>1. CASE ScanStep \/ ListFails
  BY <1>1, ScanKeepsIInv
<1>2. CASE \E a \in Agents : TaskStep(a)
  BY <1>2, TaskKeepsIInv
<1>3. CASE AdminStep
  BY <1>3, AdminKeepsIInv
<1>4. CASE Tick
  <2>1. TypeOK'
    BY <1>4, <1>t DEF Tick, TypeOK, scanVars
  <2>2. QED
    BY <1>4, <2>1, QuietIInv DEF Tick, scanVars, IInv, NamedJobs
<1>5. CASE Crash
  <2>1. requests' \in [Requests -> [pc : Labels, op : Operations \cup {"none"},
                                    job : Jobs \cup {NoJob}, cron : Nat, next : Instants]]
    BY <1>5, <1>t DEF Crash, TypeOK, Labels
  <2>2. TypeOK'
    BY <1>5, <1>t, <2>1 DEF Crash, TypeOK
  <2>3. NamedJobs'
    BY <1>5, <1>t DEF Crash, IInv, TypeOK, NamedJobs
  <2>4. QED
    BY <1>5, <2>2, <2>3 DEF Crash, IInv, OneRunPerAgent, RunningIsAccurate, ClaimIsFree, Claiming
<1>6. CASE UNCHANGED vars
  <2>1. TypeOK'
    BY <1>6, <1>t DEF vars, scanVars, TypeOK
  <2>2. QED
    BY <1>6, <2>1, QuietIInv DEF vars, scanVars, IInv, NamedJobs
<1>7. QED
  BY <1>1, <1>2, <1>3, <1>4, <1>5, <1>6 DEF Next

LEMMA Invariance == Spec => []IInv
BY InitIInv, StepIInv, PTL DEF Spec

(***************************************************************************)
(* The variables of the scheduler keep their types.                        *)
(***************************************************************************)
THEOREM SchedulerTypes == Spec => []TypeOK
<1>1. IInv => TypeOK
  BY DEF IInv
<1>2. QED
  BY <1>1, Invariance, PTL

(***************************************************************************)
(* T058 of scheduler.rs: whatever the admins do, whatever fails and        *)
(* however often the process restarts, an agent runs one scheduled job at  *)
(* a time.                                                                 *)
(***************************************************************************)
THEOREM AgentsRunAlone == Spec => []OneRunPerAgent
<1>1. IInv => OneRunPerAgent
  BY DEF IInv
<1>2. QED
  BY <1>1, Invariance, PTL

(***************************************************************************)
(* The running set of the scheduler never holds an agent without a task,   *)
(* nor misses one: no agent is locked out after its task has ended.        *)
(***************************************************************************)
THEOREM RunningSetIsAccurate == Spec => []RunningIsAccurate
<1>1. IInv => RunningIsAccurate
  BY DEF IInv
<1>2. QED
  BY <1>1, Invariance, PTL

(***************************************************************************)
(* How often a job fires.                                                  *)
(*                                                                         *)
(* Every firing of a one-time job has used up an activation of its row: by *)
(* create, of which there is one, or by a resume.  The activation is held  *)
(* by the row while it is active, by the scan from the time it has listed  *)
(* the row until it has disabled it, and by the task it is about to spawn. *)
(*                                                                         *)
(* Every firing of a cron job in one of its periods has used up a row      *)
(* whose next instant lies before the end of that period.  The scan, which *)
(* counts from the time it started at, moves the instant beyond that end   *)
(* when it fires, whatever was written meanwhile; only a resume or an      *)
(* update that has written an instant brings it back, each once.           *)
(***************************************************************************)
Shots(j) == {f \in log : f.job = j /\ f.cron = OneTime}
InHand(j, where) == phase = where /\ current.job = j
Listed(j) ==
  (\E d \in due : d.job = j /\ d.cron = OneTime) \/ (InHand(j, "reschedule") /\ current.cron = OneTime)
Armed(j) == rows[j].status = "active" \/ Listed(j)
Launching(j) == InHand(j, "spawn") /\ current.cron = OneTime
Num(b) == IF b THEN 1 ELSE 0
Activations(j) == IF rows[j].status = "unborn" THEN 0 ELSE 1 + Cardinality(Resumes(j))

WithinBudget ==
  \A j \in Jobs : Cardinality(Shots(j)) + Num(Launching(j)) + Num(Armed(j)) <= Activations(j)

\* What the scan has in hand: each job once, and nothing between two scans.
ScanHolds ==
  /\ phase \in {"sleep", "list"} => due = {}
  /\ \A d, e \in due : d.job = e.job => d = e
  /\ Claiming => \A d \in due : d.job # current.job
  /\ Claiming => current \in DueJobs
  /\ \A d \in due : rows[d.job].status # "unborn"
  /\ Claiming => rows[current.job].status # "unborn"
  /\ \A f \in log : rows[f.job].status # "unborn"

\* Requests that have not come have touched nothing; finitely many have come.
Begun == {r \in Requests : requests[r].pc # "new"}
RequestsCome ==
  /\ IsFiniteSet(Begun)
  /\ \A r \in Requests : requests[r].pc = "new" => requests[r] = NewReq
  /\ \A r \in Requests : requests[r].pc \in {"refresh", "writeNext", "writeFields"} =>
       requests[r].op \in {"resume", "update"}

\* The cron job j may fire with period p in the k-th of those periods: its next
\* instant lies before the end of that, or the scan has listed it by then; it is
\* about to; it has.
Until(p, k, t) == t < (k + 1) * p
Pending(j) == (\E d \in due : d.job = j) \/ InHand(j, "reschedule")
Ready(j, p, k) == (Exists(j) /\ Until(p, k, rows[j].next)) \/ (Pending(j) /\ Until(p, k, now))
Launched(j, p, k) == InHand(j, "spawn") /\ current.cron = p /\ now \div p = k
Fired(j, p, k) == {f \in log : f.job = j /\ f.cron = p /\ f.at \div p = k}

\* Requests that have written their instant, or never will.
Wrote(j) == {r \in Reschedulings(j) : requests[r].pc \notin {"refresh", "writeNext"}}

PeriodsPass ==
  \A j \in Jobs, p \in Nat \ {0}, k \in Nat :
    Cardinality(Fired(j, p, k)) + Num(Launched(j, p, k)) + Num(Ready(j, p, k)) <= 1 + Cardinality(Wrote(j))

FInv == ScanHolds /\ RequestsCome /\ (faults = 0 => WithinBudget /\ PeriodsPass)

AdminOp(r, j) == Create(r, j) \/ Pause(r, j) \/ Delete(r, j) \/ Resume(r, j) \/ Update(r, j)
AdminGoesOn(r) == Refresh(r) \/ WriteNext(r) \/ WriteFields(r) \/ HandlerFails(r)

LEMMA InitFInv == Init => FInv
<1> SUFFICES ASSUME Init PROVE FInv
  OBVIOUS
<1>1. \A r \in Requests : requests[r] = NewReq /\ requests[r].pc = "new" /\ requests[r].op = "none"
  BY DEF Init, NewReq
<1>2. ScanHolds
  BY DEF Init, ScanHolds, Claiming
<1>3. RequestsCome
  <2>1. Begun = {}
    BY <1>1 DEF Begun
  <2>2. QED
    BY <1>1, <2>1, FS_EmptySet DEF RequestsCome
<1>4. WithinBudget
  <2> SUFFICES ASSUME NEW j \in Jobs
               PROVE  Cardinality(Shots(j)) + Num(Launching(j)) + Num(Armed(j)) <= Activations(j)
    BY DEF WithinBudget
  <2>1. Shots(j) = {} /\ Cardinality(Shots(j)) = 0
    BY FS_EmptySet DEF Init, Shots
  <2>2. ~Launching(j) /\ ~Armed(j) /\ rows[j].status = "unborn"
    BY DEF Init, Launching, Armed, Listed, InHand, Unborn
  <2>3. QED
    BY <2>1, <2>2 DEF Num, Activations
<1>5. PeriodsPass
  <2> SUFFICES ASSUME NEW j \in Jobs, NEW p \in Nat \ {0}, NEW k \in Nat
               PROVE  Cardinality(Fired(j, p, k)) + Num(Launched(j, p, k)) + Num(Ready(j, p, k))
                        <= 1 + Cardinality(Wrote(j))
    BY DEF PeriodsPass
  <2>1. Fired(j, p, k) = {} /\ Wrote(j) = {}
    BY <1>1 DEF Init, Fired, Wrote, Reschedulings
  <2>2. Cardinality(Fired(j, p, k)) = 0 /\ Cardinality(Wrote(j)) = 0
    BY <2>1, FS_EmptySet
  <2>3. ~Launched(j, p, k) /\ ~Ready(j, p, k)
    BY DEF Init, Launched, Ready, Pending, InHand, Exists, Unborn
  <2>4. QED
    BY <2>2, <2>3 DEF Num
<1>6. QED
  BY <1>2, <1>3, <1>4, <1>5 DEF FInv

\* A request that has come keeps its kind and its job, and one that comes now
\* is counted from now on; what has written its instant does not do so again.
PastInstant(x) == x.pc \notin {"refresh", "writeNext"}
RequestsGo ==
  /\ \A r \in Requests : requests[r].pc # "new" =>
       /\ requests'[r].op = requests[r].op /\ requests'[r].job = requests[r].job
       /\ PastInstant(requests[r]) => PastInstant(requests'[r])
  /\ \A r \in Requests : requests[r].pc = "new" => requests[r].op = "none"
  /\ RequestsCome'

LEMMA RequestsStep == ASSUME IInv, FInv, [Next]_vars PROVE RequestsGo
<1> DEFINE Req == [pc : Labels, op : Operations \cup {"none"}, job : Jobs \cup {NoJob},
                   cron : Nat, next : Instants]
<1>1. requests \in [Requests -> Req] /\ RequestsCome
  BY DEF IInv, TypeOK, FInv
<1>2. \A r \in Requests : requests[r].pc = "new" => requests[r].op = "none"
  BY <1>1 DEF RequestsCome, NewReq
<1>3. CASE UNCHANGED requests
  BY <1>1, <1>2, <1>3 DEF RequestsGo, RequestsCome, Begun
<1>4. ASSUME NEW r \in Requests, NEW x, requests' = [requests EXCEPT ![r] = x],
             x.pc # "new",
             x.pc \in {"refresh", "writeNext", "writeFields"} => x.op \in {"resume", "update"},
             requests[r].pc # "new" =>
               /\ x.op = requests[r].op /\ x.job = requests[r].job
               /\ PastInstant(requests[r]) => PastInstant(x)
      PROVE  RequestsGo
  <2>1. requests'[r] = x /\ \A q \in Requests \ {r} : requests'[q] = requests[q]
    BY <1>1, <1>4
  <2>2. Begun' = Begun \cup {r}
    BY <1>4, <2>1 DEF Begun
  <2>3. IsFiniteSet(Begun')
    BY <1>1, <2>2, FS_AddElement DEF RequestsCome
  <2>4. RequestsCome'
    BY <1>1, <1>4, <2>1, <2>3 DEF RequestsCome
  <2>5. QED
    BY <1>2, <1>4, <2>1, <2>4 DEF RequestsGo
<1>5. ASSUME NEW r \in Requests, NEW j \in Jobs, AdminOp(r, j) PROVE RequestsGo
  <2>1. \E x : /\ requests' = [requests EXCEPT ![r] = x] /\ x.pc # "new"
               /\ x.pc \in {"refresh", "writeNext", "writeFields"} => x.op \in {"resume", "update"}
    <3>1. CASE Create(r, j) \/ Pause(r, j) \/ Delete(r, j)
      <4>1. PICK op : EndRequest(r, op, j)
        BY <3>1 DEF Create, Pause, Delete
      <4> DEFINE x == [requests[r] EXCEPT !.pc = "done", !.op = op, !.job = j]
      <4>2. requests' = [requests EXCEPT ![r] = x]
        BY <4>1 DEF EndRequest
      <4>3. x.pc = "done"
        BY <1>1
      <4> HIDE DEF x
      <4>4. QED
        BY <4>2, <4>3
    <3>2. CASE Resume(r, j)
      <4> DEFINE x == [requests[r] EXCEPT !.pc = "refresh", !.op = "resume", !.job = j]
      <4>1. requests' = [requests EXCEPT ![r] = x]
        BY <3>2 DEF Resume
      <4>2. x.pc = "refresh" /\ x.op = "resume"
        BY <1>1
      <4> HIDE DEF x
      <4>3. QED
        BY <4>1, <4>2
    <3>3. CASE Update(r, j)
      <4>1. PICK cron \in Periods \cup {rows[j].cron} :
              requests' =
                [requests EXCEPT ![r] =
                   [pc   |-> IF ~Exists(j) THEN "done"
                             ELSE IF cron = OneTime THEN "writeFields" ELSE "writeNext",
                    op   |-> "update",
                    job  |-> j,
                    cron |-> cron,
                    next |-> IF cron = OneTime THEN 0 ELSE NextFire(cron, clock)]]
        BY <3>3 DEF Update
      <4> DEFINE pc == IF ~Exists(j) THEN "done" ELSE IF cron = OneTime THEN "writeFields" ELSE "writeNext"
                 next == IF cron = OneTime THEN 0 ELSE NextFire(cron, clock)
                 x == [pc |-> pc, op |-> "update", job |-> j, cron |-> cron, next |-> next]
      <4>2. pc # "new"
        OBVIOUS
      <4>3. requests' = [requests EXCEPT ![r] = x]
        BY <4>1
      <4> HIDE DEF pc, next
      <4>4. x.pc # "new" /\ x.op = "update"
        BY <4>2
      <4> HIDE DEF x
      <4>5. QED
        BY <4>3, <4>4
    <3>4. QED
      BY <1>5, <3>1, <3>2, <3>3 DEF AdminOp
  <2>2. requests[r].pc = "new"
    BY <1>5 DEF AdminOp, Create, Pause, Delete, Resume, Update, Begins
  <2>3. QED
    BY <1>4, <2>1, <2>2
<1>6. ASSUME NEW r \in Requests, AdminGoesOn(r) PROVE RequestsGo
  <2>1. requests[r].pc \in {"refresh", "writeNext", "writeFields"} /\ requests[r].op \in {"resume", "update"}
    BY <1>1, <1>6 DEF AdminGoesOn, Refresh, WriteNext, WriteFields, HandlerFails, RequestsCome
  <2>2. \E x : /\ requests' = [requests EXCEPT ![r] = x] /\ x.pc # "new"
               /\ x.op = requests[r].op /\ x.job = requests[r].job
               /\ PastInstant(requests[r]) => PastInstant(x)
    <3>1. AfterNext(r) \in {"writeFields", "done"}
      BY DEF AfterNext
    <3>2. CASE \E l \in {"writeFields", "done"} : requests' = [requests EXCEPT ![r].pc = l]
      <4>1. PICK l \in {"writeFields", "done"} : requests' = [requests EXCEPT ![r].pc = l]
        BY <3>2
      <4> DEFINE x == [requests[r] EXCEPT !.pc = l]
      <4>2. x.pc = l /\ x.op = requests[r].op /\ x.job = requests[r].job /\ PastInstant(x) /\ x.pc # "new"
        BY <1>1 DEF PastInstant
      <4>3. requests' = [requests EXCEPT ![r] = x]
        BY <4>1
      <4> HIDE DEF x
      <4>4. QED
        BY <4>2, <4>3
    <3>3. CASE Refresh(r)
      <4> DEFINE x == [requests[r] EXCEPT !.pc = "writeNext",
                                          !.next = NextFire(rows[requests[r].job].cron, clock)]
      <4>1. requests' = [requests EXCEPT ![r] = x] \/ requests' = [requests EXCEPT ![r].pc = "done"]
        BY <3>3 DEF Refresh
      <4>2. /\ x.pc = "writeNext" /\ x.op = requests[r].op /\ x.job = requests[r].job
            /\ ~PastInstant(requests[r])
        BY <1>1, <3>3 DEF Refresh, PastInstant
      <4> HIDE DEF x
      <4>3. QED
        BY <3>1, <3>2, <4>1, <4>2
    <3>4. CASE WriteNext(r) \/ WriteFields(r)
      BY <3>1, <3>2, <3>4 DEF WriteNext, WriteFields
    <3>5. CASE HandlerFails(r)
      BY <3>1, <3>2, <3>5 DEF HandlerFails
    <3>6. QED
      BY <1>6, <3>3, <3>4, <3>5 DEF AdminGoesOn
  <2>3. QED
    BY <1>4, <2>1, <2>2
<1>7. CASE Crash
  <2> DEFINE over(r) == [requests[r] EXCEPT !.pc = "done"]
  <2>1. \A r \in Requests : /\ over(r).pc = "done" /\ PastInstant(over(r))
                            /\ over(r).op = requests[r].op /\ over(r).job = requests[r].job
    BY <1>1 DEF PastInstant
  <2>2. \A r \in Requests : requests'[r] = IF requests[r].pc = "new" THEN requests[r] ELSE over(r)
    BY <1>7 DEF Crash
  <2> HIDE DEF over
  <2>3. Begun' = Begun
    BY <2>1, <2>2 DEF Begun
  <2>4. RequestsCome'
    BY <1>1, <2>1, <2>2, <2>3 DEF RequestsCome
  <2>5. QED
    BY <1>2, <2>1, <2>2, <2>4 DEF RequestsGo
<1>8. UNCHANGED requests \/ AdminStep \/ Crash
  BY DEF Next, vars, ScanStep, WakeUp, ListDue, ListFails, Skip, Claim, Reschedule, Spawn, EndScan,
     TaskStep, TaskStarts, TaskEnds, Release, Tick
<1>9. QED
  BY <1>3, <1>5, <1>6, <1>7, <1>8 DEF AdminStep, AdminOp, AdminGoesOn

LEMMA ResumesStay ==
  ASSUME FInv, RequestsGo, NEW j
  PROVE  /\ IsFiniteSet(Resumes(j)) /\ IsFiniteSet(Resumes(j)') /\ Resumes(j) \subseteq Resumes(j)'
         /\ Cardinality(Resumes(j)) \in Nat /\ Cardinality(Resumes(j)') \in Nat
         /\ Cardinality(Resumes(j)) <= Cardinality(Resumes(j)')
<1>1. \A r \in Requests : requests[r].op # "none" => requests[r].pc # "new"
  BY DEF RequestsGo
<1>2. Resumes(j) \subseteq Resumes(j)'
  BY <1>1 DEF RequestsGo, Resumes
<1>3. Resumes(j) \subseteq Begun
  BY <1>1 DEF Resumes, Begun
<1>4. \A r \in Requests : requests'[r].pc = "new" => requests'[r].op = "none"
  BY DEF RequestsGo, RequestsCome, NewReq
<1>5. Resumes(j)' \subseteq Begun'
  BY <1>4 DEF Resumes, Begun
<1>6. IsFiniteSet(Resumes(j)) /\ IsFiniteSet(Resumes(j)')
  BY <1>3, <1>5, FS_Subset DEF FInv, RequestsGo, RequestsCome
<1>7. QED
  BY <1>2, <1>6, FS_CardinalityType, FS_Subset

LEMMA WroteStay ==
  ASSUME FInv, RequestsGo, NEW j
  PROVE  /\ IsFiniteSet(Wrote(j)) /\ IsFiniteSet(Wrote(j)') /\ Wrote(j) \subseteq Wrote(j)'
         /\ Cardinality(Wrote(j)) \in Nat /\ Cardinality(Wrote(j)') \in Nat
         /\ Cardinality(Wrote(j)) <= Cardinality(Wrote(j)')
<1>1. \A r \in Requests : requests[r].op # "none" => requests[r].pc # "new"
  BY DEF RequestsGo
<1>2. Wrote(j) \subseteq Wrote(j)'
  BY <1>1 DEF RequestsGo, Wrote, Reschedulings, PastInstant
<1>3. Wrote(j) \subseteq Begun
  BY <1>1 DEF Wrote, Reschedulings, Begun
<1>4. \A r \in Requests : requests'[r].pc = "new" => requests'[r].op = "none"
  BY DEF RequestsGo, RequestsCome, NewReq
<1>5. Wrote(j)' \subseteq Begun'
  BY <1>4 DEF Wrote, Reschedulings, Begun
<1>6. IsFiniteSet(Wrote(j)) /\ IsFiniteSet(Wrote(j)')
  BY <1>3, <1>5, FS_Subset DEF FInv, RequestsGo, RequestsCome
<1>7. QED
  BY <1>2, <1>6, FS_CardinalityType, FS_Subset

\* What becomes of a row while the scan is not writing: nothing, or it is
\* created, or it keeps the instant it has unless a request writes one; and it
\* is active when it was or when a resume has come.
Written(k) ==
  \/ rows'[k] = rows[k]
  \/ rows[k].status = "unborn" /\ rows'[k].status = "active"
  \/ /\ rows[k].status # "unborn" /\ rows'[k].status # "unborn"
     /\ rows'[k].status = "active" =>
          rows[k].status = "active" \/ \E r \in Resumes(k)' : r \notin Resumes(k)
     /\ Exists(k)' => Exists(k)
     /\ rows'[k].next = rows[k].next \/ \E r \in Wrote(k)' : r \notin Wrote(k)

LEMMA AdminWrites ==
  ASSUME IInv, FInv, RequestsGo, AdminStep, NEW k \in Jobs PROVE Written(k)
<1>1. rows \in [Jobs -> Rows]
      /\ requests \in [Requests -> [pc : Labels, op : Operations \cup {"none"},
                                    job : Jobs \cup {NoJob}, cron : Nat, next : Instants]]
  BY DEF IInv, TypeOK
<1>s. ASSUME NEW j \in Jobs, NEW s \in {"active", "paused", "deleted"}, SetStatus(j, s),
             k # j \/ s # "active" \/ \E r \in Resumes(k)' : r \notin Resumes(k)
      PROVE  Written(k)
  <2>1. CASE j = k /\ Exists(k)
    <3>1. rows'[k].status = s /\ rows'[k].next = rows[k].next
      BY <1>1, <1>s, <2>1 DEF SetStatus, Rows
    <3>2. rows[k].status # "unborn"
      BY <2>1 DEF Exists
    <3>3. QED
      BY <1>s, <2>1, <3>1, <3>2 DEF Written
  <2>2. CASE j # k \/ ~Exists(k)
    BY <1>1, <1>s, <2>2 DEF SetStatus, Written
  <2>3. QED
    BY <2>1, <2>2
<1>2. ASSUME NEW r \in Requests, NEW j \in Jobs, AdminOp(r, j) PROVE Written(k)
  <2>1. CASE Create(r, j)
    <3>1. k = j => rows[k].status = "unborn" /\ rows'[k].status = "active"
      BY <1>1, <2>1 DEF Create, Begins
    <3>2. k # j => rows'[k] = rows[k]
      BY <1>1, <2>1 DEF Create
    <3>3. QED
      BY <3>1, <3>2 DEF Written
  <2>2. CASE Pause(r, j)
    BY <1>s, <2>2 DEF Pause
  <2>3. CASE Delete(r, j)
    BY <1>s, <2>3 DEF Delete
  <2>4. CASE Resume(r, j)
    <3>1. r \notin Resumes(j)
      BY <2>4 DEF Resume, Begins, RequestsGo, Resumes
    <3>2. r \in Resumes(j)'
      BY <1>1, <2>4 DEF Resume, Resumes
    <3>3. SetStatus(j, "active")
      BY <2>4 DEF Resume
    <3>4. QED
      BY <1>s, <3>1, <3>2, <3>3
  <2>5. CASE Update(r, j)
    BY <2>5 DEF Update, Written
  <2>6. QED
    BY <1>2, <2>1, <2>2, <2>3, <2>4, <2>5 DEF AdminOp
<1>3. ASSUME NEW r \in Requests, AdminGoesOn(r) PROVE Written(k)
  <2>1. requests[r].op \in {"resume", "update"} /\ requests[r].pc # "new"
    BY <1>1, <1>3 DEF AdminGoesOn, Refresh, WriteNext, WriteFields, HandlerFails, FInv, RequestsCome
  <2>3. CASE WriteNext(r)
    <3>1. k # requests[r].job => rows'[k] = rows[k]
      BY <1>1, <2>3 DEF WriteNext, SetNext
    <3>2. rows'[k] = rows[k] \/ (Exists(k) /\ rows'[k].status = rows[k].status)
      BY <1>1, <2>3 DEF WriteNext, SetNext, Rows
    <3>3. requests'[r].pc \in {"writeFields", "done"}
      BY <1>1, <2>3 DEF WriteNext, AfterNext
    <3>4. k = requests[r].job => r \in Wrote(k)' /\ r \notin Wrote(k)
      BY <2>1, <2>3, <3>3 DEF WriteNext, RequestsGo, Wrote, Reschedulings
    <3>5. QED
      BY <3>1, <3>2, <3>4 DEF Written, Exists
  <2>4. CASE WriteFields(r)
    <3>1. k # requests[r].job => rows'[k] = rows[k]
      BY <1>1, <2>4 DEF WriteFields
    <3>2. \/ rows'[k] = rows[k]
          \/ Exists(k) /\ rows'[k].status = rows[k].status /\ rows'[k].next = rows[k].next
      BY <1>1, <2>4 DEF WriteFields, Rows
    <3>3. QED
      BY <3>1, <3>2 DEF Written, Exists
  <2>5. CASE Refresh(r) \/ HandlerFails(r)
    BY <2>5 DEF Refresh, HandlerFails, Written
  <2>6. QED
    BY <1>3, <2>3, <2>4, <2>5 DEF AdminGoesOn
<1>4. QED
  BY <1>2, <1>3 DEF AdminStep, AdminOp, AdminGoesOn

\* Steps of anybody but the scan.
LEMMA OutsideTheScan ==
  ASSUME IInv, FInv, RequestsGo, UNCHANGED <<log, now>>, \A k \in Jobs : Written(k),
         UNCHANGED <<phase, due, current>> \/ (phase' = "sleep" /\ due' = {}),
         faults' = 0 => faults = 0
  PROVE  FInv'
<1>1. /\ \A f \in log : f.job \in Jobs
      /\ \A d \in due : d.job \in Jobs
      /\ Claiming => current.job \in Jobs
      /\ \A k \in Jobs : rows[k].status # "unborn" => rows'[k].status # "unborn"
  BY DEF IInv, TypeOK, DueJobs, FInv, ScanHolds, Written
<1>2. /\ due' \subseteq due
      /\ Claiming' => Claiming /\ current' = current /\ phase' = phase /\ due' = due
  BY DEF Claiming
<1>3. ScanHolds'
  BY <1>1, <1>2 DEF FInv, ScanHolds
<1>5. ASSUME faults = 0 PROVE WithinBudget'
  <2> SUFFICES ASSUME NEW j \in Jobs
               PROVE  (Cardinality(Shots(j)) + Num(Launching(j)) + Num(Armed(j)) <= Activations(j))'
    BY DEF WithinBudget
  <2>1. Shots(j)' = Shots(j) /\ Cardinality(Shots(j)) \in Nat
    <3>1. Shots(j) \subseteq log /\ Shots(j)' = Shots(j)
      BY DEF Shots
    <3>2. QED
      BY <3>1, FS_Subset, FS_CardinalityType DEF IInv
  <2>2. /\ Launching(j)' => Launching(j) 
        /\ Listed(j)' => Listed(j)
    BY <1>2 DEF Launching, Listed, InHand, Claiming
  <2>3. /\ Launching(j) \in BOOLEAN /\ Launching(j)' \in BOOLEAN
        /\ Armed(j) \in BOOLEAN /\ Armed(j)' \in BOOLEAN
    BY DEF Launching, Armed, Listed, InHand
  <2> DEFINE L == Num(Launching(j))
             M == Num(Launching(j))'
             A == Num(Armed(j))
             B == Num(Armed(j))'
             m == Cardinality(Resumes(j))
             n == Cardinality(Resumes(j)')
             s == Cardinality(Shots(j))
  <2>4. /\ L \in {0, 1} /\ M \in {0, 1} /\ A \in {0, 1} /\ B \in {0, 1} /\ M <= L
        /\ (A = 1 <=> Armed(j)) /\ (B = 1 <=> Armed(j)') /\ (L = 1 <=> Launching(j))
    BY <2>2, <2>3 DEF Num
  <2>5. m \in Nat /\ n \in Nat /\ m <= n
    BY ResumesStay
  <2>6. s + L + A <= Activations(j)
    BY <1>5 DEF FInv, WithinBudget
  <2>7. Activations(j) = IF rows[j].status = "unborn" THEN 0 ELSE 1 + m
    BY DEF Activations
  <2>8. Activations(j)' = IF rows'[j].status = "unborn" THEN 0 ELSE 1 + n
    BY DEF Activations
  <2>9. s + M + B <= Activations(j)'
    <3>1. CASE rows'[j] = rows[j]
      <4>1. Armed(j)' => Armed(j)
        BY <2>2, <3>1 DEF Armed
      <4>2. B <= A
        BY <2>4, <4>1
      <4> HIDE DEF L, M, A, B, m, n, s
      <4>3. QED
        BY <2>1, <2>4, <2>5, <2>6, <2>7, <2>8, <3>1, <4>2 DEF s
    <3>2. CASE rows[j].status = "unborn" /\ rows'[j].status = "active"
      <4> HIDE DEF L, M, A, B, m, n
      <4>1. s \in Nat
        BY <2>1
      <4> HIDE DEF s
      <4>2. QED
        BY <2>4, <2>5, <2>6, <2>7, <2>8, <3>2, <4>1
    <3>3. CASE /\ rows[j].status # "unborn" /\ rows'[j].status # "unborn"
               /\ rows'[j].status = "active" =>
                    rows[j].status = "active" \/ \E r \in Resumes(j)' : r \notin Resumes(j)
      <4>1. CASE \E r \in Resumes(j)' : r \notin Resumes(j)
        <5>1. m < n
          <6>1. Resumes(j) \subseteq Resumes(j)' /\ IsFiniteSet(Resumes(j)') /\ Resumes(j) # Resumes(j)'
            BY <4>1, ResumesStay
          <6>2. m # n
            BY <6>1, FS_Subset
          <6>3. QED
            BY <2>5, <6>2
        <5>2. s \in Nat
          BY <2>1
        <5> HIDE DEF L, M, A, B, m, n, s
        <5>3. QED
          BY <2>4, <2>5, <2>6, <2>7, <2>8, <3>3, <5>1, <5>2
      <4>2. CASE rows'[j].status = "active" => rows[j].status = "active"
        <5>1. Armed(j)' => Armed(j)
          BY <2>2, <4>2 DEF Armed
        <5>2. B <= A /\ s \in Nat
          BY <2>1, <2>4, <5>1
        <5> HIDE DEF L, M, A, B, m, n, s
        <5>3. QED
          BY <2>4, <2>5, <2>6, <2>7, <2>8, <3>3, <5>2
      <4>3. QED
        BY <3>3, <4>1, <4>2
    <3>4. QED
      BY <3>1, <3>2, <3>3 DEF Written
  <2>10. QED
    BY <2>1, <2>9
<1>6. ASSUME faults = 0 PROVE PeriodsPass'
  <2> SUFFICES ASSUME NEW j \in Jobs, NEW p \in Nat \ {0}, NEW k \in Nat
               PROVE  (Cardinality(Fired(j, p, k)) + Num(Launched(j, p, k)) + Num(Ready(j, p, k))
                         <= 1 + Cardinality(Wrote(j)))'
    BY DEF PeriodsPass
  <2> DEFINE L == Num(Launched(j, p, k))
             M == Num(Launched(j, p, k))'
             A == Num(Ready(j, p, k))
             B == Num(Ready(j, p, k))'
             m == Cardinality(Wrote(j))
             n == Cardinality(Wrote(j)')
             s == Cardinality(Fired(j, p, k))
  <2>1. Fired(j, p, k)' = Fired(j, p, k) /\ s \in Nat
    <3>1. Fired(j, p, k) \subseteq log /\ Fired(j, p, k)' = Fired(j, p, k)
      BY DEF Fired
    <3>2. QED
      BY <3>1, FS_Subset, FS_CardinalityType DEF IInv
  <2>2. /\ Launched(j, p, k)' => Launched(j, p, k)
        /\ Pending(j)' => Pending(j)
    BY <1>2 DEF Launched, Pending, InHand, Claiming
  <2>3. /\ L \in {0, 1} /\ M \in {0, 1} /\ A \in {0, 1} /\ B \in {0, 1} /\ M <= L
        /\ (Ready(j, p, k)' => Ready(j, p, k)) => B <= A
    BY <2>2 DEF Num
  <2>4. m \in Nat /\ n \in Nat /\ m <= n
    BY WroteStay
  <2>5. s + L + A <= 1 + m
    BY <1>6 DEF FInv, PeriodsPass
  <2>6. s + M + B <= 1 + n
    <3>1. CASE Ready(j, p, k)' => Ready(j, p, k)
      <4>1. B <= A
        BY <2>3, <3>1
      <4> HIDE DEF L, M, A, B, m, n, s
      <4>2. QED
        BY <2>1, <2>3, <2>4, <2>5, <4>1
    <3>2. CASE rows[j].status = "unborn"
      <4>1. Fired(j, p, k) = {}
        BY <1>6, <3>2 DEF FInv, ScanHolds, Fired
      <4>2. s = 0
        BY <4>1, FS_EmptySet
      <4>3. ~Launched(j, p, k)
        BY <3>2 DEF FInv, ScanHolds, Launched, InHand, Claiming
      <4>4. M = 0
        BY <2>2, <4>3 DEF Num
      <4> HIDE DEF L, M, A, B, m, n, s
      <4>5. QED
        BY <2>3, <2>4, <4>2, <4>4
    <3>3. CASE \E r \in Wrote(j)' : r \notin Wrote(j)
      <4>1. m < n
        <5>1. Wrote(j) \subseteq Wrote(j)' /\ IsFiniteSet(Wrote(j)') /\ Wrote(j) # Wrote(j)'
          BY <3>3, WroteStay
        <5>2. m # n
          BY <5>1, FS_Subset
        <5>3. QED
          BY <2>4, <5>2
      <4> HIDE DEF L, M, A, B, m, n, s
      <4>2. QED
        BY <2>1, <2>3, <2>4, <2>5, <4>1
    <3>4. CASE rows'[j].next = rows[j].next /\ (Exists(j)' => Exists(j))
      <4>1. Ready(j, p, k)' => Ready(j, p, k)
        BY <2>2, <3>4 DEF Ready, Until
      <4>2. QED
        BY <3>1, <4>1
    <3>5. rows'[j] = rows[j] => Exists(j)' = Exists(j)
      BY DEF Exists
    <3>6. QED
      BY <3>2, <3>3, <3>4, <3>5 DEF Written
  <2>7. QED
    BY <2>1, <2>6
<1>7. QED
  BY <1>3, <1>5, <1>6 DEF FInv, RequestsGo

(***************************************************************************)
(* Instants.                                                               *)
(***************************************************************************)
LEMMA NextFireIsLater ==
  ASSUME NEW cron \in Nat \ {0}, NEW t \in Nat
  PROVE  t < NextFire(cron, t) /\ NextFire(cron, t) \in Nat
<1>1. t = cron * (t \div cron) + (t % cron) /\ t % cron < cron /\ t % cron \in Nat /\ t \div cron \in Nat
  BY SMT
<1> DEFINE q == t \div cron
<1>2. (q + 1) * cron = cron * q + cron /\ cron * q \in Nat
  BY <1>1, SMT
<1>3. t < (q + 1) * cron
  BY <1>1, <1>2, SMT
<1>4. NextFire(cron, t) = (q + 1) * cron /\ (q + 1) * cron \in Nat
  BY <1>2 DEF NextFire
<1>5. QED
  BY <1>3, <1>4

(***************************************************************************)
(* The scan.                                                               *)
(***************************************************************************)
\* The step neither fires nor writes: what counts as an activation can only
\* become less.
LEMMA BudgetStays ==
  ASSUME IInv, FInv, RequestsGo, WithinBudget, UNCHANGED <<log, requests>>,
         \A j \in Jobs : rows[j].status = "unborn" <=> rows'[j].status = "unborn",
         \A j \in Jobs : Num(Launching(j))' + Num(Armed(j))' <= Num(Launching(j)) + Num(Armed(j))
  PROVE  WithinBudget'
<1> SUFFICES ASSUME NEW j \in Jobs
             PROVE  (Cardinality(Shots(j)) + Num(Launching(j)) + Num(Armed(j)) <= Activations(j))'
  BY DEF WithinBudget
<1>1. Shots(j)' = Shots(j) /\ Cardinality(Shots(j)) \in Nat
  <2>1. Shots(j)' = Shots(j) /\ Shots(j) \subseteq log
    BY DEF Shots
  <2>2. QED
    BY <2>1, FS_Subset, FS_CardinalityType DEF IInv
<1>2. Activations(j)' = Activations(j)
  BY DEF Activations, Resumes
<1> DEFINE L == Num(Launching(j))
           M == Num(Launching(j))'
           A == Num(Armed(j))
           B == Num(Armed(j))'
           s == Cardinality(Shots(j))
<1>3. s + L + A <= Activations(j) /\ M + B <= L + A
  BY DEF WithinBudget
<1>4. L \in {0, 1} /\ M \in {0, 1} /\ A \in {0, 1} /\ B \in {0, 1} /\ s \in Nat
  BY <1>1 DEF Num
<1>5. Activations(j) \in Nat
  BY ResumesStay DEF Activations
<1>6. s + M + B <= Activations(j)
  <2> HIDE DEF L, M, A, B, s
  <2>1. QED
    BY <1>3, <1>4, <1>5
<1>7. QED
  BY <1>1, <1>2, <1>6

\* Nor does it make a job readier in a period than it was.
LEMMA PeriodsStay ==
  ASSUME IInv, FInv, RequestsGo, PeriodsPass, UNCHANGED <<log, requests>>,
         \A j \in Jobs, p \in Nat \ {0}, k \in Nat :
           Num(Launched(j, p, k))' + Num(Ready(j, p, k))' <= Num(Launched(j, p, k)) + Num(Ready(j, p, k))
  PROVE  PeriodsPass'
<1> SUFFICES ASSUME NEW j \in Jobs, NEW p \in Nat \ {0}, NEW k \in Nat
             PROVE  (Cardinality(Fired(j, p, k)) + Num(Launched(j, p, k)) + Num(Ready(j, p, k))
                       <= 1 + Cardinality(Wrote(j)))'
  BY DEF PeriodsPass
<1> DEFINE L == Num(Launched(j, p, k))
           M == Num(Launched(j, p, k))'
           A == Num(Ready(j, p, k))
           B == Num(Ready(j, p, k))'
           m == Cardinality(Wrote(j))
           s == Cardinality(Fired(j, p, k))
<1>1. Fired(j, p, k)' = Fired(j, p, k) /\ s \in Nat
  <2>1. Fired(j, p, k)' = Fired(j, p, k) /\ Fired(j, p, k) \subseteq log
    BY DEF Fired
  <2>2. QED
    BY <2>1, FS_Subset, FS_CardinalityType DEF IInv
<1>2. Wrote(j)' = Wrote(j) /\ m \in Nat
  <2>1. Wrote(j)' = Wrote(j)
    BY DEF Wrote, Reschedulings
  <2>2. QED
    BY <2>1, WroteStay
<1>3. s + L + A <= 1 + m /\ M + B <= L + A
  BY DEF PeriodsPass
<1>4. L \in {0, 1} /\ M \in {0, 1} /\ A \in {0, 1} /\ B \in {0, 1}
  BY DEF Num
<1>5. s + M + B <= 1 + m
  <2>1. s \in Nat /\ m \in Nat
    BY <1>1, <1>2
  <2> HIDE DEF L, M, A, B, s, m
  <2>2. QED
    BY <1>3, <1>4, <2>1
<1>6. QED
  BY <1>1, <1>2, <1>5

\* Steps of the scan that leave the rows and the log alone.
LEMMA ScanReads ==
  ASSUME IInv, FInv, RequestsGo, WakeUp \/ ListDue \/ ListFails \/ EndScan \/ \E d \in due : Skip(d) \/ Claim(d)
  PROVE  FInv'
<1> USE DEF scanVars
<1>1. /\ UNCHANGED <<rows, log, requests>>
      /\ faults' = faults \/ faults' # 0
  BY DEF WakeUp, ListDue, ListFails, EndScan, Skip, Claim, IInv, TypeOK
<1>2. /\ rows \in [Jobs -> Rows]
      /\ \A f \in log : f.job \in Jobs /\ f.cron \in Nat /\ f.at \in Nat /\ f.due \in Nat
      /\ \A d \in due : d.job \in Jobs /\ d \in DueJobs
      /\ now \in Nat /\ clock \in Nat /\ faults \in Nat
  BY DEF IInv, TypeOK, DueJobs, Instants
<1>3. /\ ~Claiming /\ (phase' = "reschedule" \/ ~Claiming')
      /\ phase' # "spawn"
  BY DEF WakeUp, ListDue, ListFails, EndScan, Skip, Claim, Claiming
<1>4. ScanHolds'
  <2>1. CASE WakeUp \/ ListFails \/ EndScan
    BY <1>1, <1>3, <2>1 DEF WakeUp, ListFails, EndScan, FInv, ScanHolds, Claiming
  <2>2. CASE ListDue
    <3>1. \A d \in due' : \E k \in Jobs : d.job = k /\ d = [job |-> k, cron |-> rows[k].cron, next |-> rows[k].next]
                                          /\ rows[k].status = "active"
      BY <2>2 DEF ListDue
    <3>2. \A d, e \in due' : d.job = e.job => d = e
      BY <3>1
    <3>3. \A d \in due' : rows'[d.job].status # "unborn"
      BY <1>1, <3>1
    <3>4. phase' = "pick" /\ ~Claiming'
      BY <2>2 DEF ListDue, Claiming
    <3>5. QED
      BY <1>1, <3>2, <3>3, <3>4 DEF FInv, ScanHolds
  <2>3. ASSUME NEW d \in due, Skip(d) PROVE ScanHolds'
    BY <1>1, <1>3, <2>3 DEF Skip, FInv, ScanHolds, Claiming
  <2>4. ASSUME NEW d \in due, Claim(d) PROVE ScanHolds'
    BY <1>1, <1>2, <2>4 DEF Claim, FInv, ScanHolds, Claiming
  <2>5. QED
    BY <2>1, <2>2, <2>3, <2>4
<1>5. ASSUME faults = 0 PROVE WithinBudget'
  <2>1. ASSUME NEW j \in Jobs PROVE ~Launching(j)' /\ (Listed(j)' => Armed(j))
    <3>1. ~Launching(j)'
      BY <1>3 DEF Launching, InHand
    <3>2. Listed(j)' => Armed(j)
      <4>1. CASE WakeUp \/ ListFails \/ EndScan
        BY <4>1, <1>3 DEF WakeUp, ListFails, EndScan, Armed, Listed, InHand, Claiming
      <4>2. CASE ListDue
        <5>1. \A d \in due' : \E k \in Jobs : d.job = k /\ rows[k].status = "active"
          BY <4>2 DEF ListDue
        <5>2. phase' = "pick"
          BY <4>2 DEF ListDue
        <5>3. QED
          BY <5>1, <5>2 DEF Armed, Listed, InHand
      <4>3. ASSUME NEW d \in due, Skip(d) PROVE Listed(j)' => Armed(j)
        BY <4>3 DEF Skip, Armed, Listed, InHand
      <4>4. ASSUME NEW d \in due, Claim(d) PROVE Listed(j)' => Armed(j)
        BY <4>4 DEF Claim, Armed, Listed, InHand
      <4>5. QED
        BY <4>1, <4>2, <4>3, <4>4
    <3>3. QED
      BY <3>1, <3>2
  <2>2. ASSUME NEW j \in Jobs
        PROVE  Num(Launching(j))' + Num(Armed(j))' <= Num(Launching(j)) + Num(Armed(j))
    <3>1. Armed(j)' => Armed(j)
      BY <1>1, <2>1 DEF Armed
    <3>2. QED
      BY <2>1, <3>1 DEF Num
  <2>3. QED
    BY <1>1, <1>5, <2>2, BudgetStays DEF FInv
<1>6. ASSUME faults = 0 PROVE PeriodsPass'
  <2>1. ASSUME NEW j \in Jobs, NEW p \in Nat \ {0}, NEW k \in Nat
        PROVE  Num(Launched(j, p, k))' + Num(Ready(j, p, k))' <= Num(Launched(j, p, k)) + Num(Ready(j, p, k))
    <3>1. ~Launched(j, p, k)'
      BY <1>3 DEF Launched, InHand
    <3>2. Pending(j)' /\ Until(p, k, now') => Ready(j, p, k)
      <4>1. CASE WakeUp \/ ListFails
        BY <4>1 DEF WakeUp, ListFails, Pending, InHand, FInv, ScanHolds
      <4>2. CASE EndScan
        BY <4>2 DEF EndScan, Pending, InHand
      <4>3. CASE ListDue
        <5>1. Pending(j)' => rows[j].status = "active" /\ rows[j].next <= now
          BY <4>3 DEF ListDue, Pending, InHand
        <5>2. now' = now /\ rows[j].next \in Nat
          BY <1>2, <4>3 DEF ListDue, Rows, Instants
        <5>3. (k + 1) * p \in Nat
          BY SMT
        <5>4. Until(p, k, now) /\ rows[j].next <= now => Until(p, k, rows[j].next)
          BY <1>2, <5>2, <5>3 DEF Until
        <5>5. QED
          BY <5>1, <5>2, <5>4 DEF Ready, Exists
      <4>4. ASSUME NEW d \in due, Skip(d) \/ Claim(d) PROVE Pending(j)' /\ Until(p, k, now') => Ready(j, p, k)
        BY <4>4 DEF Skip, Claim, Pending, InHand, Ready
      <4>5. QED
        BY <4>1, <4>2, <4>3, <4>4
    <3>3. Exists(j)' = Exists(j) /\ rows'[j] = rows[j]
      BY <1>1 DEF Exists
    <3>4. Ready(j, p, k)' => Ready(j, p, k)
      BY <3>2, <3>3 DEF Ready
    <3>5. QED
      BY <3>1, <3>4 DEF Num
  <2>2. QED
    BY <1>1, <1>6, <2>1, PeriodsStay DEF FInv
<1>7. QED
  BY <1>1, <1>2, <1>4, <1>5, <1>6 DEF FInv, RequestsGo

\* The next instant is stored, or the one-time job disabled.
LEMMA ScanWrites == ASSUME IInv, FInv, RequestsGo, Reschedule PROVE FInv'
<1>1. /\ phase = "reschedule" /\ phase' = "spawn" /\ Claiming /\ Claiming'
      /\ UNCHANGED <<log, requests, now, due, current>>
      /\ faults' = 0 => IF current.cron # OneTime THEN SetNext(current.job, NextFire(current.cron, now))
                        ELSE SetStatus(current.job, "disabled")
      /\ faults' = 0 => faults = 0
  BY DEF Reschedule, Claiming, IInv, TypeOK
<1>2. /\ rows \in [Jobs -> Rows] /\ current \in DueJobs /\ current.job \in Jobs /\ now \in Nat
      /\ current.cron \in Nat
      /\ \A f \in log : f.job \in Jobs /\ f.cron \in Nat /\ f.at \in Nat
      /\ \A d \in due : d.job \in Jobs
  BY <1>1 DEF IInv, TypeOK, DueJobs, FInv, ScanHolds, Instants
<1> DEFINE c == current.job
           p == current.cron
<1>3. \A j \in Jobs : j # c => rows'[j] = rows[j]
  BY <1>2 DEF Reschedule, SetNext, SetStatus
<1>4. rows[c].status # "unborn" /\ rows'[c].status # "unborn"
  BY <1>1, <1>2 DEF Reschedule, SetNext, SetStatus, FInv, ScanHolds, Rows
<1>5. ScanHolds'
  BY <1>1, <1>2, <1>3, <1>4 DEF FInv, ScanHolds
<1>6. ASSUME faults' = 0, p # OneTime
      PROVE  /\ rows'[c].status = rows[c].status /\ rows'[c].cron = rows[c].cron
             /\ Exists(c) => rows'[c].next = NextFire(p, now)
             /\ ~Exists(c) => rows'[c] = rows[c]
  BY <1>1, <1>2, <1>6 DEF SetNext, Rows
<1>7. ASSUME faults' = 0, p = OneTime
      PROVE  rows'[c].status # "active" /\ rows'[c].cron = rows[c].cron
  BY <1>1, <1>2, <1>7 DEF SetStatus, Rows, Exists
<1>8. ASSUME faults' = 0 PROVE WithinBudget'
  <2>1. WithinBudget
    BY <1>1, <1>8 DEF FInv
  <2>2. ASSUME NEW j \in Jobs
        PROVE  Num(Launching(j))' + Num(Armed(j))' <= Num(Launching(j)) + Num(Armed(j))
    <3>1. ~Launching(j)
      BY <1>1 DEF Launching, InHand
    <3>2. CASE j = c /\ p = OneTime
      <4>1. Armed(j)
        BY <1>1, <3>2 DEF Armed, Listed, InHand
      <4>2. ~Listed(j)'
        BY <1>1, <3>2 DEF Listed, InHand, FInv, ScanHolds
      <4>3. ~Armed(j)'
        BY <1>7, <1>8, <3>2, <4>2 DEF Armed
      <4>4. QED
        BY <3>1, <4>1, <4>3 DEF Num
    <3>3. CASE j # c \/ p # OneTime
      <4>1. ~Launching(j)'
        BY <1>1, <3>3 DEF Launching, InHand
      <4>2. rows'[j].status = rows[j].status
        BY <1>3, <1>6, <1>8, <3>3
      <4>3. Listed(j)' => Listed(j)
        BY <1>1 DEF Listed, InHand
      <4>4. Armed(j)' => Armed(j)
        BY <4>2, <4>3 DEF Armed
      <4>5. QED
        BY <3>1, <4>1, <4>4 DEF Num
    <3>4. QED
      BY <3>2, <3>3
  <2>3. \A j \in Jobs : rows[j].status = "unborn" <=> rows'[j].status = "unborn"
    BY <1>3, <1>4
  <2>4. QED
    BY <1>1, <2>1, <2>2, <2>3, BudgetStays
<1>9. ASSUME faults' = 0 PROVE PeriodsPass'
  <2>1. PeriodsPass
    BY <1>1, <1>9 DEF FInv
  <2>2. ASSUME NEW j \in Jobs, NEW q \in Nat \ {0}, NEW k \in Nat
        PROVE  Num(Launched(j, q, k))' + Num(Ready(j, q, k))' <= Num(Launched(j, q, k)) + Num(Ready(j, q, k))
    <3>1. ~Launched(j, q, k) /\ (Pending(j)' => Pending(j))
      BY <1>1 DEF Launched, Pending, InHand
    <3>2. CASE j # c
      <4>1. ~Launched(j, q, k)' /\ rows'[j] = rows[j]
        BY <1>1, <1>3, <3>2 DEF Launched, InHand
      <4>2. Exists(j)' = Exists(j)
        BY <4>1 DEF Exists
      <4>3. Ready(j, q, k)' => Ready(j, q, k)
        BY <1>1, <3>1, <4>1, <4>2 DEF Ready
      <4>4. QED
        BY <4>1, <4>3 DEF Num
    <3>3. CASE j = c
      <4>1. Pending(j) /\ ~Pending(j)'
        BY <1>1, <3>3 DEF Pending, InHand, FInv, ScanHolds
      <4>2. CASE p = OneTime
        <5>1. ~Launched(j, q, k)'
          BY <1>1, <4>2 DEF Launched, OneTime
        <5>2. rows'[j].next = rows[j].next /\ (Exists(j)' => Exists(j))
          BY <1>1, <1>2, <1>9, <3>3, <4>2 DEF SetStatus, Rows, Exists
        <5>3. Ready(j, q, k)' => Ready(j, q, k)
          BY <4>1, <5>2 DEF Ready
        <5>4. QED
          BY <5>1, <5>3 DEF Num
      <4>3. CASE p # OneTime
        <5>1. PICK t : t = NextFire(p, now)
          OBVIOUS
        <5>2. now < t /\ t \in Nat /\ p \in Nat \ {0}
          BY <1>2, <4>3, <5>1, NextFireIsLater DEF OneTime
        <5>3. Exists(j)' => rows'[j].next = t
          <6>1. Exists(j)' => Exists(j)
            BY <1>6, <1>9, <3>3, <4>3 DEF Exists
          <6>2. QED
            BY <1>6, <1>9, <3>3, <4>3, <5>1, <6>1
        <5>4. (k + 1) * q \in Nat
          BY SMT
        <5>5. Ready(j, q, k)' => Until(q, k, t)
          BY <4>1, <5>3 DEF Ready
        <5>6. Until(q, k, t) => Until(q, k, now)
          BY <1>2, <5>2, <5>4 DEF Until
        <5>7. Ready(j, q, k)' => Ready(j, q, k)
          BY <4>1, <5>5, <5>6 DEF Ready
        <5>8. CASE ~Launched(j, q, k)'
          BY <5>7, <5>8 DEF Num
        <5>9. CASE Launched(j, q, k)'
          <6>1. q = p /\ k = now \div p
            BY <1>1, <5>9 DEF Launched
          <6>2. t = (k + 1) * q
            BY <5>1, <6>1 DEF NextFire
          <6>3. ~Until(q, k, t)
            BY <5>2, <6>2 DEF Until
          <6>4. Until(q, k, now)
            BY <5>2, <6>2 DEF Until
          <6>5. ~Ready(j, q, k)' /\ Ready(j, q, k)
            BY <4>1, <5>5, <6>3, <6>4 DEF Ready
          <6>6. QED
            BY <6>5 DEF Num
        <5>10. QED
          BY <5>8, <5>9
      <4>4. QED
        BY <4>2, <4>3
    <3>4. QED
      BY <3>2, <3>3
  <2>3. QED
    BY <1>1, <2>1, <2>2, PeriodsStay
<1>10. QED
  BY <1>5, <1>8, <1>9 DEF FInv, RequestsGo

LEMMA ScanFires == ASSUME IInv, FInv, RequestsGo, Spawn PROVE FInv'
<1> DEFINE c == current.job
           p == current.cron
           entry == [id |-> Cardinality(log), job |-> c, cron |-> p, due |-> current.next, at |-> now]
<1>1. /\ phase = "spawn" /\ phase' = "pick" /\ Claiming /\ ~Claiming'
      /\ UNCHANGED <<rows, requests, now, due, faults>>
      /\ log' = log \cup {entry}
  BY DEF Spawn, Claiming
<1>2. /\ current \in DueJobs /\ c \in Jobs /\ now \in Nat /\ p \in Nat
      /\ \A f \in log : f.job \in Jobs /\ f.cron \in Nat /\ f.at \in Nat
      /\ \A d \in due : d.job \in Jobs
  BY <1>1 DEF IInv, TypeOK, DueJobs, FInv, ScanHolds, Instants
<1>3. entry.job = c /\ entry.cron = p /\ entry.at = now
  OBVIOUS
<1> HIDE DEF entry
<1>4. ScanHolds'
  BY <1>1, <1>3 DEF FInv, ScanHolds
<1>5. ASSUME faults = 0 PROVE WithinBudget'
  <2> SUFFICES ASSUME NEW j \in Jobs
               PROVE  (Cardinality(Shots(j)) + Num(Launching(j)) + Num(Armed(j)) <= Activations(j))'
    BY DEF WithinBudget
  <2>1. Shots(j) \subseteq log /\ IsFiniteSet(Shots(j)) /\ Cardinality(Shots(j)) \in Nat
    <3>1. Shots(j) \subseteq log
      BY DEF Shots
    <3>2. QED
      BY <3>1, FS_Subset, FS_CardinalityType DEF IInv
  <2>2. Armed(j)' => Armed(j)
    BY <1>1 DEF Armed, Listed, InHand
  <2>3. ~Launching(j)'
    BY <1>1 DEF Launching, InHand
  <2>4. Activations(j)' = Activations(j) /\ Activations(j) \in Nat
    <3>1. Activations(j)' = Activations(j)
      BY <1>1 DEF Activations, Resumes
    <3>2. Cardinality(Resumes(j)) \in Nat
      BY ResumesStay
    <3>3. QED
      BY <3>1, <3>2 DEF Activations
  <2> DEFINE L == Num(Launching(j))
             M == Num(Launching(j))'
             A == Num(Armed(j))
             B == Num(Armed(j))'
             s == Cardinality(Shots(j))
             t == Cardinality(Shots(j)')
  <2>5. s + L + A <= Activations(j) /\ M = 0 /\ L \in {0, 1} /\ A \in {0, 1} /\ B \in {0, 1} /\ B <= A
    BY <1>5, <2>2, <2>3 DEF FInv, WithinBudget, Num
  <2>6. t \in Nat /\ t <= s + L
    <3>1. CASE c = j /\ p = OneTime
      <4>1. Shots(j)' = Shots(j) \cup {entry}
        BY <1>1, <1>3, <3>1 DEF Shots
      <4>2. t = s \/ t = s + 1
        BY <2>1, <4>1, FS_AddElement
      <4>3. L = 1
        BY <1>1, <3>1 DEF Launching, InHand, Num
      <4>4. QED
        BY <2>1, <4>2, <4>3
    <3>2. CASE c # j \/ p # OneTime
      <4>1. Shots(j)' = Shots(j)
        BY <1>1, <1>3, <3>2 DEF Shots
      <4>2. QED
        BY <2>1, <2>5, <4>1
    <3>3. QED
      BY <3>1, <3>2
  <2>7. t + M + B <= Activations(j)
    <3>1. s \in Nat
      BY <2>1
    <3> HIDE DEF L, M, A, B, s, t
    <3>2. QED
      BY <2>4, <2>5, <2>6, <3>1
  <2>8. QED
    BY <2>4, <2>7
<1>6. ASSUME faults = 0 PROVE PeriodsPass'
  <2> SUFFICES ASSUME NEW j \in Jobs, NEW q \in Nat \ {0}, NEW k \in Nat
               PROVE  (Cardinality(Fired(j, q, k)) + Num(Launched(j, q, k)) + Num(Ready(j, q, k))
                         <= 1 + Cardinality(Wrote(j)))'
    BY DEF PeriodsPass
  <2>1. Fired(j, q, k) \subseteq log /\ IsFiniteSet(Fired(j, q, k)) /\ Cardinality(Fired(j, q, k)) \in Nat
    <3>1. Fired(j, q, k) \subseteq log
      BY DEF Fired
    <3>2. QED
      BY <3>1, FS_Subset, FS_CardinalityType DEF IInv
  <2>2. Pending(j)' => Pending(j)
    BY <1>1 DEF Pending, InHand
  <2>3. Ready(j, q, k)' => Ready(j, q, k)
    <3>1. Exists(j)' = Exists(j) /\ rows'[j] = rows[j] /\ now' = now
      BY <1>1 DEF Exists
    <3>2. QED
      BY <2>2, <3>1 DEF Ready
  <2>4. ~Launched(j, q, k)'
    BY <1>1 DEF Launched, InHand
  <2>5. Wrote(j)' = Wrote(j)
    BY <1>1 DEF Wrote, Reschedulings
  <2> DEFINE L == Num(Launched(j, q, k))
             M == Num(Launched(j, q, k))'
             A == Num(Ready(j, q, k))
             B == Num(Ready(j, q, k))'
             m == Cardinality(Wrote(j))
             s == Cardinality(Fired(j, q, k))
             t == Cardinality(Fired(j, q, k)')
  <2>6. s + L + A <= 1 + m /\ M = 0 /\ L \in {0, 1} /\ A \in {0, 1} /\ B \in {0, 1} /\ B <= A
    BY <1>6, <2>3, <2>4 DEF FInv, PeriodsPass, Num
  <2>7. t \in Nat /\ t <= s + L
    <3>1. CASE c = j /\ p = q /\ now \div q = k
      <4>1. Fired(j, q, k)' = Fired(j, q, k) \cup {entry}
        BY <1>1, <1>3, <3>1 DEF Fired
      <4>2. t = s \/ t = s + 1
        BY <2>1, <4>1, FS_AddElement
      <4>3. L = 1
        BY <1>1, <3>1 DEF Launched, InHand, Num
      <4>4. QED
        BY <2>1, <4>2, <4>3
    <3>2. CASE ~(c = j /\ p = q /\ now \div q = k)
      <4>1. Fired(j, q, k)' = Fired(j, q, k)
        BY <1>1, <1>3, <3>2 DEF Fired
      <4>2. QED
        BY <2>1, <2>6, <4>1
    <3>3. QED
      BY <3>1, <3>2
  <2>8. t + M + B <= 1 + m
    <3>1. s \in Nat /\ m \in Nat
      BY <2>1, WroteStay
    <3> HIDE DEF L, M, A, B, s, t, m
    <3>2. QED
      BY <2>6, <2>7, <3>1
  <2>9. QED
    BY <2>5, <2>8
<1>7. QED
  BY <1>1, <1>4, <1>5, <1>6 DEF FInv, RequestsGo

LEMMA StepFInv == IInv /\ FInv /\ [Next]_vars => FInv'
<1> SUFFICES ASSUME IInv, FInv, [Next]_vars PROVE FInv'
  OBVIOUS
<1>1. RequestsGo
  BY RequestsStep
<1>2. CASE ScanStep \/ ListFails
  BY <1>1, <1>2, ScanReads, ScanWrites, ScanFires DEF ScanStep
<1>3. CASE AdminStep
  <2>1. UNCHANGED <<log, now, phase, due, current>>
    BY <1>3 DEF AdminStep, Create, Pause, Delete, Resume, Update, Refresh, WriteNext, WriteFields,
       HandlerFails, scanVars
  <2>2. faults' = 0 => faults = 0
    <3>1. faults \in Nat
      BY DEF IInv, TypeOK
    <3>2. faults' = faults \/ faults' = faults + 1
      BY <1>3 DEF AdminStep, Create, Pause, Delete, Resume, Update, Refresh, WriteNext, WriteFields,
         HandlerFails
    <3>3. QED
      BY <3>1, <3>2
  <2>3. QED
    BY <1>1, <1>3, <2>1, <2>2, AdminWrites, OutsideTheScan
<1>4. CASE (\E a \in Agents : TaskStep(a)) \/ Tick \/ Crash \/ UNCHANGED vars
  <2>1. /\ UNCHANGED <<rows, log, now, faults>>
        /\ UNCHANGED <<phase, due, current>> \/ (phase' = "sleep" /\ due' = {})
    BY <1>4 DEF TaskStep, TaskStarts, TaskEnds, Release, Tick, Crash, vars, scanVars
  <2>2. \A k \in Jobs : Written(k)
    BY <2>1 DEF Written
  <2>3. QED
    BY <1>1, <2>1, <2>2, OutsideTheScan
<1>5. QED
  BY <1>2, <1>3, <1>4 DEF Next

LEMMA Firings == Spec => []FInv
<1>1. IInv /\ FInv /\ [Next]_vars => FInv'
  BY StepFInv
<1>2. QED
  BY <1>1, InitFInv, Invariance, PTL DEF Spec

(***************************************************************************)
(* A one-time job fires once, and once more for each resume, though the    *)
(* scan works on rows that the handlers change under it and the process    *)
(* may end between the UPDATE that disables the job and its task.          *)
(***************************************************************************)
THEOREM OneTimeJobsFireOnce == Spec => []OneTimeFiresOnce
<1>1. IInv /\ FInv => OneTimeFiresOnce
  <2> SUFFICES ASSUME IInv, FInv, faults = 0, NEW j \in Jobs
               PROVE  Cardinality(Shots(j)) <= 1 + Cardinality(Resumes(j))
    BY DEF OneTimeFiresOnce, Shots
  <2>1. Cardinality(Shots(j)) \in Nat
    <3>1. Shots(j) \subseteq log
      BY DEF Shots
    <3>2. QED
      BY <3>1, FS_Subset, FS_CardinalityType DEF IInv
  <2>2. Cardinality(Resumes(j)) \in Nat
    <3>1. Resumes(j) \subseteq Begun
      BY DEF Resumes, Begun, FInv, RequestsCome, NewReq
    <3>2. QED
      BY <3>1, FS_Subset, FS_CardinalityType DEF FInv, RequestsCome
  <2>3. Cardinality(Shots(j)) + Num(Launching(j)) + Num(Armed(j)) <= Activations(j)
    BY DEF FInv, WithinBudget
  <2>4. Num(Launching(j)) \in {0, 1} /\ Num(Armed(j)) \in {0, 1}
    BY DEF Num
  <2>5. QED
    BY <2>1, <2>2, <2>3, <2>4 DEF Activations
<1>2. QED
  BY <1>1, Invariance, Firings, PTL

(***************************************************************************)
(* compute_next_fire counts from the start of the scan: instants of a cron *)
(* job that were missed are made up for by one firing, and no instant is   *)
(* fired twice, restarts and other jobs of the agent notwithstanding; a    *)
(* resume or an update, which may write an instant that has passed         *)
(* meanwhile, is good for one firing more.                                 *)
(***************************************************************************)
THEOREM CronJobsFireOncePerPeriod == Spec => []OncePerPeriod
<1>1. IInv /\ FInv => OncePerPeriod
  <2> SUFFICES ASSUME IInv, FInv, faults = 0, NEW f \in log, f.cron # OneTime
               PROVE  Cardinality(SamePeriod(f)) <= 1 + Cardinality(Reschedulings(f.job))
    BY DEF OncePerPeriod
  <2>1. PICK j \in Jobs, p \in Nat \ {0} : j = f.job /\ p = f.cron
    BY DEF IInv, TypeOK, OneTime
  <2>2. PICK k \in Nat : k = f.at \div p
    <3>1. f.at \in Nat
      BY DEF IInv, TypeOK, Instants
    <3>2. f.at \div p \in Nat
      BY <3>1, SMT
    <3>3. QED
      BY <3>2
  <2>3. SamePeriod(f) = Fired(j, p, k)
    BY <2>1, <2>2 DEF SamePeriod, Fired
  <2>4. Cardinality(Fired(j, p, k)) \in Nat
    <3>1. Fired(j, p, k) \subseteq log
      BY DEF Fired
    <3>2. QED
      BY <3>1, FS_Subset, FS_CardinalityType DEF IInv
  <2>5. /\ Cardinality(Wrote(j)) \in Nat /\ Cardinality(Reschedulings(j)) \in Nat
        /\ Cardinality(Wrote(j)) <= Cardinality(Reschedulings(j))
    <3>1. Reschedulings(j) \subseteq Begun /\ Wrote(j) \subseteq Reschedulings(j)
      BY DEF Reschedulings, Wrote, Begun, FInv, RequestsCome, NewReq
    <3>2. IsFiniteSet(Reschedulings(j))
      BY <3>1, FS_Subset DEF FInv, RequestsCome
    <3>3. QED
      BY <3>1, <3>2, FS_Subset, FS_CardinalityType
  <2>6. Cardinality(Fired(j, p, k)) + Num(Launched(j, p, k)) + Num(Ready(j, p, k)) <= 1 + Cardinality(Wrote(j))
    BY DEF FInv, PeriodsPass
  <2>7. Num(Launched(j, p, k)) \in {0, 1} /\ Num(Ready(j, p, k)) \in {0, 1}
    BY DEF Num
  <2>8. QED
    BY <2>1, <2>3, <2>4, <2>5, <2>6, <2>7
<1>2. QED
  BY <1>1, Invariance, Firings, PTL
=============================================================================
