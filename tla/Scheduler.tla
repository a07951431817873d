----------------------------- MODULE Scheduler -----------------------------
(***************************************************************************)
(* The scheduled jobs of a tenant: the scan loop of JobScheduler           *)
(* (engine/scheduler.rs), the tasks it spawns, and the admin API's         *)
(* handlers (server/admin_api/scheduled_jobs.rs).                          *)
(*                                                                         *)
(* The scan works on the rows list_due returned while the handlers, on     *)
(* connections of their own, change them; every SQL statement is a step.   *)
(* Time is a clock of abstract ticks; a cron expression is its period: it  *)
(* fires at the multiples of it.                                           *)
(*                                                                         *)
(* Not modelled: last_fired_at, which nothing reads; the computation of    *)
(* next_fire_at for active jobs that have none, as every handler stores    *)
(* one; several tenants, which the loop scans one after the other.         *)
(***************************************************************************)
EXTENDS Integers, FiniteSets

CONSTANTS
  Jobs,         \* scheduled job ids
  Agents,
  AgentOf,      \* the agent each job runs
  NoJob,
  Periods,      \* cron expressions
  Requests,     \* admin requests, numbered as they come in; each is made once
  Operations,   \* what the admins ask for
  MaxTime,      \* bound: the clock stops there
  MaxFaults,    \* bound: scanner statements that fail
  MaxCrashes    \* bound: restarts of the process

ASSUME JobsAssumption == NoJob \notin Jobs /\ AgentOf \in [Jobs -> Agents]
ASSUME PeriodsAssumption == Periods \subseteq Nat \ {0}
ASSUME RequestsAssumption ==
  /\ Requests \subseteq Nat
  /\ Operations \subseteq {"create", "update", "pause", "resume", "delete"}
ASSUME TimeAssumption == MaxTime \in Nat /\ MaxFaults \in Nat /\ MaxCrashes \in Nat

OneTime == 0   \* cron_expression IS NULL

VARIABLES
  clock,
  rows,           \* scheduled_jobs
  running,        \* running_agents: in memory, behind a mutex
  phase,          \* where the scan is
  now,            \* the time read at the start of the scan
  due,            \* what is left of list_due's result
  current,        \* the due job in hand
  tasks,          \* spawned tasks
  log,            \* history: every firing so far
  requests,       \* the admin requests and their locals
  faults, crashes

scanVars == <<phase, now, due, current>>
vars == <<clock, rows, running, scanVars, tasks, log, requests, faults, crashes>>

Unborn   == [status |-> "unborn", cron |-> OneTime, next |-> 0]
NoDue    == [job |-> NoJob, cron |-> OneTime, next |-> 0]
NewReq   == [pc |-> "new", op |-> "none", job |-> NoJob, cron |-> OneTime, next |-> 0]
Exists(j) == rows[j].status \in {"active", "paused", "disabled"}

\* An UPDATE of one column of a row that may be gone.
SetStatus(j, s) == rows' = IF Exists(j) THEN [rows EXCEPT ![j].status = s] ELSE rows
SetNext(j, t)   == rows' = IF Exists(j) THEN [rows EXCEPT ![j].next = t] ELSE rows

Init ==
  /\ clock = 0
  /\ rows = [j \in Jobs |-> Unborn]
  /\ running = {}
  /\ phase = "sleep" /\ now = 0 /\ due = {} /\ current = NoDue
  /\ tasks = {} /\ log = {}
  /\ requests = [r \in Requests |-> NewReq]
  /\ faults = 0 /\ crashes = 0

(***************************************************************************)
(* compute_next_fire: the first instant after t.                           *)
(***************************************************************************)
NextFire(cron, t) == (t \div cron + 1) * cron

(***************************************************************************)
(* The scan loop.                                                          *)
(***************************************************************************)
WakeUp ==
  /\ phase = "sleep"
  /\ now' = clock
  /\ phase' = "list"
  /\ UNCHANGED <<clock, rows, running, due, current, tasks, log,
                 requests, faults, crashes>>

ListDue ==
  /\ phase = "list"
  /\ due' = {[job |-> j, cron |-> rows[j].cron, next |-> rows[j].next] :
               j \in {k \in Jobs : rows[k].status = "active" /\ rows[k].next <= now}}
  /\ phase' = "pick"
  /\ UNCHANGED <<clock, rows, running, now, current, tasks, log,
                 requests, faults, crashes>>

\* `Err(_) => continue`: this tenant waits for the next scan.
ListFails ==
  /\ phase = "list" /\ faults < MaxFaults
  /\ faults' = faults + 1
  /\ phase' = "sleep"
  /\ UNCHANGED <<clock, rows, running, now, due, current, tasks, log,
                 requests, crashes>>

\* Mutant of Skip: the next instant is stored before the agent is looked at.
SkipAndReschedule(d) ==
  /\ phase = "pick" /\ d \in due
  /\ AgentOf[d.job] \in running
  /\ due' = due \ {d}
  /\ IF d.cron # OneTime THEN SetNext(d.job, NextFire(d.cron, now)) ELSE UNCHANGED rows
  /\ UNCHANGED <<clock, running, phase, now, current, tasks, log,
                 requests, faults, crashes>>

(***************************************************************************)
(* T058: under the mutex, a job whose agent runs is skipped and stays due; *)
(* any other takes its agent.                                              *)
(***************************************************************************)
Skip(d) ==
  /\ phase = "pick" /\ d \in due
  /\ AgentOf[d.job] \in running
  /\ due' = due \ {d}
  /\ UNCHANGED <<clock, rows, running, phase, now, current, tasks, log,
                 requests, faults, crashes>>

\* Mutant of Claim: without the check.
ClaimAnyway(d) ==
  /\ phase = "pick" /\ d \in due
  /\ running' = running \cup {AgentOf[d.job]}
  /\ due' = due \ {d}
  /\ current' = d
  /\ phase' = "reschedule"
  /\ UNCHANGED <<clock, rows, now, tasks, log, requests, faults, crashes>>

Claim(d) ==
  /\ phase = "pick" /\ d \in due
  /\ AgentOf[d.job] \notin running
  /\ running' = running \cup {AgentOf[d.job]}
  /\ due' = due \ {d}
  /\ current' = d
  /\ phase' = "reschedule"
  /\ UNCHANGED <<clock, rows, now, tasks, log, requests, faults, crashes>>

\* Mutants of Reschedule: the next instant is counted from the missed one; a
\* one-time job is not disabled.
RescheduleFromDue ==
  /\ phase = "reschedule"
  /\ phase' = "spawn"
  /\ IF current.cron # OneTime
     THEN SetNext(current.job, NextFire(current.cron, current.next))
     ELSE SetStatus(current.job, "disabled")
  /\ UNCHANGED <<clock, running, now, due, current, tasks, log,
                 requests, faults, crashes>>

RescheduleCronOnly ==
  /\ phase = "reschedule"
  /\ phase' = "spawn"
  /\ IF current.cron # OneTime
     THEN SetNext(current.job, NextFire(current.cron, now))
     ELSE UNCHANGED rows
  /\ UNCHANGED <<clock, running, now, due, current, tasks, log,
                 requests, faults, crashes>>

(***************************************************************************)
(* A cron job gets its next instant, counted from the start of the scan; a *)
(* one-time job is disabled.  An error of the statement is ignored.        *)
(***************************************************************************)
Reschedule ==
  /\ phase = "reschedule"
  /\ phase' = "spawn"
  /\ \/ /\ IF current.cron # OneTime
           THEN SetNext(current.job, NextFire(current.cron, now))
           ELSE SetStatus(current.job, "disabled")
        /\ UNCHANGED faults
     \/ /\ faults < MaxFaults
        /\ faults' = faults + 1
        /\ UNCHANGED rows
  /\ UNCHANGED <<clock, running, now, due, current, tasks, log, requests, crashes>>

Spawn ==
  LET firing == Cardinality(log)
  IN  /\ phase = "spawn"
      /\ tasks' = tasks \cup {[id |-> firing, job |-> current.job, stage |-> "open"]}
      /\ log' = log \cup {[id |-> firing, job |-> current.job, cron |-> current.cron,
                           due |-> current.next, at |-> now]}
      /\ current' = NoDue
      /\ phase' = "pick"
      /\ UNCHANGED <<clock, rows, running, now, due, requests, faults, crashes>>

EndScan ==
  /\ phase = "pick" /\ due = {}
  /\ phase' = "sleep"
  /\ UNCHANGED <<clock, rows, running, now, due, current, tasks, log,
                 requests, faults, crashes>>

(***************************************************************************)
(* fire_job, in a task of its own.  It ends early without an agent, with   *)
(* an agent that is not active, or when the store does not open; else it   *)
(* runs the agent loop on a conversation of its own, whose row nothing     *)
(* here reads, until the loop succeeds or fails.                           *)
(***************************************************************************)
Advance(t, stage) == tasks' = (tasks \ {t}) \cup {[t EXCEPT !.stage = stage]}

TaskStarts(t) ==
  /\ t.stage = "open"
  /\ Advance(t, "over") \/ Advance(t, "loop")
  /\ UNCHANGED <<clock, rows, running, scanVars, log, requests, faults, crashes>>

TaskEnds(t) ==
  /\ t.stage = "loop"
  /\ Advance(t, "over")
  /\ UNCHANGED <<clock, rows, running, scanVars, log, requests, faults, crashes>>

\* Mutant of Release: the agent stays in the running set.
TaskForgotten(t) ==
  /\ t.stage = "over"
  /\ tasks' = tasks \ {t}
  /\ UNCHANGED <<clock, rows, running, scanVars, log, requests, faults, crashes>>

Release(t) ==
  /\ t.stage = "over"
  /\ running' = running \ {AgentOf[t.job]}
  /\ tasks' = tasks \ {t}
  /\ UNCHANGED <<clock, rows, scanVars, log, requests, faults, crashes>>

TaskStep(a) ==
  \E t \in tasks : AgentOf[t.job] = a /\ (TaskStarts(t) \/ TaskEnds(t) \/ Release(t))

(***************************************************************************)
(* The admin handlers.  Every operation but create names a job that has    *)
(* been created, deleted perhaps since.                                    *)
(***************************************************************************)
Begins(r, op, j) ==
  /\ requests[r].pc = "new"
  /\ \A q \in Requests : requests[q].pc = "new" => r <= q
  /\ op \in Operations
  /\ (op = "create") <=> (rows[j].status = "unborn")

EndRequest(r, op, j) ==
  requests' = [requests EXCEPT ![r] = [@ EXCEPT !.pc = "done", !.op = op, !.job = j]]

\* A cron job starts at its next instant, a one-time job at any time, past or
\* to come.
Create(r, j) ==
  /\ Begins(r, "create", j)
  /\ \/ \E p \in Periods :
          rows' = [rows EXCEPT ![j] = [status |-> "active", cron |-> p, next |-> NextFire(p, clock)]]
     \/ \E t \in 0 .. MaxTime :
          rows' = [rows EXCEPT ![j] = [status |-> "active", cron |-> OneTime, next |-> t]]
  /\ EndRequest(r, "create", j)
  /\ UNCHANGED <<clock, running, scanVars, tasks, log, faults, crashes>>

\* Neither asks for the status the job has.
Pause(r, j) ==
  /\ Begins(r, "pause", j)
  /\ SetStatus(j, "paused")
  /\ EndRequest(r, "pause", j)
  /\ UNCHANGED <<clock, running, scanVars, tasks, log, faults, crashes>>

Delete(r, j) ==
  /\ Begins(r, "delete", j)
  /\ SetStatus(j, "deleted")
  /\ EndRequest(r, "delete", j)
  /\ UNCHANGED <<clock, running, scanVars, tasks, log, faults, crashes>>

Resume(r, j) ==
  /\ Begins(r, "resume", j)
  /\ SetStatus(j, "active")
  /\ requests' = [requests EXCEPT ![r] = [@ EXCEPT !.pc = "refresh", !.op = "resume", !.job = j]]
  /\ UNCHANGED <<clock, running, scanVars, tasks, log, faults, crashes>>

\* Resume reads the job again and, if it is a cron job, computes its next
\* instant; a one-time job keeps the one it had.
Refresh(r) ==
  LET j == requests[r].job
  IN  /\ requests[r].pc = "refresh"
      /\ requests' =
           IF Exists(j) /\ rows[j].cron # OneTime
           THEN [requests EXCEPT ![r] = [@ EXCEPT !.pc = "writeNext",
                                                  !.next = NextFire(rows[j].cron, clock)]]
           ELSE [requests EXCEPT ![r].pc = "done"]
      /\ UNCHANGED <<clock, rows, running, scanVars, tasks, log, faults, crashes>>

\* Update reads the job and decides what to write.  A body without a cron
\* expression keeps the one read here.
Update(r, j) ==
  /\ Begins(r, "update", j)
  /\ \E cron \in Periods \cup {rows[j].cron} :
       requests' =
         [requests EXCEPT ![r] =
            [pc   |-> IF ~Exists(j) THEN "done"
                      ELSE IF cron = OneTime THEN "writeFields" ELSE "writeNext",
             op   |-> "update",
             job  |-> j,
             cron |-> cron,
             next |-> IF cron = OneTime THEN 0 ELSE NextFire(cron, clock)]]
  /\ UNCHANGED <<clock, rows, running, scanVars, tasks, log, faults, crashes>>

AfterNext(r) == IF requests[r].op = "update" THEN "writeFields" ELSE "done"

WriteNext(r) ==
  /\ requests[r].pc = "writeNext"
  /\ SetNext(requests[r].job, requests[r].next)
  /\ requests' = [requests EXCEPT ![r].pc = AfterNext(r)]
  /\ UNCHANGED <<clock, running, scanVars, tasks, log, faults, crashes>>

WriteFields(r) ==
  LET j == requests[r].job
  IN  /\ requests[r].pc = "writeFields"
      /\ rows' = IF Exists(j) THEN [rows EXCEPT ![j].cron = requests[r].cron] ELSE rows
      /\ requests' = [requests EXCEPT ![r].pc = "done"]
      /\ UNCHANGED <<clock, running, scanVars, tasks, log, faults, crashes>>

\* A statement of resume or update fails: the next instant is then simply not
\* written, any other failure ends the request.
HandlerFails(r) ==
  /\ requests[r].pc \in {"refresh", "writeNext", "writeFields"}
  /\ faults < MaxFaults
  /\ faults' = faults + 1
  /\ requests' = [requests EXCEPT ![r].pc = IF @ = "writeNext" THEN AfterNext(r) ELSE "done"]
  /\ UNCHANGED <<clock, rows, running, scanVars, tasks, log, crashes>>

(***************************************************************************)
(* Time passes; the process dies and starts again with no memory of what   *)
(* ran.                                                                    *)
(***************************************************************************)
Tick ==
  /\ clock < MaxTime
  /\ clock' = clock + 1
  /\ UNCHANGED <<rows, running, scanVars, tasks, log, requests, faults, crashes>>

Crash ==
  /\ crashes < MaxCrashes
  /\ crashes' = crashes + 1
  /\ running' = {} /\ tasks' = {}
  /\ phase' = "sleep" /\ due' = {} /\ current' = NoDue
  /\ requests' = [r \in Requests |-> IF requests[r].pc = "new" THEN requests[r]
                                     ELSE [requests[r] EXCEPT !.pc = "done"]]
  /\ UNCHANGED <<clock, rows, now, log, faults>>

ScanStep == WakeUp \/ ListDue \/ (\E d \in due : Skip(d) \/ Claim(d)) \/ Reschedule \/ Spawn \/ EndScan

AdminStep ==
  \E r \in Requests :
    \/ \E j \in Jobs : Create(r, j) \/ Pause(r, j) \/ Delete(r, j) \/ Resume(r, j) \/ Update(r, j)
    \/ Refresh(r) \/ WriteNext(r) \/ WriteFields(r) \/ HandlerFails(r)

Next ==
  \/ ScanStep \/ ListFails
  \/ \E a \in Agents : TaskStep(a)
  \/ AdminStep \/ Tick \/ Crash

Spec == Init /\ [][Next]_vars

(***************************************************************************)
(* The loop never stops scanning (it sleeps for a minute at most), and a   *)
(* task's LLM and tool calls come back.                                    *)
(***************************************************************************)
FairSpec == Spec /\ WF_vars(ScanStep) /\ (\A a \in Agents : WF_vars(TaskStep(a)))

-----------------------------------------------------------------------------
Instants == Nat
Rows     == [status : {"unborn", "active", "paused", "disabled", "deleted"}, cron : Nat, next : Instants]
DueJobs  == [job : Jobs, cron : Nat, next : Instants]
Labels   == {"new", "refresh", "writeNext", "writeFields", "done"}

TypeOK ==
  /\ clock \in Nat /\ now \in Nat /\ faults \in Nat /\ crashes \in Nat
  /\ rows \in [Jobs -> Rows]
  /\ running \subseteq Agents
  /\ phase \in {"sleep", "list", "pick", "reschedule", "spawn"}
  /\ due \subseteq DueJobs
  /\ current \in DueJobs \cup {NoDue}
  /\ tasks \subseteq [id : Nat, job : Jobs, stage : {"open", "loop", "over"}]
  /\ log \subseteq [id : Nat, job : Jobs, cron : Nat, due : Instants, at : Instants]
  /\ requests \in [Requests -> [pc : Labels, op : Operations \cup {"none"},
                                 job : Jobs \cup {NoJob}, cron : Nat, next : Instants]]

(***************************************************************************)
(* Properties.                                                             *)
(***************************************************************************)
Claiming == phase \in {"reschedule", "spawn"}

\* T058: no agent runs two scheduled jobs at a time.
OneRunPerAgent ==
  \A t, u \in tasks : AgentOf[t.job] = AgentOf[u.job] => t = u

\* The running set never goes stale: it holds the agents of the live tasks
\* and of the job in hand, so that no agent is skipped for ever.
RunningIsAccurate ==
  running = {AgentOf[t.job] : t \in tasks}
            \cup (IF Claiming THEN {AgentOf[current.job]} ELSE {})

\* A one-time job fires once, and once more per resume, across restarts and
\* whatever the admins do while the scan holds its row, as long as no statement
\* fails.
Resumes(j) == {r \in Requests : requests[r].op = "resume" /\ requests[r].job = j}
OneTimeFiresOnce ==
  faults = 0 => \A j \in Jobs :
    Cardinality({f \in log : f.job = j /\ f.cron = OneTime}) <= 1 + Cardinality(Resumes(j))

\* A cron job fires at most once between two of its instants, and once more per
\* resume or update, which may write an instant it computed before the last
\* firing: instants missed in downtime, or while its agent ran, are made up for by
\* one firing, as long as no statement fails.
Reschedulings(j) ==
  {r \in Requests : requests[r].op \in {"resume", "update"} /\ requests[r].job = j}
SamePeriod(f) ==
  {g \in log : g.job = f.job /\ g.cron = f.cron /\ g.at \div f.cron = f.at \div f.cron}
OncePerPeriod ==
  faults = 0 =>
    \A f \in log :
      f.cron # OneTime => Cardinality(SamePeriod(f)) <= 1 + Cardinality(Reschedulings(f.job))

\* A job that has its agent to itself is taken up, after each instant that comes
\* due, by a scan that started after it, also if its agent still ran at that time
\* and however often the process started again; and once taken up it gets its task,
\* unless the process ends before.  Excepted is what an admin pauses, deletes or
\* reschedules, also when the scan holds the row of before and disables the job, or
\* writes another instant, over it.
Due(j, n) == rows[j].status = "active" /\ rows[j].next = n /\ n <= clock
Withdrawn(j) ==
  \/ rows[j].status \in {"paused", "deleted"}
  \/ \E r \in Requests : requests[r].pc = "writeNext" /\ requests[r].job = j
  \/ phase = "reschedule" /\ current.job = j /\ current.next # rows[j].next
HeldByScan(j) == Claiming /\ current.job = j
Fires(j) == \E f \in log, t \in tasks : f.id = t.id /\ f.job = j /\ f.at = now
DueJobFires ==
  /\ \A j \in Jobs, n \in 0 .. MaxTime :
       (\A k \in Jobs : AgentOf[k] = AgentOf[j] => k = j) =>
         (Due(j, n) ~> (HeldByScan(j) /\ n <= now) \/ Withdrawn(j))
  /\ \A j \in Jobs, c \in 0 .. MaxCrashes : HeldByScan(j) /\ crashes = c ~> Fires(j) \/ crashes > c
=============================================================================
