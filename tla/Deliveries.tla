----------------------------- MODULE Deliveries -----------------------------
(***************************************************************************)
(* Webhook deliveries: inbound events (server/events.rs, engine/           *)
(* event_router.rs) and Slack events (server/slack/events.rs), which share *)
(* one DedupTable (engine/dedup.rs): a map in memory in front of a table   *)
(* in each tenant's store.                                                 *)
(*                                                                         *)
(* An attempt is one HTTP request.  Senders repeat a delivery as often as  *)
(* they like, also at once; a restart forgets the map and every attempt in *)
(* progress.  Every SQL statement and every awaited call is a step;        *)
(* check_and_record is one, as it holds the map's mutex.                   *)
(*                                                                         *)
(* Not modelled: requests that are turned away before the dedup (a bad     *)
(* signature, a bot's message, an unbound channel); what an agent does     *)
(* with its message (AgentLoop).                                           *)
(***************************************************************************)
EXTENDS Integers, FiniteSets

CONSTANTS
  Attempts,      \* HTTP requests, numbered as they come in
  Tenants,
  Ids,           \* delivery ids of the senders' choice
  NoId,          \* an inbound event that carries none
  Subs,          \* event subscriptions
  SubTenant,     \* the tenant of each subscription
  Threads,       \* Slack threads, each in a channel that is bound to an agent
  ThreadTenant,  \* the tenant each thread's channel is bound in
  MaxFaults,     \* bound: statements and calls that fail
  MaxCrashes     \* bound: restarts of the process

ASSUME AttemptsAssumption == Attempts \subseteq Nat /\ NoId \notin Ids
ASSUME OwnersAssumption ==
  /\ SubTenant \in [Subs -> Tenants]
  /\ ThreadTenant \in [Threads -> Tenants]
  /\ Subs \cap Threads = {}
ASSUME BoundsAssumption == MaxFaults \in Nat /\ MaxCrashes \in Nat

VARIABLES
  seen,           \* DedupTable.seen: the map in memory
  recorded,       \* dedup_entries of each tenant's store
  subs,           \* event_subscriptions: the status of each
  conversations,  \* conversations of Slack threads
  open,           \* conversations of event runs that are still active
  clock,          \* the order of the creations and insertions of conversations
  attempts,       \* the attempts and their locals
  faults, crashes

vars == <<seen, recorded, subs, conversations, open, clock, attempts, faults, crashes>>
store == <<subs, conversations, open, clock>>

NewAttempt == [pc |-> "new", kind |-> "none", tenant |-> "none", id |-> NoId, thread |-> "none",
               verdict |-> "none", listed |-> {}, todo |-> {}, ran |-> {}, skipped |-> {}, stamp |-> 0,
               life |-> 0]   \* history: the restarts before its verdict

At(a, l) == attempts[a].pc = l
Goto(a, l) == attempts' = [attempts EXCEPT ![a].pc = l]
Ended == {"new", "accepted", "duplicate", "error", "done", "lost"}

Init ==
  /\ seen = {} /\ recorded = [t \in Tenants |-> {}]
  /\ subs = [s \in Subs |-> "unborn"]
  /\ conversations = {} /\ open = {} /\ clock = 0
  /\ attempts = [a \in Attempts |-> NewAttempt]
  /\ faults = 0 /\ crashes = 0

(***************************************************************************)
(* The senders.  Slack is answered at once, its event goes on in a task.   *)
(***************************************************************************)
Arrive(a, kind, tenant, id, thread) ==
  /\ At(a, "new")
  /\ \A b \in Attempts : b < a => attempts[b].pc # "new"
  /\ attempts' = [attempts EXCEPT ![a] =
                    [NewAttempt EXCEPT !.pc = IF id = NoId THEN "route" ELSE "dedup",
                       !.kind = kind, !.tenant = tenant, !.id = id, !.thread = thread]]
  /\ UNCHANGED <<seen, recorded, store, faults, crashes>>

EventArrives(a) == \E t \in Tenants, d \in Ids \cup {NoId} : Arrive(a, "event", t, d, "none")

\* dispatch_event: a user's message, for the first active tenant that has the
\* channel bound to an agent.
DispatchEvent(a, d, h) == Arrive(a, "slack", ThreadTenant[h], d, h)

\* handle_event of an event_callback, in the task it spawns.
SlackArrives(a) == \E h \in Threads, d \in Ids : DispatchEvent(a, d, h)

(***************************************************************************)
(* DedupTable::check_and_record.                                           *)
(***************************************************************************)
Passed(a) == IF attempts[a].kind = "event" THEN "route" ELSE "agent"

\* Mutant of IsDuplicate: the table is not asked.
SeenInMemory(a) == attempts[a].id \in seen

IsDuplicate(a) ==
  \/ attempts[a].id \in seen
  \/ attempts[a].id \in recorded[attempts[a].tenant]   \* INSERT OR IGNORE inserts nothing

Record(a) ==
  /\ At(a, "dedup") /\ ~IsDuplicate(a)
  /\ recorded' = [recorded EXCEPT ![attempts[a].tenant] = @ \cup {attempts[a].id}]
  /\ seen' = seen \cup {attempts[a].id}
  /\ attempts' = [attempts EXCEPT ![a].pc = Passed(a), ![a].verdict = "new", ![a].life = crashes]
  /\ UNCHANGED <<store, faults, crashes>>

Duplicate(a) ==
  /\ At(a, "dedup") /\ IsDuplicate(a)
  /\ attempts' = [attempts EXCEPT ![a].pc = "duplicate", ![a].verdict = "duplicate", ![a].life = crashes]
  /\ UNCHANGED <<seen, recorded, store, faults, crashes>>

\* Mutant of CheckFails: the map is written before the INSERT.
CheckFailsLate(a) ==
  /\ At(a, "dedup") /\ attempts[a].id \notin seen /\ faults < MaxFaults
  /\ faults' = faults + 1
  /\ seen' = seen \cup {attempts[a].id}
  /\ attempts' = [attempts EXCEPT ![a].pc = IF attempts[a].kind = "event" THEN "route" ELSE "done",
                                  ![a].verdict = "unchecked"]
  /\ UNCHANGED <<recorded, store, crashes>>

\* The store does not open or the INSERT fails: an inbound event goes on all the same,
\* a Slack event does not.
CheckFails(a) ==
  /\ At(a, "dedup") /\ faults < MaxFaults
  /\ faults' = faults + 1
  /\ attempts' = [attempts EXCEPT ![a].pc = IF attempts[a].kind = "event" THEN "route" ELSE "done",
                                  ![a].verdict = "unchecked"]
  /\ UNCHANGED <<seen, recorded, store, crashes>>

(***************************************************************************)
(* route_event and run_subscription.                                       *)
(***************************************************************************)
ListSubs(a) ==
  /\ At(a, "route")
  /\ LET active == {s \in Subs : SubTenant[s] = attempts[a].tenant /\ subs[s] = "active"}
     IN attempts' = [attempts EXCEPT ![a].pc = "subs", ![a].listed = active, ![a].todo = active]
  /\ UNCHANGED <<seen, recorded, store, faults, crashes>>

\* Opening the store or listing fails: 500.
RouteFails(a) ==
  /\ At(a, "route") /\ faults < MaxFaults
  /\ faults' = faults + 1
  /\ Goto(a, "error")
  /\ UNCHANGED <<seen, recorded, store, crashes>>

\* Mutant of SkipSub: the first subscription that does not match ends the routing.
SkipAll(a, s) ==
  /\ At(a, "subs") /\ s \in attempts[a].todo
  /\ attempts' = [attempts EXCEPT ![a].todo = {}, ![a].skipped = @ \cup {s}]
  /\ UNCHANGED <<seen, recorded, store, faults, crashes>>

\* The token or the source does not match, the agent is gone or not active, or a
\* statement before the conversation's INSERT fails.
SkipSub(a, s) ==
  /\ At(a, "subs") /\ s \in attempts[a].todo
  /\ attempts' = [attempts EXCEPT ![a].todo = @ \ {s}, ![a].skipped = @ \cup {s}]
  /\ UNCHANGED <<seen, recorded, store, faults, crashes>>

\* A conversation of its own, in which the agent gets the payload.
StartSub(a, s) ==
  /\ At(a, "subs") /\ s \in attempts[a].todo
  /\ open' = open \cup {<<a, s>>}
  /\ attempts' = [attempts EXCEPT ![a].pc = "running", ![a].todo = @ \ {s}, ![a].ran = @ \cup {s}]
  /\ UNCHANGED <<seen, recorded, subs, conversations, clock, faults, crashes>>

OpenOf(a) == {o \in open : o[1] = a}

\* Mutant of ConcludeSub: the conversation is left as it is.
LeaveSub(a) ==
  /\ At(a, "running")
  /\ Goto(a, "subs")
  /\ UNCHANGED <<seen, recorded, store, faults, crashes>>

\* The loop has answered: update_status(.., "concluded").
ConcludeSub(a) ==
  /\ At(a, "running")
  /\ open' = open \ OpenOf(a)
  /\ Goto(a, "subs")
  /\ UNCHANGED <<seen, recorded, subs, conversations, clock, faults, crashes>>

\* No credential, or the loop or a statement fails: logged, and on to the next one.
SubFails(a) ==
  /\ At(a, "running") /\ faults < MaxFaults
  /\ faults' = faults + 1
  /\ Goto(a, "subs")
  /\ UNCHANGED <<seen, recorded, store, crashes>>

Accept(a) ==
  /\ At(a, "subs") /\ attempts[a].todo = {}
  /\ Goto(a, "accepted")
  /\ UNCHANGED <<seen, recorded, store, faults, crashes>>

(***************************************************************************)
(* dispatch_event, after its dedup.                                        *)
(***************************************************************************)
LoadAgent(a) ==
  /\ At(a, "agent")
  /\ \E l \in {"find", "done"} : Goto(a, l)    \* gone or not active: done
  /\ UNCHANGED <<seen, recorded, store, faults, crashes>>

\* Mutant of OfThread: the key is made of the message's own ts.
OfMessage(a) == {}

OfThread(a) == {c \in conversations : c.thread = attempts[a].thread}

\* get_active_by_surface: the one created last.
FindConversation(a) ==
  /\ At(a, "find")
  /\ \E c \in OfThread(a) :
       /\ \A d \in OfThread(a) : d.stamp <= c.stamp
       /\ attempts' = [attempts EXCEPT ![a].pc = "credentials", ![a].stamp = c.stamp]
  /\ UNCHANGED <<seen, recorded, store, faults, crashes>>

\* Conversation::create takes the time before it inserts.
NoConversation(a) ==
  /\ At(a, "find") /\ OfThread(a) = {}
  /\ clock' = clock + 1
  /\ attempts' = [attempts EXCEPT ![a].pc = "create", ![a].stamp = clock + 1]
  /\ UNCHANGED <<seen, recorded, subs, conversations, open, faults, crashes>>

CreateConversation(a) ==
  /\ At(a, "create")
  /\ clock' = clock + 1
  /\ conversations' = conversations \cup {[thread |-> attempts[a].thread,
                                          stamp |-> attempts[a].stamp, at |-> clock + 1]}
  /\ Goto(a, "credentials")
  /\ UNCHANGED <<seen, recorded, subs, open, faults, crashes>>

\* Without an LLM or a Slack credential the event is dropped.
Credentials(a) ==
  /\ At(a, "credentials")
  /\ \/ Goto(a, "done")
     \/ attempts' = [attempts EXCEPT ![a].pc = "loop", ![a].ran = {attempts[a].thread}]
  /\ UNCHANGED <<seen, recorded, store, faults, crashes>>

\* The reply is posted when the loop has answered.
Answered(a) ==
  /\ \/ At(a, "loop") /\ Goto(a, "reply")
     \/ At(a, "reply") /\ Goto(a, "done")
  /\ UNCHANGED <<seen, recorded, store, faults, crashes>>

\* Logged by the task that handle_event spawned.
SlackFails(a) ==
  /\ attempts[a].pc \in {"agent", "find", "create", "credentials", "loop", "reply"}
  /\ faults < MaxFaults
  /\ faults' = faults + 1
  /\ Goto(a, "done")
  /\ UNCHANGED <<seen, recorded, store, crashes>>

(***************************************************************************)
(* Admins (server/admin_api/event_subscriptions.rs) and restarts.          *)
(***************************************************************************)
SetSub(s, from, to) ==
  /\ subs[s] \in from
  /\ subs' = [subs EXCEPT ![s] = to]
  /\ UNCHANGED <<seen, recorded, conversations, open, clock, attempts, faults, crashes>>

CreateSub(s)  == SetSub(s, {"unborn"}, "active")
EnableSub(s)  == SetSub(s, {"disabled"}, "active")
DisableSub(s) == SetSub(s, {"active"}, "disabled")
DeleteSub(s)  == SetSub(s, {"active", "disabled"}, "deleted")

Restart ==
  /\ crashes < MaxCrashes
  /\ crashes' = crashes + 1
  /\ seen' = {}
  /\ attempts' = [a \in Attempts |-> IF attempts[a].pc \in Ended THEN attempts[a]
                                     ELSE [attempts[a] EXCEPT !.pc = "lost"]]
  /\ UNCHANGED <<recorded, store, faults>>

Step(a) ==
  \/ EventArrives(a) \/ SlackArrives(a)
  \/ Record(a) \/ Duplicate(a) \/ CheckFails(a)
  \/ ListSubs(a) \/ RouteFails(a) \/ Accept(a)
  \/ \E s \in Subs : SkipSub(a, s) \/ StartSub(a, s)
  \/ ConcludeSub(a) \/ SubFails(a)
  \/ LoadAgent(a) \/ FindConversation(a) \/ NoConversation(a) \/ CreateConversation(a)
  \/ Credentials(a) \/ Answered(a) \/ SlackFails(a)

Admin(s) == CreateSub(s) \/ EnableSub(s) \/ DisableSub(s) \/ DeleteSub(s)

Next == (\E a \in Attempts : Step(a)) \/ (\E s \in Subs : Admin(s)) \/ Restart

Spec == Init /\ [][Next]_vars

(***************************************************************************)
(* Properties.                                                             *)
(***************************************************************************)
Labels == Ended \cup {"dedup", "route", "subs", "running",
                      "agent", "find", "create", "credentials", "loop", "reply"}

AttemptRecords ==
  [pc : Labels, kind : {"none", "event", "slack"}, tenant : Tenants \cup {"none"},
   id : Ids \cup {NoId}, thread : Threads \cup {"none"},
   verdict : {"none", "new", "duplicate", "unchecked"},
   listed : SUBSET Subs, todo : SUBSET Subs, ran : SUBSET (Subs \cup Threads), skipped : SUBSET Subs, stamp : Nat,
   life : Nat]

\* The types of the tables, the map and the attempts' locals.
TypeOK ==
  /\ seen \subseteq Ids /\ recorded \in [Tenants -> SUBSET Ids]
  /\ subs \in [Subs -> {"unborn", "active", "disabled", "deleted"}]
  /\ conversations \subseteq [thread : Threads, stamp : Nat, at : Nat]
  /\ open \subseteq Attempts \X Subs
  /\ clock \in Nat /\ faults \in Nat /\ crashes \in Nat
  /\ attempts \in [Attempts -> AttemptRecords]

SameDelivery(a, b) ==
  /\ attempts[a].tenant = attempts[b].tenant
  /\ attempts[a].id = attempts[b].id /\ attempts[a].id # NoId

\* A delivery runs each of its subscriptions, or its thread's agent, at most once,
\* however often it is sent, also at once and across restarts; but for attempts
\* whose check failed, which go on unchecked (server/events.rs:59).
AtMostOnce ==
  \A a, b \in Attempts : a # b /\ SameDelivery(a, b) /\ attempts[a].ran # {} /\ attempts[b].ran # {} =>
    "unchecked" \in {attempts[a].verdict, attempts[b].verdict}

\* A delivery is refused only if another attempt with its id was recorded: its own
\* tenant's at any time, another tenant's since the last restart, as the map knows
\* ids alone (dedup.rs:57).  An attempt whose check failed keeps none out.
Recorded(b, d) == attempts[b].id = d /\ attempts[b].verdict = "new"
RefusedWasRecorded ==
  \A a \in Attempts : attempts[a].verdict = "duplicate" =>
    \E b \in Attempts :
      /\ Recorded(b, attempts[a].id)
      /\ attempts[b].tenant = attempts[a].tenant \/ attempts[b].life = attempts[a].life

\* An event answered with "accepted" was run by or skipped for every subscription
\* that was listed: one that does not match or fails does not keep it from the others.
AcceptedMeansTried ==
  \A a \in Attempts : At(a, "accepted") =>
    attempts[a].ran \cup attempts[a].skipped = attempts[a].listed

\* A thread has several conversations only when its first messages raced: each of
\* them looked before any other had inserted its conversation.
SplitsOnlyByRaces ==
  \A c, d \in conversations : c # d /\ c.thread = d.thread => c.stamp < d.at /\ d.stamp < c.at

\* A conversation of an event is concluded when its run is over, unless the run failed
\* or the process ended.
NothingLeftOpen ==
  faults = 0 /\ crashes = 0 => \A o \in open : At(o[1], "running")
=============================================================================
