------------------------------- MODULE Memory -------------------------------
(***************************************************************************)
(* What the agents of a tenant remember (store/models/memory.rs,           *)
(* engine/memory.rs), as runs of the agent loop read and write it          *)
(* (engine/agent_loop.rs) while admins change an agent's scope settings,   *)
(* promote memories and offboard users (admin_api/reflections.rs).         *)
(*                                                                         *)
(* A run works with the settings it loaded at its start.  A value is named *)
(* by the run that wrote it.  A request's statements interleave with those *)
(* of others, and it may stop between them.                                *)
(*                                                                         *)
(* The turns of a run are AgentLoop's.  Not modelled: reflection reports,  *)
(* which count rows and change nothing else; restore and delete of single  *)
(* memories, which have no caller.                                         *)
(***************************************************************************)
EXTENDS Integers, FiniteSets

CONSTANTS
  Requests,      \* runs and admin requests, numbered as they come in
  Agents,
  Users,
  Nobody,        \* the empty user name, which an MCP identity may have
  Keys,          \* the names of memories
  Choices,       \* the scope settings admins choose from
  MaxInFlight,   \* bound: requests that run at the same time
  MaxWrites      \* MAX_MEMORY_WRITES_PER_CURATION

ASSUME MemoryAssumption ==
  /\ Requests \subseteq Nat \ {0} /\ {MaxInFlight, MaxWrites} \subseteq Nat
  /\ "tenant" \notin Users \cup {Nobody}
  /\ Choices \subseteq [mode : {"dual", "tenant-only", "user-only"},
                        policy : {"tenant", "user"}, coerce : {"coerce", "drop"}]

VARIABLES
  settings,   \* the current version's scope settings, per agent
  memories,   \* memory_entries
  requests    \* the requests and their locals

vars == <<settings, memories, requests>>
stores == <<settings, memories>>

Done == {r \in Requests : requests[r].pc = "done"}
Fresh == {r \in Requests : requests[r].pc = "new"}
InFlight == Requests \ (Done \cup Fresh)
Accepted(op) == {r \in Done : requests[r].op = op /\ requests[r].ok}

NewReq == [pc |-> "new", op |-> "none", ok |-> FALSE, agent |-> Nobody,
           user |-> Nobody, under |-> {}, told |-> {}, wrote |-> {},
           row |-> {}, copied |-> {}, before |-> {}]

Init ==
  /\ settings \in [Agents -> Choices]
  /\ memories = {}
  /\ requests = [r \in Requests |-> NewReq]

Begin(r, op, x) ==
  /\ r \in Fresh /\ \A q \in Fresh : r <= q
  /\ Cardinality(InFlight) < MaxInFlight
  /\ requests' = [requests EXCEPT ![r] = [x EXCEPT !.op = op, !.before = Done]]

At(r, op, pc) == requests[r].op = op /\ requests[r].pc = pc

\* What is left of a request that is over; of one that wrote nothing, nothing.
Leave(r, ok) ==
  LET x == requests[r]
  IN  requests' = [requests EXCEPT ![r] =
        IF x.op \in {"run", "search"} /\ x.wrote = {} THEN [NewReq EXCEPT !.pc = "done", !.op = x.op]
        ELSE [x EXCEPT !.pc = "done", !.ok = ok, !.told = {}]]
Finish(r) == Leave(r, TRUE)

\* A statement or the model fails, or the process ends: what was written stays.
Stop(r) ==
  /\ r \in InFlight
  /\ Leave(r, FALSE)
  /\ UNCHANGED stores

(***************************************************************************)
(* The tables.                                                             *)
(***************************************************************************)
\* read_for_user, of live entries.
ReadForUser(agent, user) ==
  {m \in memories : m.agent = agent /\ ~m.archived /\ m.scope \in {"tenant", user}}

\* search_by_query: what the query matches of them.
SearchByQuery(agent, user, keys) ==
  {m \in ReadForUser(agent, user) : m.key \in keys}

\* Mutant of Upsert: the first entry ever written stays.
KeepFirst(agent, scope, key, r) ==
  IF \E m \in memories : m.agent = agent /\ m.scope = scope /\ m.key = key THEN memories
  ELSE memories \cup {[id |-> <<r, agent, scope, key>>, agent |-> agent, scope |-> scope, key |-> key,
                       value |-> r, archived |-> FALSE]}

\* upsert: ON CONFLICT the value changes, whichever was written first; the id and
\* archived stay.
Upsert(agent, scope, key, value) ==
  LET same == {m \in memories : m.agent = agent /\ m.scope = scope /\ m.key = key}
  IN  (memories \ same) \cup
      (IF same # {} THEN {[m EXCEPT !.value = value] : m \in same}
       ELSE {[id |-> <<value, agent, scope, key>>, agent |-> agent, scope |-> scope,
              key |-> key, value |-> value, archived |-> FALSE]})

\* Mutant of Scope: what the policy asks for, whatever the mode.
ScopeByPolicy(set, user) == {IF set.policy = "user" THEN user ELSE "tenant"}

\* write_memory's scope; none when the write is dropped.
Scope(set, user) ==
  LET asked == IF set.policy = "user" THEN user ELSE "tenant"
      forced == CASE set.mode = "dual" -> asked
                  [] set.mode = "tenant-only" -> "tenant"
                  [] set.mode = "user-only" -> user
  IN  IF asked = forced \/ set.coerce = "coerce" THEN {forced} ELSE {}

(***************************************************************************)
(* A run: a chat, an MCP chat, a Slack message, an event or a job.         *)
(***************************************************************************)
LoadAgent(r) ==
  /\ \E agent \in Agents, user \in Users \cup {Nobody} :
       Begin(r, "run", [NewReq EXCEPT !.pc = "loaded", !.agent = agent, !.user = user,
                                      !.under = {settings[agent]}])
  /\ UNCHANGED stores

\* read_memories, into the system context.
Recall(r) ==
  /\ At(r, "run", "loaded")
  /\ requests' = [requests EXCEPT ![r].pc = "answering",
       ![r].told = ReadForUser(requests[r].agent, requests[r].user)]
  /\ UNCHANGED stores

\* maybe_run_memory_curation: every so many turns, or when the user asked for it.
Curate(r) ==
  /\ At(r, "run", "answering")
  /\ requests' = [requests EXCEPT ![r].pc = "curating",
       ![r].told = @ \cup ReadForUser(requests[r].agent, requests[r].user)]
  /\ UNCHANGED stores

\* One write of the model's; a dropped one counts as well.
Remember(r) ==
  /\ At(r, "run", "curating") /\ Cardinality(requests[r].wrote) < MaxWrites
  /\ \E key \in Keys, set \in requests[r].under :
       LET scopes == Scope(set, requests[r].user)
       IN  /\ \A w \in requests[r].wrote : w.key # key
           /\ \/ scopes = {} /\ UNCHANGED memories
              \/ \E s \in scopes : memories' = Upsert(requests[r].agent, s, key, r)
           /\ requests' = [requests EXCEPT ![r].wrote = @ \cup {[key |-> key, scopes |-> scopes]}]
  /\ UNCHANGED settings

\* handle_memory_tool, of an MCP session.
Search(r) ==
  /\ \E agent \in Agents, user \in Users \cup {Nobody}, keys \in SUBSET Keys :
       Begin(r, "search", [NewReq EXCEPT !.pc = "answering", !.agent = agent, !.user = user,
                                         !.told = SearchByQuery(agent, user, keys)])
  /\ UNCHANGED stores

EndRun(r) ==
  /\ requests[r].pc \in {"answering", "curating"}
  /\ Finish(r)
  /\ UNCHANGED stores

(***************************************************************************)
(* Admins.                                                                 *)
(***************************************************************************)
\* An update of the agent, as far as memory goes.
Configure(r) ==
  /\ Begin(r, "configure", [NewReq EXCEPT !.pc = "done", !.ok = TRUE])
  /\ \E agent \in Agents, set \in Choices : settings' = [settings EXCEPT ![agent] = set]
  /\ UNCHANGED memories

\* promote_to_tenant looks the entry up among those of the empty user name, so that
\* it refuses what any other user's is.
FindPromoted(r) ==
  /\ \E m \in memories :
       LET found == m \in ReadForUser(m.agent, Nobody)
           rows  == {e \in {m} : found /\ e.scope # "tenant"}
       IN  Begin(r, "promote", [NewReq EXCEPT !.row = rows, !.ok = found /\ rows = {},
                                              !.pc = IF rows # {} THEN "found" ELSE "done"])
  /\ UNCHANGED stores

CopyToTenant(r) ==
  /\ At(r, "promote", "found")
  /\ \E m \in requests[r].row : memories' = Upsert(m.agent, "tenant", m.key, m.value)
  /\ requests' = [requests EXCEPT ![r].pc = "copied", ![r].copied = requests[r].row]
  /\ UNCHANGED settings

\* soft_archive
ArchiveOriginal(r) ==
  /\ At(r, "promote", "copied")
  /\ memories' = {IF m.id \in {x.id : x \in requests[r].row} THEN [m EXCEPT !.archived = TRUE]
                  ELSE m : m \in memories}
  /\ Finish(r)
  /\ UNCHANGED settings

OfUser(user) == {m \in memories : m.scope = user}

\* offboard_user with delete-now, of all agents; with keep it changes nothing.
Offboard(r) ==
  /\ \E user \in Users :
       /\ memories' = memories \ OfUser(user)
       /\ Begin(r, "offboard", [NewReq EXCEPT !.pc = "done", !.ok = TRUE, !.user = user])
  /\ UNCHANGED settings

Next ==
  \E r \in Requests :
    \/ Stop(r)
    \/ LoadAgent(r) \/ Recall(r) \/ Curate(r) \/ Remember(r) \/ EndRun(r) \/ Search(r)
    \/ Configure(r) \/ FindPromoted(r) \/ CopyToTenant(r) \/ ArchiveOriginal(r) \/ Offboard(r)

Spec == Init /\ [][Next]_vars

(***************************************************************************)
(* Properties.                                                             *)
(***************************************************************************)
\* Settings under which what a run learns of its user is that user's alone, and
\* under which it is everybody's.
Private(set) == set.mode = "user-only" \/ (set.mode = "dual" /\ set.policy = "user")
Shared(set) == set.mode = "tenant-only" \/ (set.mode = "dual" /\ set.policy = "tenant")

\* What an agent learnt of a user under private settings is told to no other
\* user, however its settings change while runs are under way; unless an admin's
\* promotion copied that value.
PrivateStaysPrivate ==
  \A q \in Requests : \A m \in requests[q].told :
    LET w == requests[m.value]
    IN  (\E set \in w.under : Private(set)) /\ w.user # requests[q].user =>
        \E p \in Requests : m.value \in {e.value : e \in requests[p].copied}

\* A promotion has copied an entry of that agent, scope and key; it archives it next.
PromotedFrom(agent, scope, key) ==
  \E p \in Requests : \E e \in requests[p].copied : <<e.agent, e.scope, e.key>> = <<agent, scope, key>>

\* The entry is one a promotion has put in the tenant's scope.
PromotedTo(m) ==
  /\ m.scope = "tenant"
  /\ \E p \in Requests : \E e \in requests[p].copied :
       <<e.agent, e.key, e.value>> = <<m.agent, m.key, m.value>>

\* What a run wrote is known to the next run of that user, and to everybody's
\* when the agent shares what it learns: that value, or one written under its
\* key by a run that was not over when this one came.  Except if the user was
\* offboarded since; or if a promotion has copied the entry of that agent,
\* scope and key, which hides what is written there from then on; and in the
\* tenant's scope the value may be one that a promotion put in its place, which
\* may be older.
WrittenIsKnown ==
  \A w \in Accepted("run"), q \in Requests : \A x \in requests[w].wrote : \A s \in x.scopes :
    /\ w \in requests[q].before /\ requests[q].op = "run" /\ requests[q].pc \in {"answering", "curating"}
    /\ requests[q].agent = requests[w].agent
    /\ requests[q].user = requests[w].user \/ \A set \in requests[w].under : Shared(set)
    => \/ \E m \in requests[q].told : /\ m.key = x.key /\ m.scope = s
                                      /\ m.value \notin requests[w].before \/ PromotedTo(m)
       \/ \E o \in Requests : /\ requests[o].op = "offboard" /\ requests[o].user = s
                              /\ o \notin requests[w].before
       \/ PromotedFrom(requests[w].agent, s, x.key)
=============================================================================
