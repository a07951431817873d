--------------------------- MODULE AgentVersions ---------------------------
(***************************************************************************)
(* The versions of one agent (store/models/agent.rs) under the admin API's *)
(* handlers (server/admin_api/agents.rs).                                  *)
(*                                                                         *)
(* The table has a row per version, and is_current marks the one that      *)
(* runs.  update and rollback read a row, and write a copy of it as a new  *)
(* version in a later transaction; delete disables whatever is current by  *)
(* then.  Requests interleave between their statements.                    *)
(*                                                                         *)
(* Not modelled: other agents, which share nothing but the table; the      *)
(* fields of a definition, which are one value here; requests that name an *)
(* agent nobody has.                                                       *)
(***************************************************************************)
EXTENDS Integers, FiniteSetsExt

CONSTANTS
  Requests,      \* admin requests, numbered as they come in
  Definitions,   \* what an agent can be: prompt, model, scopes, ...
  MaxTarget      \* bound: the versions a rollback asks for

ASSUME RequestsAssumption == Requests \subseteq Nat /\ MaxTarget \in Nat

VARIABLES
  rows,       \* agents: the rows with this id
  requests    \* the requests and their locals

vars == <<rows, requests>>

Versions == {x.version : x \in rows}
Current == {x \in rows : x.current}

\* UPDATE ... SET is_current = 0.  Mutant: it is left out.
AsTheyAre == rows
Retired == {[x EXCEPT !.current = FALSE] : x \in rows}

NewReq == [pc |-> "new", op |-> "none", target |-> 0, seen |-> {}, made |-> 0]

Init == rows = {} /\ requests = [r \in Requests |-> NewReq]

FirstVersion(d) == [version |-> 1, current |-> TRUE, status |-> "active",
                    parent |-> 0, definition |-> d]

\* create_agent, under an id of its own.
Create ==
  /\ rows = {}
  /\ \E d \in Definitions : rows' = {FirstVersion(d)}
  /\ UNCHANGED requests

\* resolve_agent_id: an id is taken as it is, a name must be a current agent's.
Begin(r) ==
  /\ requests[r].pc = "new"
  /\ \A q \in Requests : q < r => requests[q].pc # "new"
  /\ rows # {}
  /\ \E byName \in BOOLEAN, op \in {"update", "rollback", "delete"}, v \in 1..MaxTarget :
       /\ byName => Current # {}
       /\ requests' = [requests EXCEPT ![r].pc = "resolved", ![r].op = op,
                         ![r].target = IF op = "rollback" THEN v ELSE 0]
  /\ UNCHANGED rows

\* Mutant of Answers: a rollback copies the current version.
AnswersCurrent(r) == Current

\* Mutant of Answers: the row to update is the newest, current or not.
AnswersNewest(r) ==
  IF requests[r].op = "update" THEN {x \in rows : \A y \in rows : y.version <= x.version}
                               ELSE {x \in rows : x.version = requests[r].target}

\* get_current or get_version: the row the new version will be a copy of.
Answers(r) == IF requests[r].op = "update" THEN Current
                                           ELSE {x \in rows : x.version = requests[r].target}

Read(r) ==
  /\ requests[r].pc = "resolved" /\ requests[r].op \in {"update", "rollback"}
  /\ \E x \in Answers(r) :
       requests' = [requests EXCEPT ![r].pc = "read", ![r].seen = {x}]
  /\ UNCHANGED rows

NotFound(r) ==
  /\ requests[r].pc = "resolved" /\ requests[r].op \in {"update", "rollback"}
  /\ Answers(r) = {}
  /\ requests' = [requests EXCEPT ![r].pc = "done"]
  /\ UNCHANGED rows

NewVersion == Max(Versions \cup {0}) + 1

Copied(x, d) == [version |-> NewVersion, current |-> TRUE, status |-> x.status,
                 parent |-> x.version, definition |-> d]

\* create_new_version: one transaction, which begins with its UPDATE.
CreateNewVersion(r) ==
  /\ requests[r].pc = "read"
  /\ \E x \in requests[r].seen, d \in Definitions :
       /\ requests[r].op = "rollback" => d = x.definition
       /\ rows' = Retired \cup {Copied(x, d)}
       /\ requests' = [requests EXCEPT ![r].pc = "done", ![r].made = NewVersion]

\* Mutant of Delete: the row goes.
DeleteRow(r) ==
  /\ requests[r].pc = "resolved" /\ requests[r].op = "delete"
  /\ rows' = rows \ Current
  /\ requests' = [requests EXCEPT ![r].pc = "done"]

Delete(r) ==
  /\ requests[r].pc = "resolved" /\ requests[r].op = "delete"
  /\ rows' = {IF x.current THEN [x EXCEPT !.status = "disabled", !.current = FALSE]
                           ELSE x : x \in rows}
  /\ requests' = [requests EXCEPT ![r].pc = "done"]

\* Mutant of RequestFails: the UPDATE is committed without the INSERT.
FailsHalfway(r) ==
  /\ requests[r].pc \in {"resolved", "read"}
  /\ rows' = IF requests[r].pc = "read" THEN Retired ELSE rows
  /\ requests' = [requests EXCEPT ![r].pc = "done"]

\* SQLITE_BUSY, or the end of the process: an open transaction is rolled back.
RequestFails(r) ==
  /\ requests[r].pc \in {"resolved", "read"}
  /\ requests' = [requests EXCEPT ![r].pc = "done"]
  /\ UNCHANGED rows

Next ==
  \/ Create
  \/ \E r \in Requests : \/ Begin(r) \/ Read(r) \/ NotFound(r)
                         \/ CreateNewVersion(r) \/ Delete(r) \/ RequestFails(r)

Spec == Init /\ [][Next]_vars

(***************************************************************************)
(* Properties.                                                             *)
(***************************************************************************)
Rows == [version : Nat, current : BOOLEAN, status : {"active", "disabled"},
         parent : Nat, definition : Definitions]

Reqs == [pc : {"new", "resolved", "read", "done"},
         op : {"none", "update", "rollback", "delete"},
         target : Nat, seen : SUBSET Rows, made : Nat]

\* The types of the table and of the requests' locals.
TypeOK == rows \subseteq Rows /\ requests \in [Requests -> Reqs]

\* The row get_current finds is the newest version, and the only current one:
\* however updates, rollbacks and deletes overlap, everybody runs the same agent.
CurrentIsNewest ==
  \A x \in Current, y \in rows : y = x \/ y.version < x.version

\* An agent without a current version was deleted: no failing or racing request
\* takes the current version away and leaves nothing in its place.
NeverVanishes ==
  rows # {} /\ Current = {} =>
    \E x \in rows : x.status = "disabled" /\ \A y \in rows : y.version <= x.version

\* A rollback that answered with a version made it a copy of the version it was
\* asked for, with that one as its parent, whatever was published meanwhile.
RollbackRestores ==
  \A r \in Requests : requests[r].op = "rollback" /\ requests[r].made # 0 =>
    \E x, y \in rows : /\ x.version = requests[r].made /\ y.version = requests[r].target
                       /\ x.parent = y.version /\ x.definition = y.definition

\* Deleted for good: no update still holds a row it read before the deletion.
Deleted == rows # {} /\ Current = {}
InFlight == {r \in Requests : requests[r].op = "update" /\ requests[r].pc = "read"}

StaysDeleted ==
  Deleted /\ InFlight = {} =>
    \/ Deleted' /\ InFlight' = {}
    \/ \E r \in Requests : /\ requests[r].op = "rollback"
                           /\ requests'[r].made \in {x.version : x \in Current'}

\* A deleted agent comes back by a rollback, or by an update that had read it
\* before the deletion; requests that come later do not revive it.
DeletedStaysDeleted == [][StaysDeleted]_vars

History == INSTANCE VersionHistory WITH
  history <- {[version |-> x.version, parent |-> x.parent, definition |-> x.definition] :
                x \in rows},
  live <- {x.version : x \in Current}

\* The table implements the abstract history: versions are numbered upwards,
\* never rewritten or removed, and only the newest is ever live.
ImplementsHistory == History!HistorySpec
=============================================================================
