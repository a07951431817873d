---------------------------- MODULE Credentials ----------------------------
(***************************************************************************)
(* The credentials of a tenant (store/models/credential.rs), those who     *)
(* write them - the admin API (admin_api/credentials.rs) and the two OAuth *)
(* callbacks (server/slack/auth.rs, server/oauth/mod.rs) - and those who   *)
(* read them: an agent's capabilities (store/models/capability.rs,         *)
(* engine/capability_exec.rs), which admins edit (admin_api/               *)
(* capabilities.rs), the Slack surface and the lookups of an LLM key.      *)
(*                                                                         *)
(* Names are not unique in the table.  get_by_name takes the first row the *)
(* index on (tenant_id, name, agent_id) yields, which is the oldest.       *)
(*                                                                         *)
(* A request's statements interleave with those of others, and the process *)
(* may stop between them.  A value is named by the request that wrote it.  *)
(*                                                                         *)
(* Not modelled: encryption (a value is what decrypt returns of it); the   *)
(* invocation log, whose errors are ignored; try_refresh_token, which has  *)
(* no caller.  create_authorization_url has none either: its requests      *)
(* stand for a capability that would ask for a user's authorization.       *)
(***************************************************************************)
EXTENDS Integers, FiniteSetsExt

CONSTANTS
  Requests,      \* requests, numbered as they come in
  Agents,        \* agents, with capabilities and credentials of their own
  Tools,         \* names of capabilities
  MaxInFlight,   \* bound: requests that run at the same time
  None           \* a tenant's credential; no request

ASSUME RequestsAssumption == Requests \subseteq Nat \ {0} /\ MaxInFlight \in Nat
ASSUME NoneAssumption == None \notin Requests \cup Agents

VARIABLES
  entries,    \* credential_vault_entries
  capabilities,   \* capabilities, each with the credential it refers to
  asks,       \* oauth_authorization_requests
  waiting,    \* the asks whose paused run has not been resumed
  requests    \* the requests and their locals

vars == <<entries, capabilities, asks, waiting, requests>>
stores == <<entries, capabilities, asks, waiting>>

\* slack_access_token, oauth_<provider>_<user> for a user's authorization, and
\* oauth_slack_slack-install, the same form for the request of a Slack install.
Names == {"slack", "oauth", "install"}
\* The kinds the command line offers (cli/credential.rs:35).
Kinds == {"static", "oauth2"}

\* What the CHECK of the table lets in.
Allowed(kind) == kind \in {"static", "delegated_user_token"}

Done == {r \in Requests : requests[r].pc = "done"}
Fresh == {r \in Requests : requests[r].pc = "new"}
InFlight == Requests \ (Done \cup Fresh)
Accepted(op) == {r \in Done : requests[r].op = op /\ requests[r].ok}

NewReq == [pc |-> "new", op |-> "none", ok |-> FALSE, agent |-> None, name |-> "none",
           kind |-> "none", ask |-> 0, row |-> 0, seen |-> 0, before |-> {}]

Init ==
  /\ entries = {} /\ capabilities = {} /\ asks = {} /\ waiting = {}
  /\ requests = [r \in Requests |-> NewReq]

\* The requests that are over, for those whose properties speak of them.
OverAt(op) == IF op \in {"use", "callback"} THEN Done ELSE {}

\* Request r comes and makes its first read or write, with the locals x.
Begin(r, op, x) ==
  /\ r \in Fresh /\ \A q \in Fresh : r <= q
  /\ Cardinality(InFlight) < MaxInFlight
  /\ requests' = [requests EXCEPT ![r] = [x EXCEPT !.op = op, !.before = OverAt(op)]]

At(r, op, pc) == requests[r].op = op /\ requests[r].pc = pc
Goto(r, pc) == requests' = [requests EXCEPT ![r].pc = pc]
Finish(r) == requests' = [requests EXCEPT ![r].pc = "done", ![r].ok = TRUE, ![r].row = 0]

\* A statement or a call fails, or the process ends: what was written stays.
Stop(r) ==
  /\ r \in InFlight
  /\ requests' = [requests EXCEPT ![r] = [NewReq EXCEPT !.pc = "done", !.op = requests[r].op,
                           !.name = requests[r].name, !.before = requests[r].before]]
  /\ UNCHANGED stores

(***************************************************************************)
(* The table.                                                              *)
(***************************************************************************)
Level(name, agent) == {e \in entries : e.name = name /\ e.agent = agent}
First(rows) == {e \in rows : \A f \in rows : e.row <= f.row}

\* get_by_name: the agent's own credential, or else the tenant's.
ByName(name, agent) ==
  First(IF Level(name, agent) # {} THEN Level(name, agent) ELSE Level(name, None))

\* CredentialVaultEntry::create
Insert(r, name, agent) ==
  entries' = entries \cup {[id |-> r, row |-> Max({e.row : e \in entries} \cup {0}) + 1,
                            name |-> name, agent |-> agent, value |-> r]}

\* Mutant of Overwritten: a row of its own for the new value.
Shadowed(id, r) ==
  entries \cup {[e EXCEPT !.id = r, !.value = r, !.row = @ + 10] : e \in {f \in entries : f.id = id}}

\* update_encrypted_value: by id, whatever has become of the row.
Overwritten(id, r) == {IF e.id = id THEN [e EXCEPT !.value = r] ELSE e : e \in entries}

(***************************************************************************)
(* The admin API.                                                          *)
(***************************************************************************)
\* set_credential: one INSERT, whether or not the name is taken.
SetCredential(r) ==
  \E name \in Names, kind \in Kinds, agent \in Agents \cup {None} :
    /\ Begin(r, "set", [NewReq EXCEPT !.pc = "done", !.ok = Allowed(kind)])
    /\ IF Allowed(kind) THEN Insert(r, name, agent) ELSE UNCHANGED entries
    /\ UNCHANGED <<capabilities, asks, waiting>>

\* rotate_credential and delete_credential: the tenant's row, then a statement by id.
FindCredential(r) ==
  /\ \E name \in Names, op \in {"rotate", "delete"} : \E e \in ByName(name, None) :
       Begin(r, op, [NewReq EXCEPT !.pc = "found", !.name = name, !.row = e.id, !.seen = e.value])
  /\ UNCHANGED stores

Rotate(r) ==
  /\ At(r, "rotate", "found")
  /\ entries' = Overwritten(requests[r].row, r)
  /\ Finish(r)
  /\ UNCHANGED <<capabilities, asks, waiting>>

Delete(r) ==
  /\ At(r, "delete", "found")
  /\ entries' = {e \in entries : e.id # requests[r].row}
  /\ Finish(r)
  /\ UNCHANGED <<capabilities, asks, waiting>>

(***************************************************************************)
(* Authorizations.                                                         *)
(***************************************************************************)
Open(x) == x.by = None /\ ~x.expired

NewAsk(r, provider) == [id |-> r, provider |-> provider, by |-> None, expired |-> FALSE]

\* What cleanup_expired leaves.
Pruned == {x \in asks : x.by # None \/ ~x.expired}

\* start_install; cleanup_expired first, its errors ignored.
CleanUp(r) ==
  /\ Begin(r, "ask", [NewReq EXCEPT !.pc = "cleaned"])
  /\ asks' \in {asks, Pruned}
  /\ UNCHANGED <<entries, capabilities, waiting>>

StartInstall(r) ==
  /\ At(r, "ask", "cleaned")
  /\ asks' = asks \cup {NewAsk(r, "slack")}
  /\ Finish(r)
  /\ UNCHANGED <<entries, capabilities, waiting>>

\* create_authorization_url, for a run that pauses until the callback.
AskUser(r) ==
  /\ Begin(r, "ask", [NewReq EXCEPT !.pc = "done", !.ok = TRUE])
  /\ asks' = asks \cup {NewAsk(r, "oauth")}
  /\ waiting' = waiting \cup {r}
  /\ UNCHANGED <<entries, capabilities>>

Expire ==
  /\ \E x \in asks : asks' = (asks \ {x}) \cup {[x EXCEPT !.expired = TRUE]}
  /\ UNCHANGED <<entries, capabilities, waiting, requests>>

\* Mutant of Answerable: completed_at is not looked at.
NotOld(x) == ~x.expired

Answerable(x) == Open(x)

\* The name handle_callback stores the token under.
NameFor(x) == IF x.provider = "slack" THEN "install" ELSE "oauth"

\* handle_callback, or handle_install_callback with the answer of Slack: an open
\* request for the state token, whichever of the two it was made for.
ReadAsk(r) ==
  /\ \E x \in asks, slack \in BOOLEAN :
       /\ Answerable(x)
       /\ Begin(r, "callback",
                [NewReq EXCEPT !.pc = "granted", !.ask = x.id,
                   !.name = IF slack THEN "slack" ELSE NameFor(x),
                   !.kind = IF slack THEN "oauth2" ELSE "delegated_user_token"])
  /\ UNCHANGED stores

Existing(name) == ByName(name, None)

LookupExisting(r) ==
  /\ At(r, "callback", "granted")
  /\ LET found == Existing(requests[r].name)
     IN  \/ \E e \in found : requests' = [requests EXCEPT ![r].pc = "looked", ![r].row = e.id,
                                                          ![r].seen = e.value]
         \/ found = {} /\ Goto(r, "looked")
  /\ UNCHANGED stores

\* Mutant of StoreToken: what the statement says is ignored.
StoreIfPossible(r) ==
  /\ At(r, "callback", "looked")
  /\ \/ requests[r].row # 0 /\ entries' = Overwritten(requests[r].row, r)
     \/ requests[r].row = 0 /\ UNCHANGED entries
  /\ Goto(r, "stored")
  /\ UNCHANGED <<capabilities, asks, waiting>>

StoreToken(r) ==
  /\ At(r, "callback", "looked")
  /\ \/ /\ requests[r].row # 0
        /\ entries' = Overwritten(requests[r].row, r)
        /\ Goto(r, "stored")
     \/ /\ requests[r].row = 0 /\ Allowed(requests[r].kind)
        /\ Insert(r, requests[r].name, None)
        /\ Goto(r, "stored")
     \/ /\ requests[r].row = 0 /\ ~Allowed(requests[r].kind)
        /\ requests' = [requests EXCEPT ![r].pc = "done"]
        /\ UNCHANGED entries
  /\ UNCHANGED <<capabilities, asks, waiting>>

\* handle_callback resumes the run that waits for the request; the Slack callback
\* resumes nothing.
Resumes(r) == requests[r].kind = "delegated_user_token" /\ requests[r].ask \in waiting

\* mark_completed
MarkCompleted(r) ==
  /\ At(r, "callback", "stored")
  /\ asks' = {IF x.id = requests[r].ask THEN [x EXCEPT !.by = r] ELSE x : x \in asks}
  /\ IF Resumes(r) THEN Goto(r, "completed") ELSE Finish(r)
  /\ UNCHANGED <<entries, capabilities, waiting>>

\* resume_workflow: the run's wait is cleared; an error is ignored.
ResumeRun(r) ==
  /\ At(r, "callback", "completed")
  /\ waiting' \in {waiting, waiting \ {requests[r].ask}}
  /\ Finish(r)
  /\ UNCHANGED <<entries, capabilities, asks>>

(***************************************************************************)
(* Capabilities.                                                           *)
(***************************************************************************)
Taken(agent, tool, id) ==
  \E c \in capabilities : c.agent = agent /\ c.name = tool /\ c.id # id

NewCapability(r, agent, tool, name) == [id |-> r, agent |-> agent, name |-> tool, uses |-> name]

\* create_capability; the name is UNIQUE within the agent.
CreateCapability(r) ==
  /\ \E agent \in Agents, tool \in Tools, name \in Names :
       LET free == ~Taken(agent, tool, r)
       IN  /\ Begin(r, "create", [NewReq EXCEPT !.pc = "done", !.ok = free])
           /\ capabilities' = capabilities \cup
                {c \in {NewCapability(r, agent, tool, name)} : free}
  /\ UNCHANGED <<entries, asks, waiting>>

\* resolve_capability, for update_capability or delete_capability.
ResolveCapability(r) ==
  /\ \E c \in capabilities, op \in {"update", "remove"} :
       Begin(r, op, [NewReq EXCEPT !.pc = "resolved", !.name = c.name, !.row = c.id])
  /\ UNCHANGED stores

\* By id; the new name may be taken, or the row gone (404).
UpdateCapability(r) ==
  /\ At(r, "update", "resolved")
  /\ \E tool \in Tools, name \in Names :
       LET left == {c \in capabilities : c.id = requests[r].row /\ ~Taken(c.agent, tool, c.id)}
       IN  /\ capabilities' = (capabilities \ left) \cup
                {[c EXCEPT !.name = tool, !.uses = name] : c \in left}
           /\ requests' = [requests EXCEPT ![r].pc = "done", ![r].ok = left # {}]
  /\ UNCHANGED <<entries, asks, waiting>>

Resolved(r) == {c \in capabilities : c.id = requests[r].row}

RemoveCapability(r) ==
  /\ At(r, "remove", "resolved")
  /\ capabilities' = capabilities \ Resolved(r)
  /\ requests' = [requests EXCEPT ![r].pc = "done", ![r].ok = TRUE]
  /\ UNCHANGED <<entries, asks, waiting>>

(***************************************************************************)
(* Those who read.                                                         *)
(***************************************************************************)
\* A run has loaded its agent's capabilities and will call one of them.
LoadCapability(r) ==
  /\ \E c \in capabilities :
       Begin(r, "use", [NewReq EXCEPT !.pc = "loaded", !.agent = c.agent, !.name = c.uses])
  /\ UNCHANGED stores

\* execute_capability: the agent's own credential or the tenant's; without one
\* the call fails.
FetchCredential(r) ==
  /\ At(r, "use", "loaded")
  /\ LET found == ByName(requests[r].name, requests[r].agent)
     IN  \/ \E e \in found : requests' = [requests EXCEPT ![r].pc = "read", ![r].seen = e.value]
         \/ found = {} /\ requests' = [requests EXCEPT ![r].pc = "done"]
  /\ UNCHANGED stores

\* An LLM or a Slack client, with the tenant's credential.
ReadValue(r) ==
  /\ \E name \in Names : \E e \in ByName(name, None) :
       Begin(r, "use", [NewReq EXCEPT !.pc = "read", !.name = name, !.seen = e.value])
  /\ UNCHANGED stores

SendRequest(r) == At(r, "use", "read") /\ Finish(r) /\ UNCHANGED stores

Next ==
  \/ Expire
  \/ \E r \in Requests :
       \/ Stop(r)
       \/ SetCredential(r) \/ FindCredential(r) \/ Rotate(r) \/ Delete(r)
       \/ CleanUp(r) \/ StartInstall(r) \/ AskUser(r)
       \/ ReadAsk(r) \/ LookupExisting(r) \/ StoreToken(r) \/ MarkCompleted(r) \/ ResumeRun(r)
       \/ CreateCapability(r) \/ ResolveCapability(r) \/ UpdateCapability(r) \/ RemoveCapability(r)
       \/ LoadCapability(r) \/ FetchCredential(r) \/ ReadValue(r) \/ SendRequest(r)

Spec == Init /\ [][Next]_vars

(***************************************************************************)
(* Properties.                                                             *)
(***************************************************************************)
\* A value that was rotated, deleted or replaced by a new token is out of use:
\* no call that came after the acknowledgement is made with it, whatever rows of
\* the same name there are and whoever else was writing them.
RetiredStaysRetired ==
  \A u \in Requests : requests[u].op = "use" /\ requests[u].seen # 0 =>
    \A q \in Accepted("rotate") \cup Accepted("delete") \cup Accepted("callback") :
      q \in requests[u].before => requests[q].seen # requests[u].seen

\* A completed authorization has left a credential behind, under the name that the
\* callback which completed it stores, unless somebody was deleting that credential
\* at the time or did so later: no failure in between burns the state token and
\* loses what it was for. (That name need not be the one the request was made
\* for: neither callback looks at the provider.)
CompletedMeansStored ==
  \A x \in asks : x.by # None =>
    LET name == requests[x.by].name
    IN  \/ Level(name, None) # {}
        \/ \E d \in Accepted("delete") : /\ requests[d].name = name
                                         /\ d \notin requests[x.by].before

\* A state token is worth one authorization: two callbacks for it get through
\* only when they overlapped.
AnsweredOnce ==
  \A q, r \in Accepted("callback") :
    q # r /\ requests[q].ask = requests[r].ask => q \notin requests[r].before
=============================================================================
