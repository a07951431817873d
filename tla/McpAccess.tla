----------------------------- MODULE McpAccess -----------------------------
(***************************************************************************)
(* Who may talk to an agent through MCP: identities, setup codes, client   *)
(* registrations and their tokens, and the conversations behind the chat   *)
(* tool (server/mcp, server/admin_api/mcp_identities.rs).                  *)
(*                                                                         *)
(* Every request is a sequence of statements, each on a connection of its  *)
(* own request, so that requests interleave between them and may stop      *)
(* after any; reads that follow each other directly are one step, and a    *)
(* request refused by them changes nothing and is left out.  Setup codes,  *)
(* tokens, registrations and conversations are random values, each named   *)
(* by the request that made it.                                            *)
(*                                                                         *)
(* Not modelled: other tenants (a code or a token is found in one store);  *)
(* HTML, JSON-RPC framing and SSE; the agent loop behind a message; the    *)
(* memory tool, which only reads (Memory's Search).                        *)
(***************************************************************************)
EXTENDS Integers, FiniteSetsExt

CONSTANTS
  Requests,      \* requests, numbered as they come in
  Identities,    \* MCP identities an admin may create
  Clients,       \* OAuth clients that may register
  Agents,        \* agents an identity may be bound to
  People,        \* persons an identity may be mapped to
  Names,         \* names of identities, as users; two identities may share one
  MaxInFlight,   \* bound: requests that run at the same time
  None           \* no person, no binding, nothing yet

ASSUME RequestsAssumption == Requests \subseteq Nat \ {0} /\ MaxInFlight \in Nat
ASSUME NoneAssumption == None \notin Requests \cup Identities \cup People \cup Names \cup Agents

VARIABLES
  clients,         \* mcp_oauth_clients: who has registered
  identities,      \* mcp_identities
  codes,           \* mcp_setup_codes
  registrations,   \* mcp_client_registrations
  conversations,   \* conversations of surface "mcp"
  messages,        \* what was said: history, for the properties
  requests         \* the requests and their locals

vars == <<clients, identities, codes, registrations, conversations, messages, requests>>
stores == <<clients, identities, codes, registrations, conversations, messages>>

Done == {r \in Requests : requests[r].pc = "done"}
Waiting == {r \in Requests : requests[r].pc = "new"}
InFlight == Requests \ (Done \cup Waiting)
Accepted(op) == {r \in Done : requests[r].op = op /\ requests[r].ok}

NewIdentity == [status |-> "absent", name |-> None, person |-> None, agent |-> None]
NewReq == [pc |-> "new", op |-> "none", ok |-> FALSE, identity |-> None, client |-> None,
           from |-> 0, row |-> 0, todo |-> {}, user |-> None, agent |-> None,
           shown |-> {}, missed |-> {}, before |-> {}]

Init ==
  /\ clients = {}
  /\ identities = [i \in Identities |-> NewIdentity]
  /\ codes = {} /\ registrations = {} /\ conversations = {} /\ messages = {}
  /\ requests = [r \in Requests |-> NewReq]

(***************************************************************************)
(* Requests of one statement.                                              *)
(***************************************************************************)
RegisterClient(c) ==
  /\ clients' = clients \cup {c}
  /\ UNCHANGED <<identities, codes, registrations, conversations, messages, requests>>

\* The agent, when one is named, is a current one; an identity keeps its binding
\* and its name, which another may have as well.
CreateIdentity(i) ==
  /\ identities[i].status = "absent"
  /\ \E a \in Agents \cup {None}, n \in Names :
       identities' = [identities EXCEPT ![i].status = "active", ![i].name = n, ![i].agent = a]
  /\ UNCHANGED <<clients, codes, registrations, conversations, messages, requests>>

\* map_person and unmap_person: whatever the status is.
MapPerson(i) ==
  /\ identities[i].status # "absent"
  /\ \E p \in People \cup {None} : identities' = [identities EXCEPT ![i].person = p]
  /\ UNCHANGED <<clients, codes, registrations, conversations, messages, requests>>

\* Time passes: a code is older than a day, a registration's token than its term.
Expire ==
  /\ \/ \E c \in codes : /\ codes' = (codes \ {c}) \cup {[c EXCEPT !.valid = FALSE]}
                         /\ UNCHANGED registrations
     \/ \E g \in registrations :
          /\ registrations' = (registrations \ {g}) \cup {[g EXCEPT !.expired = TRUE]}
          /\ UNCHANGED codes
  /\ UNCHANGED <<clients, identities, conversations, messages, requests>>

(***************************************************************************)
(* Requests of several statements.                                         *)
(***************************************************************************)
MayCome(r) ==
  /\ r \in Waiting /\ \A q \in Waiting : r <= q
  /\ Cardinality(InFlight) < MaxInFlight

\* Request r comes and makes its first read, with the locals x.
Begin(r, op, x) ==
  /\ MayCome(r)
  /\ requests' = [requests EXCEPT ![r] = [x EXCEPT !.op = op, !.before = Done]]
  /\ UNCHANGED stores

At(r, op, pc) == requests[r].op = op /\ requests[r].pc = pc
Goto(r, pc) == requests' = [requests EXCEPT ![r].pc = pc]

\* The answer, which shows some conversations; locals that no property looks at
\* are dropped.
Answer(r, shown) ==
  requests' = [requests EXCEPT ![r] = [@ EXCEPT !.pc = "done", !.ok = TRUE, !.row = 0, !.client = None,
                                         !.todo = {}, !.shown = shown]]
Finish(r) == Answer(r, {})
Fail(r) == requests' = [requests EXCEPT ![r] = [NewReq EXCEPT !.pc = "done"]]

\* A statement fails, or the process ends: what was written stays.
Stop(r) == r \in InFlight /\ Fail(r) /\ UNCHANGED stores

\* reissue_setup_code
CheckActive(r) ==
  \E i \in Identities :
    /\ identities[i].status = "active"
    /\ Begin(r, "reissue", [NewReq EXCEPT !.pc = "active", !.identity = i])

\* Mutant of RetireCodes: it is left out.
KeepCodes(r) ==
  /\ At(r, "reissue", "active") /\ Goto(r, "retired") /\ UNCHANGED stores

RetireCodes(r) ==
  /\ At(r, "reissue", "active")
  /\ codes' = {[c EXCEPT !.valid = @ /\ c.identity # requests[r].identity] : c \in codes}
  /\ Goto(r, "retired")
  /\ UNCHANGED <<clients, identities, registrations, conversations, messages>>

NewCode(r) == [id |-> r, identity |-> requests[r].identity, valid |-> TRUE]

CreateCode(r) ==
  /\ At(r, "reissue", "retired")
  /\ codes' = codes \cup {NewCode(r)}
  /\ Finish(r)
  /\ UNCHANGED <<clients, identities, registrations, conversations, messages>>

\* revoke_mcp_identity: the identity first, then what a list shows of its
\* registrations, one by one; an error there is ignored (and noted in "missed",
\* for the properties).
OpenStore(r) ==
  \E i \in Identities :
    /\ identities[i].status # "absent"
    /\ Begin(r, "revoke", [NewReq EXCEPT !.pc = "resolved", !.identity = i])

RevokeIdentity(r) ==
  /\ At(r, "revoke", "resolved")
  /\ identities' = [identities EXCEPT ![requests[r].identity].status = "revoked"]
  /\ Goto(r, "revoked")
  /\ UNCHANGED <<clients, codes, registrations, conversations, messages>>

ListRegistrations(r) ==
  /\ At(r, "revoke", "revoked")
  /\ LET found == {g \in registrations : g.identity = requests[r].identity /\ ~g.revoked}
     IN  requests' = [requests EXCEPT ![r].pc = "listed", ![r].todo = {g.id : g \in found}]
  /\ UNCHANGED stores

RevokeRegistration(r) ==
  /\ At(r, "revoke", "listed") /\ requests[r].todo # {}
  /\ \E id \in requests[r].todo :
       \/ /\ registrations' = {[g EXCEPT !.revoked = @ \/ g.id = id] : g \in registrations}
          /\ requests' = [requests EXCEPT ![r].todo = @ \ {id}]
       \/ /\ requests' = [requests EXCEPT ![r].todo = @ \ {id}, ![r].missed = @ \cup {id}]
          /\ UNCHANGED registrations
  /\ UNCHANGED <<clients, identities, codes, conversations, messages>>

RevokeAnswers(r) ==
  /\ At(r, "revoke", "listed") /\ requests[r].todo = {}
  /\ Finish(r)
  /\ UNCHANGED stores

\* authorize_submit: a registered client, and a code that get_valid_by_hash finds.
FindCode(r) ==
  \E c \in codes, client \in clients :
    /\ c.valid
    /\ Begin(r, "submit", [NewReq EXCEPT !.pc = "found", !.from = c.id,
                                         !.identity = c.identity, !.client = client])

MarkUsed(r) ==
  /\ At(r, "submit", "found")
  /\ codes' = {[c EXCEPT !.valid = @ /\ c.id # requests[r].from] : c \in codes}
  /\ Goto(r, "marked")
  /\ UNCHANGED <<clients, identities, registrations, conversations, messages>>

\* get_by_client_id: an unrevoked row only.
LookupOld(r) ==
  /\ At(r, "submit", "marked")
  /\ LET old == {g \in registrations : g.client = requests[r].client /\ ~g.revoked}
     IN  requests' = [requests EXCEPT ![r].pc = "looked", ![r].todo = {g.id : g \in old}]
  /\ UNCHANGED stores

\* An error of the DELETE is ignored.
DeleteOld(r) ==
  /\ At(r, "submit", "looked")
  /\ \E deleted \in BOOLEAN :
       registrations' = {g \in registrations : ~(deleted /\ g.id \in requests[r].todo)}
  /\ Goto(r, "cleared")
  /\ UNCHANGED <<clients, identities, codes, conversations, messages>>

\* The authorization code takes the place of the access token; client_id is UNIQUE.
Taken(c) == \E g \in registrations : g.client = c
NewRegistration(r) ==
  [id |-> r, identity |-> requests[r].identity, client |-> requests[r].client,
   access |-> r, refresh |-> None, expired |-> FALSE, revoked |-> FALSE]

CreateRegistration(r) ==
  /\ At(r, "submit", "cleared")
  /\ IF Taken(requests[r].client)
       THEN Fail(r) /\ UNCHANGED registrations
       ELSE registrations' = registrations \cup {NewRegistration(r)} /\ Finish(r)
  /\ UNCHANGED <<clients, identities, codes, conversations, messages>>

\* get_by_access_token_hash and get_by_refresh_token_hash
WithAccess(q) == {g \in registrations : g.access = q /\ ~g.revoked}
WithRefresh(q) == {g \in registrations : g.refresh = q /\ ~g.revoked}

\* What clients have been handed: authorization codes, and tokens.
Rotations == Accepted("exchange") \cup Accepted("refresh")
HandedOut == Accepted("submit") \cup Rotations

\* exchange_code: the registration is found by the hash of its access token,
\* whose place the code has until it is exchanged, so that a live access token
\* passes for a code; it must not be old, and secret, redirect URI and verifier match.
ReadGrant(r) ==
  \E q \in HandedOut : \E g \in WithAccess(q) :
    /\ ~g.expired
    /\ Begin(r, "exchange", [NewReq EXCEPT !.pc = "granted", !.from = q, !.row = g.id])

\* refresh_token: whatever the access token's age; an identity that is not active
\* is refused only if it can be read.
ReadRefresh(r) ==
  \E q \in Rotations : \E g \in WithRefresh(q), read \in BOOLEAN :
    /\ read => identities[g.identity].status = "active"
    /\ Begin(r, "refresh", [NewReq EXCEPT !.pc = "granted", !.from = q, !.row = g.id])

\* Mutants of Rotated: the refresh token is kept; the row is written as it was read.
KeepRefresh(g, r) ==
  [g EXCEPT !.access = r, !.refresh = IF @ = None THEN r ELSE @, !.expired = FALSE]
WriteBack(g, r) == [g EXCEPT !.access = r, !.refresh = r, !.expired = FALSE, !.revoked = FALSE]

Rotated(g, r) == [g EXCEPT !.access = r, !.refresh = r, !.expired = FALSE]

\* update_tokens: by id, whatever has become of the row.
UpdateTokens(r) ==
  /\ requests[r].pc = "granted"
  /\ registrations' = {IF g.id = requests[r].row THEN Rotated(g, r) ELSE g : g \in registrations}
  /\ Finish(r)
  /\ UNCHANGED <<clients, identities, codes, conversations, messages>>

\* validate_session: the token may be an authorization code, which is in its place.
Sessions(q) == {g \in WithAccess(q) : ~g.expired /\ identities[g.identity].status = "active"}

BoundTo(i) == IF identities[i].agent = None THEN Agents ELSE {identities[i].agent}
UserOf(i) == IF identities[i].person = None THEN identities[i].name ELSE identities[i].person

\* The session, the agent its identity may be bound to, and the conversation asked for.
OpenSession(r) ==
  \E q \in HandedOut, v \in {x.id : x \in conversations} \cup {0} :
    \E g \in Sessions(q) : \E a \in BoundTo(g.identity) :
      Begin(r, "chat", [NewReq EXCEPT !.pc = "session", !.from = q, !.row = v, !.agent = a,
                          !.user = UserOf(g.identity)])

\* list_by_user_and_agent
OwnConversations(r) == {v \in conversations : v.agent = requests[r].agent /\ v.user = requests[r].user}

\* The tool list_conversations.
ListConversations(r) ==
  /\ At(r, "chat", "session")
  /\ Answer(r, OwnConversations(r))
  /\ UNCHANGED stores

\* Mutant of Scoped: Conversation::get.
ById(r) == {v \in conversations : v.id = requests[r].row}

\* get_by_id_scoped
Scoped(r) == {v \in conversations : /\ v.id = requests[r].row /\ v.agent = requests[r].agent
                                    /\ v.user = requests[r].user}

\* A conversation that is not the user's own is passed over for a new one.
ResolveConversation(r) ==
  /\ At(r, "chat", "session")
  /\ IF Scoped(r) # {}
       THEN Goto(r, "talking") /\ UNCHANGED conversations
       ELSE /\ conversations' = conversations \cup
                 {[id |-> r, agent |-> requests[r].agent, user |-> requests[r].user]}
            /\ requests' = [requests EXCEPT ![r].pc = "talking", ![r].row = r]
  /\ UNCHANGED <<clients, identities, codes, registrations, messages>>

\* The agent loop appends the message and its answer.
RunLoop(r) ==
  /\ At(r, "chat", "talking")
  /\ messages' = messages \cup {[conversation |-> requests[r].row, by |-> r]}
  /\ Finish(r)
  /\ UNCHANGED <<clients, identities, codes, registrations, conversations>>

\* token, by its grant type.
Token(r) == ReadGrant(r) \/ ReadRefresh(r)

\* tools/call, by the tool's name.
CallTool(r) == ListConversations(r) \/ ResolveConversation(r)

\* MayCome is what all of them ask for; it is tested first.
Comes(r) ==
  MayCome(r) /\ (CheckActive(r) \/ OpenStore(r) \/ FindCode(r) \/ Token(r) \/ OpenSession(r))

Continues(r) ==
  \/ Stop(r)
  \/ RetireCodes(r) \/ CreateCode(r)
  \/ RevokeIdentity(r) \/ ListRegistrations(r) \/ RevokeRegistration(r) \/ RevokeAnswers(r)
  \/ MarkUsed(r) \/ LookupOld(r) \/ DeleteOld(r) \/ CreateRegistration(r)
  \/ UpdateTokens(r)
  \/ CallTool(r) \/ RunLoop(r)

Step(r) == Comes(r) \/ Continues(r)

Next ==
  \/ \E c \in Clients : RegisterClient(c)
  \/ \E i \in Identities : CreateIdentity(i) \/ MapPerson(i)
  \/ Expire
  \/ \E r \in Requests : Step(r)

Spec == Init /\ [][Next]_vars

(***************************************************************************)
(* Properties.                                                             *)
(***************************************************************************)
\* What was spent is worth nothing: a setup code admits one client, and once an
\* exchange or a refresh was acknowledged, what it was made with, be it an
\* authorization code, an access or a refresh token, gets no later request
\* anything: no tokens, and no session either (until it is exchanged, an
\* authorization code opens sessions like an access token).  Two requests share
\* one only when they overlap, each reading before the other wrote.
SpentOnce ==
  LET Again(q, r) == q # r /\ requests[q].from = requests[r].from /\ q \in requests[r].before IN
    /\ \A q, r \in Accepted("submit") : ~Again(q, r)
    /\ \A q \in Rotations, r \in Requests :
         requests[r].op \in {"exchange", "refresh", "chat"} => ~Again(q, r)

\* Reissuing retires what was handed out: no client gets in with a code that an
\* acknowledged reissue for its identity had retired before the client came.
ReissueRetires ==
  \A r \in Accepted("submit"), q \in Accepted("reissue") :
    LET code == requests[r].from IN
      ~ /\ requests[q].identity = requests[code].identity
        /\ code \in requests[q].before /\ q \in requests[r].before

\* A revocation reaches every client: once it is acknowledged, no registration of
\* the identity that was acknowledged before it came is usable again, whichever
\* registration, exchange or refresh it raced with and whatever they wrote since,
\* except one whose own UPDATE failed, which the code ignores.
RevocationReaches ==
  \A q \in Accepted("revoke"), g \in registrations :
    g.identity = requests[q].identity /\ g.id \in requests[q].before
      => g.revoked \/ g.id \in requests[q].missed

\* A conversation stays between one user and one agent: all that is said in it
\* comes from sessions of the user and the agent it was opened for, and is listed
\* to that user only, however the identities are mapped to persons meanwhile.
ConversationsStayApart ==
  \A m \in messages : \E v \in conversations :
    /\ v.id = m.conversation
    /\ v.user = requests[m.by].user /\ v.agent = requests[m.by].agent
    /\ \A r \in Requests : v \in requests[r].shown => requests[r].user = v.user
=============================================================================
