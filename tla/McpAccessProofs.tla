-------------------------- MODULE McpAccessProofs --------------------------
(***************************************************************************)
(* Theorems of McpAccess, for any number of requests, identities, clients, *)
(* agents and persons, however the requests overlap and wherever they stop.*)
(*                                                                         *)
(* The argument: a code or a token names the request that made it, and a   *)
(* request saw as over only what is over.  What a request has spent is in  *)
(* no valid row from then on, since new rows are named by requests that    *)
(* are under way; so whoever comes later does not find it.                 *)
(***************************************************************************)
EXTENDS McpAccess, TLAPS

Ops == {"none", "reissue", "revoke", "submit", "exchange", "refresh", "chat"}

Labels ==
  {"new", "active", "retired", "resolved", "revoked", "listed", "found", "marked", "looked",
   "cleared", "granted", "session", "talking", "done"}

Users == Names \cup People

IdentityRecords ==
  [status : {"absent", "active", "revoked"}, name : Names \cup {None}, person : People \cup {None}, agent : Agents \cup {None}]
CodeRecords == [id : Requests, identity : Identities, valid : BOOLEAN]
RegistrationRecords ==
  [id : Requests, identity : Identities, client : Clients, access : Requests,
   refresh : Requests \cup {None}, expired : BOOLEAN, revoked : BOOLEAN]
ConversationRecords == [id : Requests, agent : Agents, user : Users]
RequestRecords ==
  [pc : Labels, op : Ops, ok : BOOLEAN, identity : Identities \cup {None},
   client : Clients \cup {None}, from : Nat, row : Nat, todo : SUBSET Nat,
   user : Users \cup {None}, agent : Agents \cup {None},
   shown : SUBSET ConversationRecords, missed : SUBSET Nat, before : SUBSET Requests]

TablesOK ==
  /\ clients \subseteq Clients
  /\ identities \in [Identities -> IdentityRecords]
  /\ \A i \in Identities : identities[i].status = "active" => identities[i].name # None
  /\ codes \subseteq CodeRecords
  /\ registrations \subseteq RegistrationRecords
  /\ conversations \subseteq ConversationRecords
  /\ messages \subseteq [conversation : Nat, by : Requests]

\* What the program counter says of the other locals of a request.
Placed(x) ==
  /\ x.pc = "new" => x.op = "none"
  /\ x.ok => x.pc = "done"
  /\ x.pc = "done" /\ x.op # "none" => x.ok
  /\ x.op # "chat" => x.user = None
  /\ x.pc \in {"active", "retired"} => x.op = "reissue"
  /\ x.pc \in {"found", "marked", "looked", "cleared"} => x.op = "submit"
  /\ x.pc = "granted" => x.op \in {"exchange", "refresh"}
  /\ x.pc \in {"session", "talking"} => x.op = "chat"
  /\ x.op \in {"reissue", "submit"} => x.identity \in Identities
  /\ x.op = "submit" => x.pc = "done" \/ x.client \in Clients
  /\ x.op = "chat" => x.user \in Users /\ x.agent \in Agents

TypeOK == TablesOK /\ requests \in [Requests -> RequestRecords]

Placements == \A r \in Requests : Placed(requests[r])

Typed == TypeOK /\ Placements

(***************************************************************************)
(* A request takes a step: its locals become y, those of the others stay.  *)
(***************************************************************************)
Moves(r, y) ==
  /\ requests[r].pc # "done" /\ y \in RequestRecords /\ Placed(y)
  /\ requests'[r] = y /\ \A q \in Requests \ {r} : requests'[q] = requests[q]

LEMMA MovesTyped ==
  ASSUME Typed, NEW r \in Requests, NEW y \in RequestRecords, Placed(y), requests[r].pc # "done",
         requests' = [requests EXCEPT ![r] = y]
  PROVE  Moves(r, y) /\ requests' \in [Requests -> RequestRecords] /\ Placements'
BY DEF Typed, TypeOK, Placements, Moves

LEMMA NewReqTyped == NewReq \in RequestRecords /\ Placed(NewReq)
<1>1. NewReq \in RequestRecords
  BY DEF NewReq, RequestRecords, Labels, Ops
<1>2. Placed(NewReq)
  BY DEF NewReq, Placed
<1>3. QED
  BY <1>1, <1>2

(***************************************************************************)
(* The invariant.                                                          *)
(***************************************************************************)
Op(op) == {r \in Requests : requests[r].op = op}

\* What a request saw as over when it came is over.
Past == \A r \in Requests : requests[r].before \subseteq Done

\* Codes: each comes from an acknowledged reissue, is invalid once a client has
\* marked it, and once a later reissue for its identity has retired it.
CodesReissued == \A c \in codes : c.id \in Accepted("reissue") /\ c.identity = requests[c.id].identity
SubmitsFound == \A r \in Op("submit") : requests[r].from \in Accepted("reissue")
CodesMarked ==
  \A r \in Op("submit") : requests[r].pc # "found" =>
    \A c \in codes : c.id = requests[r].from => ~c.valid
CodesRetired ==
  \A q \in Op("reissue") : requests[q].pc # "active" =>
    \A c \in codes : c.identity = requests[q].identity /\ c.id \in requests[q].before => ~c.valid
RetiredUnused ==
  \A r \in Op("submit"), q \in Accepted("reissue") :
    LET code == requests[r].from
    IN  ~ /\ requests[q].identity = requests[code].identity
          /\ code \in requests[q].before /\ q \in requests[r].before
CodesOnce ==
  \A r \in Op("submit"), q \in Accepted("submit") :
    q # r /\ requests[q].from = requests[r].from => q \notin requests[r].before

CodeInv ==
  CodesReissued /\ SubmitsFound /\ CodesMarked /\ CodesRetired /\ RetiredUnused /\ CodesOnce

\* Tokens: the access token of a registration is its authorization code, the
\* request that made it, until an exchange or refresh gives it a pair of tokens,
\* both named by that request; a token is in one registration.
TokensNamed ==
  \A g \in registrations :
    /\ g.id \in Accepted("submit")
    /\ \/ g.access = g.id /\ g.refresh = None
       \/ g.access \in Rotations /\ g.refresh = g.access
AccessUnique == \A g, h \in registrations : g.access = h.access => g.id = h.id
GrantsFound ==
  \A r \in Op("exchange") \cup Op("refresh") :
    /\ requests[r].from \in HandedOut
    /\ requests[r].pc = "granted" =>
         \A g \in registrations : g.access = requests[r].from => g.id = requests[r].row
TokensSpent == \A q \in Rotations, g \in registrations : g.access # requests[q].from
Presents == Op("exchange") \cup Op("refresh") \cup Op("chat")
TokensOnce ==
  \A q \in Rotations, r \in Presents :
    q # r /\ requests[q].from = requests[r].from => q \notin requests[r].before

TokenInv == TokensNamed /\ AccessUnique /\ GrantsFound /\ TokensSpent /\ TokensOnce

\* A revocation: what it lists and could flag is flagged, and what was there when
\* it came is listed.
Reached(r, g) == g.identity = requests[r].identity /\ g.id \in requests[r].before
ReachInv ==
  \A r \in Op("revoke"), g \in registrations : Reached(r, g) =>
    /\ requests[r].pc = "listed" => g.revoked \/ g.id \in requests[r].todo \cup requests[r].missed
    /\ requests[r].pc = "done" => g.revoked \/ g.id \in requests[r].missed

\* Conversations: a session talks in one of its own and is shown its own.
Owned(v, r) == v.user = requests[r].user /\ v.agent = requests[r].agent
TalksInOwn ==
  \A r \in Requests : requests[r].pc = "talking" =>
    \E v \in conversations : v.id = requests[r].row /\ Owned(v, r)
ShownOwn == \A r \in Requests : \A v \in requests[r].shown : Owned(v, r)
SaidInOwn ==
  \A m \in messages :
    /\ m.by \in Done
    /\ \E v \in conversations : v.id = m.conversation /\ Owned(v, m.by)

TalkInv == TalksInOwn /\ ShownOwn /\ SaidInOwn

IInv == Typed /\ Past /\ CodeInv /\ TokenInv /\ ReachInv /\ TalkInv

(***************************************************************************)
(* Types: how each step moves its request.                                 *)
(***************************************************************************)
LEMMA InitIInv == Init => IInv
<1> SUFFICES ASSUME Init PROVE IInv
  OBVIOUS
<1>1. requests \in [Requests -> RequestRecords] /\ \A r \in Requests : requests[r] = NewReq
  BY NewReqTyped DEF Init
<1>2. /\ identities \in [Identities -> IdentityRecords]
      /\ \A i \in Identities : identities[i].status # "active"
  BY DEF Init, NewIdentity, IdentityRecords
<1>3. Typed
  BY <1>1, <1>2, NewReqTyped DEF Init, Typed, TypeOK, TablesOK, Placements
<1>4. \A r \in Requests : requests[r].pc = "new" /\ requests[r].op = "none"
      /\ requests[r].before = {} /\ requests[r].shown = {} /\ requests[r].user = None
  BY <1>1 DEF NewReq
<1>5. Past
  BY <1>4 DEF Past
<1>6. \A op \in Ops \ {"none"} : Op(op) = {} /\ Accepted(op) = {}
  BY <1>4 DEF Op, Accepted, Done
<1>7. CodeInv
  BY <1>6 DEF Init, Ops, CodeInv, CodesReissued, SubmitsFound, CodesMarked, CodesRetired, RetiredUnused, CodesOnce
<1>8. TokenInv /\ ReachInv
  BY <1>6 DEF Init, Ops, TokenInv, TokensNamed, AccessUnique, GrantsFound, TokensSpent, TokensOnce, ReachInv, Presents, Rotations
<1>9. TalkInv
  BY <1>4 DEF Init, TalkInv, TalksInOwn, ShownOwn, SaidInOwn
<1>10. QED
  BY <1>3, <1>5, <1>7, <1>8, <1>9 DEF IInv

\* What a step does to a request that is under way: it keeps what it is about.
Keeps(y, x) ==
  /\ y.op = x.op /\ y.identity = x.identity /\ y.from = x.from /\ y.user = x.user
  /\ y.agent = x.agent /\ y.before = x.before

LEMMA GotoMoves ==
  ASSUME Typed, NEW r \in Requests, NEW l \in Labels, Goto(r, l), requests[r].pc \notin {"new", "done"},
         Placed([requests[r] EXCEPT !.pc = l])
  PROVE  \E y : /\ Moves(r, y) /\ Keeps(y, requests[r])
                /\ y.pc = l /\ y.row = requests[r].row /\ y.shown = requests[r].shown
                /\ requests' \in [Requests -> RequestRecords] /\ Placements'
<1> DEFINE y == [requests[r] EXCEPT !.pc = l]
<1>1. requests \in [Requests -> RequestRecords] /\ requests[r] \in RequestRecords
  BY DEF Typed, TypeOK
<1>2. y \in RequestRecords /\ requests' = [requests EXCEPT ![r] = y]
  BY <1>1 DEF RequestRecords, Goto
<1>3. /\ Keeps(y, requests[r]) /\ y.pc = l /\ y.row = requests[r].row /\ y.shown = requests[r].shown
  BY <1>1 DEF RequestRecords, Keeps
<1> HIDE DEF y
<1>4. Moves(r, y) /\ requests' \in [Requests -> RequestRecords] /\ Placements'
  BY <1>2, MovesTyped DEF y
<1>5. QED
  BY <1>3, <1>4

LEMMA FailMoves ==
  ASSUME Typed, NEW r \in Requests, Fail(r), requests[r].pc # "done"
  PROVE  \E y : /\ Moves(r, y) /\ y.op = "none" /\ y.pc = "done" /\ y.before = {} /\ y.shown = {}
                /\ requests' \in [Requests -> RequestRecords] /\ Placements'
<1> DEFINE y == [NewReq EXCEPT !.pc = "done"]
<1>1. y \in RequestRecords
  BY NewReqTyped DEF RequestRecords, Labels
<1>2. y.op = "none" /\ y.pc = "done" /\ y.before = {} /\ y.shown = {} /\ Placed(y)
  BY DEF NewReq, Placed
<1>3. requests' = [requests EXCEPT ![r] = y]
  BY DEF Fail
<1> HIDE DEF y
<1>4. Moves(r, y) /\ requests' \in [Requests -> RequestRecords] /\ Placements'
  BY <1>1, <1>2, <1>3, MovesTyped
<1>5. QED
  BY <1>2, <1>4

LEMMA AnswerMoves ==
  ASSUME Typed, NEW r \in Requests, NEW shown \in SUBSET ConversationRecords, Answer(r, shown),
         requests[r].pc \notin {"new", "done"}, requests[r].op # "none"
  PROVE  \E y : /\ Moves(r, y) /\ Keeps(y, requests[r])
                /\ y.pc = "done" /\ y.ok /\ y.shown = shown
                /\ requests' \in [Requests -> RequestRecords] /\ Placements'
<1> DEFINE x == requests[r]
           y == [x EXCEPT !.pc = "done", !.ok = TRUE, !.row = 0, !.client = None,
                          !.todo = {}, !.shown = shown]
<1>1. requests \in [Requests -> RequestRecords] /\ x \in RequestRecords /\ Placed(x)
  BY DEF Typed, TypeOK, Placements
<1>2. y \in RequestRecords /\ requests' = [requests EXCEPT ![r] = y]
  BY <1>1 DEF RequestRecords, Answer, Labels
<1>3. Keeps(y, x) /\ y.pc = "done" /\ y.ok /\ y.shown = shown
  BY <1>1 DEF RequestRecords, Keeps
<1>4. Placed(y)
  BY <1>1 DEF RequestRecords, Placed
<1> HIDE DEF y
<1>5. Moves(r, y) /\ requests' \in [Requests -> RequestRecords] /\ Placements'
  BY <1>1, <1>2, <1>4, MovesTyped
<1>6. QED
  BY <1>3, <1>5

\* The locals y with which r has come, those of x and what Begin adds.
Came(r, y, op, x) ==
  /\ Moves(r, y) /\ y.op = op /\ y.pc = x.pc /\ y.before = Done /\ y.shown = x.shown
  /\ y.identity = x.identity /\ y.from = x.from /\ y.row = x.row /\ y.user = x.user /\ y.agent = x.agent
  /\ requests[r].pc = "new" /\ Typed' /\ UNCHANGED stores

LEMMA BeginCame ==
  ASSUME Typed, NEW r \in Requests, NEW op \in Ops \ {"none"}, NEW x \in RequestRecords, Begin(r, op, x),
         Placed([x EXCEPT !.op = op])
  PROVE  \E y : Came(r, y, op, x)
<1> DEFINE y == [x EXCEPT !.op = op, !.before = Done]
<1>1. Done \subseteq Requests
  BY DEF Done
<1>2. y \in RequestRecords
  BY <1>1 DEF RequestRecords
<1>3. Placed(y)
  BY DEF Placed, RequestRecords
<1>4. requests[r].pc = "new" /\ UNCHANGED stores /\ requests' = [requests EXCEPT ![r] = y]
  BY DEF Begin, MayCome, Waiting
<1>5. /\ y.op = op /\ y.pc = x.pc /\ y.before = Done /\ y.shown = x.shown
      /\ y.identity = x.identity /\ y.from = x.from /\ y.row = x.row /\ y.user = x.user /\ y.agent = x.agent
  BY DEF RequestRecords
<1> HIDE DEF y
<1>6. Moves(r, y) /\ requests' \in [Requests -> RequestRecords] /\ Placements'
  BY <1>2, <1>3, <1>4, MovesTyped
<1>7. TablesOK'
  BY <1>4 DEF stores, TablesOK, Typed, TypeOK
<1>8. QED
  BY <1>4, <1>5, <1>6, <1>7 DEF Came, Typed, TypeOK

LEMMA CheckActiveMoves ==
  ASSUME Typed, NEW r \in Requests, CheckActive(r)
  PROVE  \E x, y : Came(r, y, "reissue", x) /\ x.pc = "active" /\ x.shown = {} /\ x.user = None
<1>1. PICK i \in Identities : Begin(r, "reissue", [NewReq EXCEPT !.pc = "active", !.identity = i])
  BY DEF CheckActive
<1> DEFINE x == [NewReq EXCEPT !.pc = "active", !.identity = i]
<1>2. /\ x \in RequestRecords /\ x.pc = "active" /\ x.shown = {} /\ x.user = None
      /\ Placed([x EXCEPT !.op = "reissue"])
  BY NewReqTyped DEF RequestRecords, Labels, NewReq, Placed
<1> HIDE DEF x
<1>3. \E y : Came(r, y, "reissue", x)
  BY <1>1, <1>2, BeginCame DEF Ops, x
<1>4. QED
  BY <1>2, <1>3

LEMMA OpenStoreMoves ==
  ASSUME Typed, NEW r \in Requests, OpenStore(r)
  PROVE  \E x, y : Came(r, y, "revoke", x) /\ x.pc = "resolved" /\ x.shown = {} /\ x.user = None
<1>1. PICK i \in Identities : Begin(r, "revoke", [NewReq EXCEPT !.pc = "resolved", !.identity = i])
  BY DEF OpenStore
<1> DEFINE x == [NewReq EXCEPT !.pc = "resolved", !.identity = i]
<1>2. /\ x \in RequestRecords /\ x.pc = "resolved" /\ x.shown = {} /\ x.user = None
      /\ Placed([x EXCEPT !.op = "revoke"])
  BY NewReqTyped DEF RequestRecords, Labels, NewReq, Placed
<1> HIDE DEF x
<1>3. \E y : Came(r, y, "revoke", x)
  BY <1>1, <1>2, BeginCame DEF Ops, x
<1>4. QED
  BY <1>2, <1>3

LEMMA FindCodeMoves ==
  ASSUME Typed, NEW r \in Requests, FindCode(r)
  PROVE  \E c \in codes : \E x, y :
           /\ c.valid /\ Came(r, y, "submit", x)
           /\ x.pc = "found" /\ x.shown = {} /\ x.user = None /\ x.from = c.id
<1>1. PICK c \in codes, client \in clients :
        c.valid /\ Begin(r, "submit", [NewReq EXCEPT !.pc = "found", !.from = c.id,
                                         !.identity = c.identity, !.client = client])
  BY DEF FindCode
<1> DEFINE x == [NewReq EXCEPT !.pc = "found", !.from = c.id, !.identity = c.identity, !.client = client]
<1>2. c.id \in Nat /\ c.identity \in Identities /\ client \in Clients
  BY RequestsAssumption DEF Typed, TypeOK, TablesOK, CodeRecords
<1>3. x \in RequestRecords /\ x.pc = "found" /\ x.shown = {} /\ x.user = None /\ x.from = c.id
  BY <1>2, NewReqTyped DEF RequestRecords, Labels, NewReq
<1>4. Placed([x EXCEPT !.op = "submit"])
  BY <1>2 DEF NewReq, Placed
<1> HIDE DEF x
<1>5. \E y : Came(r, y, "submit", x)
  BY <1>1, <1>3, <1>4, BeginCame DEF Ops, x
<1>6. QED
  BY <1>1, <1>3, <1>5

\* A token is presented: that of request q, found in the registration g.
Granted(q, g) == [NewReq EXCEPT !.pc = "granted", !.from = q, !.row = g.id]

LEMMA GrantMoves ==
  ASSUME Typed, NEW r \in Requests, NEW op \in {"exchange", "refresh"}, NEW q \in Requests,
         NEW g \in registrations, Begin(r, op, Granted(q, g))
  PROVE  \E x, y : /\ Came(r, y, op, x) /\ x.pc = "granted" /\ x.shown = {} /\ x.user = None
                   /\ x.from = q /\ x.row = g.id
<1> DEFINE x == Granted(q, g)
<1>1. g.id \in Nat /\ q \in Nat
  BY RequestsAssumption DEF Typed, TypeOK, TablesOK, RegistrationRecords
<1>2. /\ x \in RequestRecords /\ x.pc = "granted" /\ x.shown = {} /\ x.user = None
      /\ x.from = q /\ x.row = g.id
  BY <1>1, NewReqTyped DEF Granted, RequestRecords, Labels, NewReq
<1>3. Placed([x EXCEPT !.op = op])
  BY <1>1 DEF Granted, NewReq, Placed
<1> HIDE DEF x
<1>4. \E y : Came(r, y, op, x)
  BY <1>2, <1>3, BeginCame DEF Ops, x
<1>5. QED
  BY <1>2, <1>4

LEMMA ReadGrantMoves ==
  ASSUME Typed, NEW r \in Requests, ReadGrant(r)
  PROVE  \E q \in HandedOut : \E x, y : \E g \in WithAccess(q) :
           /\ Came(r, y, "exchange", x) /\ x.pc = "granted" /\ x.shown = {} /\ x.user = None
           /\ x.from = q /\ x.row = g.id
<1>1. PICK q \in HandedOut : \E g \in WithAccess(q) : Begin(r, "exchange", Granted(q, g))
  BY DEF ReadGrant, Granted
<1>2. PICK g \in WithAccess(q) : Begin(r, "exchange", Granted(q, g))
  BY <1>1
<1>3. q \in Requests /\ g \in registrations
  BY DEF HandedOut, Rotations, Accepted, Done, WithAccess
<1>4. \E x, y : /\ Came(r, y, "exchange", x) /\ x.pc = "granted" /\ x.shown = {} /\ x.user = None
                /\ x.from = q /\ x.row = g.id
  BY <1>2, <1>3, GrantMoves
<1>5. QED
  BY <1>4

LEMMA ReadRefreshMoves ==
  ASSUME Typed, NEW r \in Requests, ReadRefresh(r)
  PROVE  \E q \in Rotations : \E x, y : \E g \in WithRefresh(q) :
           /\ Came(r, y, "refresh", x) /\ x.pc = "granted" /\ x.shown = {} /\ x.user = None
           /\ x.from = q /\ x.row = g.id
<1>1. PICK q \in Rotations : \E g \in WithRefresh(q) : Begin(r, "refresh", Granted(q, g))
  BY DEF ReadRefresh, Granted
<1>2. PICK g \in WithRefresh(q) : Begin(r, "refresh", Granted(q, g))
  BY <1>1
<1>3. q \in Requests /\ g \in registrations
  BY DEF Rotations, Accepted, Done, WithRefresh
<1>4. \E x, y : /\ Came(r, y, "refresh", x) /\ x.pc = "granted" /\ x.shown = {} /\ x.user = None
                /\ x.from = q /\ x.row = g.id
  BY <1>2, <1>3, GrantMoves
<1>5. QED
  BY <1>4

LEMMA OpenSessionMoves ==
  ASSUME Typed, NEW r \in Requests, OpenSession(r)
  PROVE  \E q \in HandedOut : \E x, y : \E g \in WithAccess(q) :
           /\ Came(r, y, "chat", x) /\ x.pc = "session" /\ x.shown = {} /\ x.from = q
<1>1. PICK q \in HandedOut, v \in {z.id : z \in conversations} \cup {0} :
        \E g \in Sessions(q) : \E a \in BoundTo(g.identity) :
          Begin(r, "chat", [NewReq EXCEPT !.pc = "session", !.from = q, !.row = v, !.agent = a,
                              !.user = UserOf(g.identity)])
  BY DEF OpenSession
<1>2. PICK g \in Sessions(q) : \E a \in BoundTo(g.identity) :
          Begin(r, "chat", [NewReq EXCEPT !.pc = "session", !.from = q, !.row = v, !.agent = a,
                              !.user = UserOf(g.identity)])
  BY <1>1
<1>3. PICK a \in BoundTo(g.identity) :
          Begin(r, "chat", [NewReq EXCEPT !.pc = "session", !.from = q, !.row = v, !.agent = a,
                              !.user = UserOf(g.identity)])
  BY <1>2
<1> DEFINE i == g.identity
           u == UserOf(g.identity)
           x == [NewReq EXCEPT !.pc = "session", !.from = q, !.row = v, !.agent = a, !.user = u]
<1>4. /\ i \in Identities /\ identities[i] \in IdentityRecords /\ identities[i].status = "active"
      /\ identities[i].name # None /\ g \in WithAccess(q)
  BY DEF Sessions, WithAccess, Typed, TypeOK, TablesOK, RegistrationRecords
<1>5. a \in Agents /\ u \in Users
  BY <1>4 DEF BoundTo, UserOf, IdentityRecords, Users
<1>6. q \in Nat /\ v \in Nat
  <2>1. \A z \in conversations : z.id \in Nat
    BY RequestsAssumption DEF Typed, TypeOK, TablesOK, ConversationRecords
  <2>2. q \in Requests
    BY DEF HandedOut, Rotations, Accepted, Done
  <2>3. QED
    BY <2>1, <2>2, RequestsAssumption
<1>7. Begin(r, "chat", x)
  BY <1>3
<1> HIDE DEF i, u
<1>8. x \in RequestRecords /\ x.pc = "session" /\ x.shown = {} /\ x.from = q
  BY <1>5, <1>6, NewReqTyped DEF RequestRecords, Labels, NewReq
<1>9. Placed([x EXCEPT !.op = "chat"])
  BY <1>5 DEF NewReq, Placed
<1> HIDE DEF x
<1>10. \E y : Came(r, y, "chat", x)
  BY <1>7, <1>8, <1>9, BeginCame DEF Ops
<1>11. QED
  BY <1>4, <1>8, <1>10

(***************************************************************************)
(* Types: the steps that follow.                                           *)
(***************************************************************************)
\* A request that is neither new nor over has an operation.
LEMMA UnderWay ==
  ASSUME Typed, NEW r \in Requests, requests[r].op # "none", ~requests[r].ok
  PROVE  requests[r].pc \notin {"new", "done"}
BY DEF Typed, Placements, Placed

LEMMA StopMoves ==
  ASSUME Typed, NEW r \in Requests, Stop(r)
  PROVE  /\ \E y : Moves(r, y) /\ y.op = "none" /\ y.pc = "done" /\ y.before = {} /\ y.shown = {}
         /\ Typed' /\ UNCHANGED stores
<1>1. Fail(r) /\ UNCHANGED stores /\ requests[r].pc # "done"
  BY DEF Stop, InFlight, Done, Waiting
<1>2. TablesOK'
  BY <1>1 DEF stores, TablesOK, Typed, TypeOK
<1>3. QED
  BY <1>1, <1>2, FailMoves DEF Typed, TypeOK

\* The setup codes.
LEMMA RetireCodesMoves ==
  ASSUME Typed, NEW r \in Requests, RetireCodes(r)
  PROVE  \E y : Moves(r, y) /\ Keeps(y, requests[r]) /\ y.pc = "retired" /\ y.shown = requests[r].shown /\ Typed'
<1>1. requests[r].pc = "active" /\ requests[r].op = "reissue" /\ Goto(r, "retired")
  BY DEF RetireCodes, At
<1>2. Placed([requests[r] EXCEPT !.pc = "retired"]) /\ "retired" \in Labels
  BY <1>1 DEF Typed, TypeOK, Placements, Placed, RequestRecords, Labels
<1>3. codes' \subseteq CodeRecords
  <2> DEFINE Off(c) == [c EXCEPT !.valid = @ /\ c.identity # requests[r].identity]
  <2>1. \A c \in CodeRecords : Off(c) \in CodeRecords
    BY DEF CodeRecords
  <2>2. codes' = {Off(c) : c \in codes}
    BY DEF RetireCodes
  <2> HIDE DEF Off
  <2>3. QED
    BY <2>1, <2>2 DEF Typed, TypeOK, TablesOK
<1>4. TablesOK'
  BY <1>3 DEF RetireCodes, Typed, TypeOK, TablesOK
<1>5. QED
  BY <1>1, <1>2, <1>4, GotoMoves DEF Typed, TypeOK

LEMMA CreateCodeMoves ==
  ASSUME Typed, NEW r \in Requests, CreateCode(r)
  PROVE  \E y : Moves(r, y) /\ Keeps(y, requests[r]) /\ y.pc = "done" /\ y.ok /\ y.shown = {} /\ Typed'
<1>1. requests[r].pc = "retired" /\ requests[r].op = "reissue" /\ Answer(r, {})
  BY DEF CreateCode, At, Finish
<1>2. NewCode(r) \in CodeRecords
  BY <1>1 DEF NewCode, CodeRecords, Typed, Placements, Placed
<1>3. TablesOK'
  BY <1>2 DEF CreateCode, Typed, TypeOK, TablesOK
<1>4. QED
  BY <1>1, <1>3, AnswerMoves DEF Typed, TypeOK

LEMMA MarkUsedMoves ==
  ASSUME Typed, NEW r \in Requests, MarkUsed(r)
  PROVE  \E y : Moves(r, y) /\ Keeps(y, requests[r]) /\ y.pc = "marked" /\ y.shown = requests[r].shown /\ Typed'
<1>1. requests[r].pc = "found" /\ requests[r].op = "submit" /\ Goto(r, "marked")
  BY DEF MarkUsed, At
<1>2. Placed([requests[r] EXCEPT !.pc = "marked"]) /\ "marked" \in Labels
  BY <1>1 DEF Typed, TypeOK, Placements, Placed, RequestRecords, Labels
<1>3. codes' \subseteq CodeRecords
  <2> DEFINE Off(c) == [c EXCEPT !.valid = @ /\ c.id # requests[r].from]
  <2>1. \A c \in CodeRecords : Off(c) \in CodeRecords
    BY DEF CodeRecords
  <2>2. codes' = {Off(c) : c \in codes}
    BY DEF MarkUsed
  <2> HIDE DEF Off
  <2>3. QED
    BY <2>1, <2>2 DEF Typed, TypeOK, TablesOK
<1>4. TablesOK'
  BY <1>3 DEF MarkUsed, Typed, TypeOK, TablesOK
<1>5. QED
  BY <1>1, <1>2, <1>4, GotoMoves DEF Typed, TypeOK

\* The registrations: steps that read, delete and flag.
\* A step that notes the registrations to delete or to revoke.
LEMMA NoteMoves ==
  ASSUME Typed, NEW r \in Requests, NEW l \in {"listed", "looked"}, NEW S \in SUBSET registrations,
         requests' = [requests EXCEPT ![r].pc = l, ![r].todo = {g.id : g \in S}],
         requests[r].pc \notin {"new", "done"}, Placed([requests[r] EXCEPT !.pc = l])
  PROVE  \E y : /\ Moves(r, y) /\ Keeps(y, requests[r]) /\ y.pc = l /\ y.shown = requests[r].shown
                /\ requests' \in [Requests -> RequestRecords] /\ Placements'
<1> DEFINE ids == {g.id : g \in S}
           y == [requests[r] EXCEPT !.pc = l, !.todo = ids]
<1>1. requests \in [Requests -> RequestRecords] /\ requests[r] \in RequestRecords
  BY DEF Typed, TypeOK
<1>2. ids \in SUBSET Nat
  BY RequestsAssumption DEF Typed, TypeOK, TablesOK, RegistrationRecords
<1> HIDE DEF ids
<1>3. y \in RequestRecords /\ requests' = [requests EXCEPT ![r] = y]
  BY <1>1, <1>2 DEF RequestRecords, Labels, ids
<1>4. /\ Keeps(y, requests[r]) /\ y.pc = l /\ y.shown = requests[r].shown
      /\ Placed(y)
  BY <1>1 DEF RequestRecords, Keeps, Placed
<1> HIDE DEF y
<1>5. QED
  BY <1>3, <1>4, MovesTyped

LEMMA ReadingMoves ==
  ASSUME Typed, NEW r \in Requests, ListRegistrations(r) \/ LookupOld(r)
  PROVE  /\ \E y : /\ Moves(r, y) /\ Keeps(y, requests[r]) /\ y.pc \in {"listed", "looked"}
                   /\ y.shown = requests[r].shown
         /\ requests[r].pc \in {"revoked", "marked"} /\ requests[r].op \in {"revoke", "submit"}
         /\ Typed' /\ UNCHANGED stores
<1>1. PICK l \in {"listed", "looked"}, S \in SUBSET registrations :
        /\ requests' = [requests EXCEPT ![r].pc = l, ![r].todo = {g.id : g \in S}]
        /\ \/ requests[r].pc = "revoked" /\ requests[r].op = "revoke" /\ l = "listed"
           \/ requests[r].pc = "marked" /\ requests[r].op = "submit" /\ l = "looked"
  <2>1. CASE ListRegistrations(r)
    <3> DEFINE found == {g \in registrations : g.identity = requests[r].identity /\ ~g.revoked}
    <3>1. /\ requests' = [requests EXCEPT ![r].pc = "listed", ![r].todo = {g.id : g \in found}]
          /\ found \in SUBSET registrations
      BY <2>1 DEF ListRegistrations
    <3>2. requests[r].pc = "revoked" /\ requests[r].op = "revoke"
      BY <2>1 DEF ListRegistrations, At
    <3> HIDE DEF found
    <3>3. QED
      BY <3>1, <3>2
  <2>2. CASE LookupOld(r)
    <3> DEFINE old == {g \in registrations : g.client = requests[r].client /\ ~g.revoked}
    <3>1. /\ requests' = [requests EXCEPT ![r].pc = "looked", ![r].todo = {g.id : g \in old}]
          /\ old \in SUBSET registrations
      BY <2>2 DEF LookupOld
    <3>2. requests[r].pc = "marked" /\ requests[r].op = "submit"
      BY <2>2 DEF LookupOld, At
    <3> HIDE DEF old
    <3>3. QED
      BY <3>1, <3>2
  <2>3. QED
    BY <2>1, <2>2
<1>2. UNCHANGED stores
  BY DEF ListRegistrations, LookupOld
<1>3. Placed([requests[r] EXCEPT !.pc = l])
  BY <1>1 DEF Typed, TypeOK, Placements, Placed, RequestRecords
<1>4. TablesOK'
  BY <1>2 DEF stores, TablesOK, Typed, TypeOK
<1>5. \E y : /\ Moves(r, y) /\ Keeps(y, requests[r]) /\ y.pc = l /\ y.shown = requests[r].shown
             /\ requests' \in [Requests -> RequestRecords] /\ Placements'
  BY <1>1, <1>3, NoteMoves
<1>6. QED
  BY <1>1, <1>2, <1>4, <1>5 DEF Typed, TypeOK

LEMMA RevokeIdentityMoves ==
  ASSUME Typed, NEW r \in Requests, RevokeIdentity(r)
  PROVE  \E y : /\ Moves(r, y) /\ Keeps(y, requests[r]) /\ y.op = "revoke" /\ y.pc = "revoked"
                /\ y.shown = requests[r].shown /\ Typed'
<1>1. requests[r].pc = "resolved" /\ requests[r].op = "revoke" /\ Goto(r, "revoked")
  BY DEF RevokeIdentity, At
<1>2. Placed([requests[r] EXCEPT !.pc = "revoked"]) /\ "revoked" \in Labels
  BY <1>1 DEF Typed, TypeOK, Placements, Placed, RequestRecords, Labels
<1>3. /\ identities' \in [Identities -> IdentityRecords]
      /\ \A i \in Identities : identities'[i].status = "active" => identities'[i].name # None
  BY DEF RevokeIdentity, Typed, TypeOK, TablesOK, IdentityRecords
<1>4. TablesOK'
  BY <1>3 DEF RevokeIdentity, Typed, TypeOK, TablesOK
<1>5. QED
  BY <1>1, <1>2, <1>4, GotoMoves DEF Typed, TypeOK, Keeps

\* What flagging, deleting and expiring do to the registrations.
Thinned(S, T) ==
  S \subseteq RegistrationRecords /\
  \A g \in S : \E h \in T : /\ g.id = h.id /\ g.access = h.access /\ g.refresh = h.refresh
                             /\ g.identity = h.identity /\ (h.revoked => g.revoked)

LEMMA RevokeRegistrationMoves ==
  ASSUME Typed, NEW r \in Requests, RevokeRegistration(r)
  PROVE  /\ \E y : Moves(r, y) /\ Keeps(y, requests[r]) /\ y.op = "revoke" /\ y.shown = requests[r].shown
         /\ Thinned(registrations', registrations) /\ Typed'
<1>0. PICK id \in requests[r].todo :
       \/ /\ registrations' = {[g EXCEPT !.revoked = @ \/ g.id = id] : g \in registrations}
          /\ requests' = [requests EXCEPT ![r].todo = @ \ {id}]
       \/ /\ requests' = [requests EXCEPT ![r].todo = @ \ {id}, ![r].missed = @ \cup {id}]
          /\ UNCHANGED registrations
  BY DEF RevokeRegistration
<1>1. PICK S \in {{}, {id}} :
       \/ /\ registrations' = {[g EXCEPT !.revoked = @ \/ g.id = id] : g \in registrations}
          /\ requests' = [requests EXCEPT ![r].todo = @ \ {id}] /\ S = {}
       \/ /\ requests' = [requests EXCEPT ![r].todo = @ \ {id}, ![r].missed = @ \cup {id}] /\ S = {id}
          /\ UNCHANGED registrations
  BY <1>0
<1> DEFINE y == [requests[r] EXCEPT !.todo = @ \ {id}, !.missed = @ \cup S]
<1>2. requests \in [Requests -> RequestRecords] /\ requests[r] \in RequestRecords /\ Placed(requests[r])
      /\ requests[r].pc = "listed" /\ requests[r].op = "revoke"
  BY DEF Typed, TypeOK, Placements, RevokeRegistration, At
<1>3. y \in RequestRecords /\ requests' = [requests EXCEPT ![r] = y]
  <2>1. id \in Nat
    BY <1>2 DEF RequestRecords
  <2>2. CASE S = {}
    <3>1. requests' = [requests EXCEPT ![r].todo = @ \ {id}] /\ requests[r].missed \cup {} = requests[r].missed
      BY <1>1, <2>2
    <3>2. QED
      BY <1>2, <2>1, <2>2, <3>1 DEF RequestRecords
  <2>3. CASE S = {id}
    BY <1>1, <1>2, <2>1, <2>3 DEF RequestRecords
  <2>4. QED
    BY <2>2, <2>3
<1>4. Keeps(y, requests[r]) /\ y.op = "revoke" /\ y.shown = requests[r].shown /\ Placed(y)
  BY <1>2 DEF RequestRecords, Keeps, Placed
<1> HIDE DEF y
<1>5. Moves(r, y) /\ requests' \in [Requests -> RequestRecords] /\ Placements'
  BY <1>2, <1>3, <1>4, MovesTyped
<1>6. Thinned(registrations', registrations)
  <2> DEFINE Off(g) == [g EXCEPT !.revoked = @ \/ g.id = id]
  <2>1. \A g \in RegistrationRecords :
          /\ Off(g) \in RegistrationRecords /\ Off(g).identity = g.identity /\ (g.revoked => Off(g).revoked)
          /\ Off(g).id = g.id /\ Off(g).access = g.access /\ Off(g).refresh = g.refresh
    BY DEF RegistrationRecords
  <2>2. registrations' = {Off(g) : g \in registrations} \/ UNCHANGED registrations
    BY <1>1
  <2>3. registrations \subseteq RegistrationRecords
    BY DEF Typed, TypeOK, TablesOK
  <2> HIDE DEF Off
  <2>4. QED
    BY <2>1, <2>2, <2>3 DEF Thinned
<1>7. TablesOK'
  BY <1>6 DEF RevokeRegistration, Typed, TypeOK, TablesOK, Thinned
<1>8. QED
  BY <1>4, <1>5, <1>6, <1>7 DEF Typed, TypeOK

LEMMA RevokeAnswersMoves ==
  ASSUME Typed, NEW r \in Requests, RevokeAnswers(r)
  PROVE  /\ \E y : Moves(r, y) /\ Keeps(y, requests[r]) /\ y.op = "revoke" /\ y.shown = {}
         /\ Typed' /\ UNCHANGED stores
<1>1. requests[r].pc = "listed" /\ requests[r].op = "revoke" /\ Answer(r, {}) /\ UNCHANGED stores
  BY DEF RevokeAnswers, At, Finish
<1>2. TablesOK'
  BY <1>1 DEF stores, TablesOK, Typed, TypeOK
<1>3. QED
  BY <1>1, <1>2, AnswerMoves DEF Typed, TypeOK, Keeps

LEMMA DeleteOldMoves ==
  ASSUME Typed, NEW r \in Requests, DeleteOld(r)
  PROVE  /\ \E y : Moves(r, y) /\ Keeps(y, requests[r]) /\ y.pc = "cleared" /\ y.shown = requests[r].shown
         /\ requests[r].pc = "looked" /\ requests[r].op = "submit"
         /\ registrations' \subseteq registrations /\ Typed' /\ UNCHANGED <<codes, conversations, messages>>
<1>1. requests[r].pc = "looked" /\ requests[r].op = "submit" /\ Goto(r, "cleared")
  BY DEF DeleteOld, At
<1>2. Placed([requests[r] EXCEPT !.pc = "cleared"]) /\ "cleared" \in Labels
  BY <1>1 DEF Typed, TypeOK, Placements, Placed, RequestRecords, Labels
<1>3. registrations' \subseteq registrations
  BY DEF DeleteOld
<1>4. TablesOK'
  BY <1>3 DEF DeleteOld, Typed, TypeOK, TablesOK
<1>5. QED
  BY <1>1, <1>2, <1>3, <1>4, GotoMoves DEF Typed, TypeOK, DeleteOld

\* The row may be there already; otherwise it is r's own.
LEMMA CreateRegistrationMoves ==
  ASSUME Typed, NEW r \in Requests, CreateRegistration(r)
  PROVE  /\ requests[r].pc = "cleared" /\ requests[r].op = "submit"
         /\ UNCHANGED <<codes, conversations, messages>> /\ Typed'
         /\ \/ /\ \E y : Moves(r, y) /\ y.op = "none" /\ y.pc = "done" /\ y.before = {} /\ y.shown = {}
               /\ UNCHANGED registrations
            \/ /\ \E y : Moves(r, y) /\ Keeps(y, requests[r]) /\ y.pc = "done" /\ y.ok /\ y.shown = {}
               /\ registrations' = registrations \cup {NewRegistration(r)}
               /\ NewRegistration(r).id = r /\ NewRegistration(r).access = r
               /\ NewRegistration(r).refresh = None
<1>1. requests[r].pc = "cleared" /\ requests[r].op = "submit"
  BY DEF CreateRegistration, At
<1>2. CASE Fail(r) /\ UNCHANGED registrations
  <2>1. TablesOK'
    BY <1>2 DEF CreateRegistration, Typed, TypeOK, TablesOK
  <2>2. QED
    BY <1>1, <1>2, <2>1, FailMoves DEF CreateRegistration, Typed, TypeOK
<1>3. CASE registrations' = registrations \cup {NewRegistration(r)} /\ Finish(r)
  <2>1. NewRegistration(r) \in RegistrationRecords
    BY <1>1 DEF NewRegistration, RegistrationRecords, Typed, Placements, Placed
  <2>2. TablesOK'
    BY <1>3, <2>1 DEF CreateRegistration, Typed, TypeOK, TablesOK
  <2>3. Answer(r, {})
    BY <1>3 DEF Finish
  <2>4. \E y : /\ Moves(r, y) /\ Keeps(y, requests[r]) /\ y.pc = "done" /\ y.ok /\ y.shown = {}
               /\ requests' \in [Requests -> RequestRecords] /\ Placements'
    BY <1>1, <2>3, AnswerMoves
  <2>5. /\ NewRegistration(r).id = r /\ NewRegistration(r).access = r
        /\ NewRegistration(r).refresh = None
    BY DEF NewRegistration
  <2>6. QED
    BY <1>1, <1>3, <2>2, <2>4, <2>5 DEF CreateRegistration, Typed, TypeOK
<1>4. QED
  BY <1>2, <1>3 DEF CreateRegistration

LEMMA UpdateTokensMoves ==
  ASSUME Typed, NEW r \in Requests, UpdateTokens(r)
  PROVE  /\ requests[r].pc = "granted" /\ requests[r].op \in {"exchange", "refresh"}
         /\ \E y : Moves(r, y) /\ Keeps(y, requests[r]) /\ y.pc = "done" /\ y.ok /\ y.shown = {}
         /\ UNCHANGED <<codes, conversations, messages>> /\ Typed'
         /\ \A g \in registrations' :
              \/ g \in registrations /\ g.id # requests[r].row
              \/ \E h \in registrations : /\ g.id = h.id /\ g.id = requests[r].row
                                          /\ g.identity = h.identity /\ g.revoked = h.revoked
                                          /\ g.access = r /\ g.refresh = r
<1>1. requests[r].pc = "granted" /\ requests[r].op \in {"exchange", "refresh"} /\ Answer(r, {})
  BY DEF UpdateTokens, Finish, Typed, Placements, Placed
<1> DEFINE New(g) == IF g.id = requests[r].row THEN Rotated(g, r) ELSE g
<1>2. \A g \in RegistrationRecords :
        /\ Rotated(g, r) \in RegistrationRecords
        /\ Rotated(g, r).id = g.id /\ Rotated(g, r).access = r /\ Rotated(g, r).refresh = r
        /\ Rotated(g, r).identity = g.identity /\ Rotated(g, r).revoked = g.revoked
  BY DEF Rotated, RegistrationRecords
<1>3. registrations' = {New(g) : g \in registrations} /\ registrations \subseteq RegistrationRecords
  BY DEF UpdateTokens, Typed, TypeOK, TablesOK
<1>4. \A g \in registrations :
        /\ New(g) \in RegistrationRecords
        /\ \/ New(g) = g /\ g.id # requests[r].row
           \/ /\ New(g).id = g.id /\ g.id = requests[r].row /\ New(g).access = r /\ New(g).refresh = r
              /\ New(g).identity = g.identity /\ New(g).revoked = g.revoked
  BY <1>2, <1>3
<1> HIDE DEF New
<1>5. /\ registrations' \subseteq RegistrationRecords
      /\ \A g \in registrations' :
           \/ g \in registrations /\ g.id # requests[r].row
           \/ \E h \in registrations : /\ g.id = h.id /\ g.id = requests[r].row
                                       /\ g.identity = h.identity /\ g.revoked = h.revoked
                                       /\ g.access = r /\ g.refresh = r
  BY <1>3, <1>4
<1>6. TablesOK'
  BY <1>5 DEF UpdateTokens, Typed, TypeOK, TablesOK
<1>7. \E y : /\ Moves(r, y) /\ Keeps(y, requests[r]) /\ y.pc = "done" /\ y.ok /\ y.shown = {}
             /\ requests' \in [Requests -> RequestRecords] /\ Placements'
  BY <1>1, AnswerMoves
<1>8. QED
  BY <1>1, <1>5, <1>6, <1>7 DEF UpdateTokens, Typed, TypeOK

\* The tools.
LEMMA ListConversationsMoves ==
  ASSUME Typed, NEW r \in Requests, ListConversations(r)
  PROVE  /\ \E y : /\ Moves(r, y) /\ Keeps(y, requests[r]) /\ y.pc = "done"
                   /\ \A v \in y.shown : Owned(v, r)
         /\ requests[r].op = "chat" /\ Typed' /\ UNCHANGED stores
<1>1. /\ requests[r].pc = "session" /\ requests[r].op = "chat" /\ UNCHANGED stores
      /\ Answer(r, OwnConversations(r))
  BY DEF ListConversations, At
<1>2. OwnConversations(r) \in SUBSET ConversationRecords /\ \A v \in OwnConversations(r) : Owned(v, r)
  BY DEF OwnConversations, Owned, Typed, TypeOK, TablesOK
<1>3. TablesOK'
  BY <1>1 DEF stores, TablesOK, Typed, TypeOK
<1>4. \E y : /\ Moves(r, y) /\ Keeps(y, requests[r])
                /\ y.pc = "done" /\ y.ok /\ y.shown = OwnConversations(r)
                /\ requests' \in [Requests -> RequestRecords] /\ Placements'
  BY <1>1, <1>2, AnswerMoves
<1>5. QED
  BY <1>1, <1>2, <1>3, <1>4 DEF Typed, TypeOK

LEMMA ResolveConversationMoves ==
  ASSUME Typed, NEW r \in Requests, ResolveConversation(r)
  PROVE  /\ requests[r].op = "chat" /\ UNCHANGED <<codes, registrations, messages>> /\ Typed'
         /\ conversations \subseteq conversations'
         /\ \E y : /\ Moves(r, y) /\ Keeps(y, requests[r]) /\ y.pc = "talking"
                   /\ y.shown = requests[r].shown
                   /\ \E v \in conversations' : v.id = y.row /\ Owned(v, r)
<1>1. /\ requests[r].pc = "session" /\ requests[r].op = "chat"
      /\ UNCHANGED <<clients, identities, codes, registrations, messages>>
  BY DEF ResolveConversation, At
<1>2. /\ requests \in [Requests -> RequestRecords] /\ requests[r] \in RequestRecords /\ Placed(requests[r])
      /\ requests[r].user \in Users /\ requests[r].agent \in Agents
  BY <1>1 DEF Typed, TypeOK, Placements, Placed
<1>3. CASE Goto(r, "talking") /\ UNCHANGED conversations /\ Scoped(r) # {}
  <2>1. \E v \in conversations : v.id = requests[r].row /\ Owned(v, r)
    BY <1>3 DEF Scoped, Owned
  <2>2. Placed([requests[r] EXCEPT !.pc = "talking"]) /\ "talking" \in Labels
    BY <1>1, <1>2 DEF Placed, RequestRecords, Labels
  <2>3. TablesOK'
    BY <1>1, <1>3 DEF Typed, TypeOK, TablesOK
  <2>4. QED
    BY <1>1, <1>3, <2>1, <2>2, <2>3, GotoMoves DEF Typed, TypeOK
<1>4. CASE /\ conversations' = conversations \cup
                 {[id |-> r, agent |-> requests[r].agent, user |-> requests[r].user]}
           /\ requests' = [requests EXCEPT ![r].pc = "talking", ![r].row = r]
  <2> DEFINE v == [id |-> r, agent |-> requests[r].agent, user |-> requests[r].user]
             y == [requests[r] EXCEPT !.pc = "talking", !.row = r]
  <2>1. v \in ConversationRecords /\ v.id = r /\ Owned(v, r) /\ r \in Nat
    BY <1>2, RequestsAssumption DEF ConversationRecords, Owned
  <2>2. y \in RequestRecords /\ requests' = [requests EXCEPT ![r] = y]
    BY <1>2, <1>4, <2>1 DEF RequestRecords, Labels
  <2>3. Keeps(y, requests[r]) /\ y.pc = "talking" /\ y.row = r /\ y.shown = requests[r].shown
    BY <1>2 DEF RequestRecords, Keeps
  <2>4. Placed(y)
    BY <1>1, <1>2 DEF RequestRecords, Placed
  <2>5. conversations' = conversations \cup {v}
    BY <1>4
  <2> HIDE DEF v, y
  <2>6. TablesOK'
    BY <1>1, <2>1, <2>5 DEF Typed, TypeOK, TablesOK
  <2>7. Moves(r, y) /\ requests' \in [Requests -> RequestRecords] /\ Placements'
    BY <1>1, <2>2, <2>4, MovesTyped
  <2>8. QED
    BY <1>1, <2>1, <2>3, <2>5, <2>6, <2>7 DEF Typed, TypeOK
<1>5. QED
  BY <1>3, <1>4 DEF ResolveConversation

LEMMA RunLoopMoves ==
  ASSUME Typed, NEW r \in Requests, RunLoop(r)
  PROVE  /\ requests[r].pc = "talking" /\ requests[r].op = "chat"
         /\ messages' = messages \cup {[conversation |-> requests[r].row, by |-> r]}
         /\ \E y : Moves(r, y) /\ Keeps(y, requests[r]) /\ y.pc = "done" /\ y.shown = {}
         /\ UNCHANGED <<codes, registrations, conversations>> /\ Typed'
<1>1. requests[r].pc = "talking" /\ requests[r].op = "chat" /\ Answer(r, {})
  BY DEF RunLoop, At, Finish
<1>2. requests[r].row \in Nat
  BY DEF Typed, TypeOK, RequestRecords
<1>3. TablesOK'
  BY <1>2 DEF RunLoop, Typed, TypeOK, TablesOK
<1>4. QED
  BY <1>1, <1>3, AnswerMoves DEF RunLoop, Typed, TypeOK

(***************************************************************************)
(* Steps of one statement, and time.                                       *)
(***************************************************************************)
\* What invalidating codes does to them.
Dimmed(S, T) ==
  \A c \in S : \E d \in T : c.id = d.id /\ c.identity = d.identity /\ (c.valid => d.valid)

Environment ==
  \/ \E c \in Clients : RegisterClient(c)
  \/ \E i \in Identities : CreateIdentity(i) \/ MapPerson(i)
  \/ Expire

LEMMA EnvironmentTyped ==
  ASSUME Typed, Environment
  PROVE  /\ Typed' /\ UNCHANGED <<conversations, messages, requests>>
         /\ Dimmed(codes', codes) /\ Thinned(registrations', registrations)
<1>1. /\ Dimmed(codes, codes) /\ Thinned(registrations, registrations)
      /\ codes \subseteq CodeRecords /\ registrations \subseteq RegistrationRecords
  BY DEF Dimmed, Thinned, Typed, TypeOK, TablesOK
<1>2. CASE \E c \in Clients : RegisterClient(c)
  BY <1>1, <1>2 DEF RegisterClient, Typed, TypeOK, TablesOK, Placements, Dimmed, Thinned
<1>3. CASE \E i \in Identities : CreateIdentity(i) \/ MapPerson(i)
  <2>1. /\ identities' \in [Identities -> IdentityRecords]
        /\ \A i \in Identities : identities'[i].status = "active" => identities'[i].name # None
    <3>1. CASE \E i \in Identities : CreateIdentity(i)
      <4>1. PICK i \in Identities, a \in Agents \cup {None}, n \in Names :
              identities' = [identities EXCEPT ![i].status = "active", ![i].name = n, ![i].agent = a]
        BY <3>1 DEF CreateIdentity
      <4> DEFINE new == [identities[i] EXCEPT !.status = "active", !.name = n, !.agent = a]
      <4>2. new \in IdentityRecords /\ new.name # None
        BY NoneAssumption DEF Typed, TypeOK, TablesOK, IdentityRecords
      <4>3. identities' = [identities EXCEPT ![i] = new]
        BY <4>1 DEF Typed, TypeOK, TablesOK
      <4> HIDE DEF new
      <4>4. QED
        BY <4>2, <4>3 DEF Typed, TypeOK, TablesOK
    <3>2. CASE \E i \in Identities : MapPerson(i)
      <4>1. PICK i \in Identities, p \in People \cup {None} :
              identities' = [identities EXCEPT ![i].person = p]
        BY <3>2 DEF MapPerson
      <4>2. QED
        BY <4>1 DEF Typed, TypeOK, TablesOK, IdentityRecords
    <3>3. QED
      BY <1>3, <3>1, <3>2
  <2>2. UNCHANGED <<clients, codes, registrations, conversations, messages, requests>>
    BY <1>3 DEF CreateIdentity, MapPerson
  <2>3. QED
    BY <1>1, <2>1, <2>2 DEF Typed, TypeOK, TablesOK, Placements, Dimmed, Thinned
<1>4. CASE Expire
  <2>1. UNCHANGED <<clients, identities, conversations, messages, requests>>
    BY <1>4 DEF Expire
  <2>2. CASE \E c \in codes : /\ codes' = (codes \ {c}) \cup {[c EXCEPT !.valid = FALSE]}
                              /\ UNCHANGED registrations
    <3> DEFINE Off(c) == [c EXCEPT !.valid = FALSE]
    <3>1. \A c \in CodeRecords : /\ Off(c) \in CodeRecords /\ Off(c).id = c.id
                                 /\ Off(c).identity = c.identity /\ ~Off(c).valid
      BY DEF CodeRecords
    <3>2. PICK c \in codes : codes' = (codes \ {c}) \cup {Off(c)}
      BY <2>2
    <3> HIDE DEF Off
    <3>3. codes' \subseteq CodeRecords /\ Dimmed(codes', codes)
      BY <1>1, <3>1, <3>2 DEF Dimmed
    <3>4. QED
      BY <1>1, <2>1, <2>2, <3>3 DEF Typed, TypeOK, TablesOK, Placements, Thinned
  <2>3. CASE \E g \in registrations :
               /\ registrations' = (registrations \ {g}) \cup {[g EXCEPT !.expired = TRUE]}
               /\ UNCHANGED codes
    <3> DEFINE Old(g) == [g EXCEPT !.expired = TRUE]
    <3>1. \A g \in RegistrationRecords :
            /\ Old(g) \in RegistrationRecords /\ Old(g).id = g.id /\ Old(g).access = g.access
            /\ Old(g).refresh = g.refresh /\ Old(g).identity = g.identity /\ Old(g).revoked = g.revoked
      BY DEF RegistrationRecords
    <3>2. registrations' \subseteq RegistrationRecords /\ Thinned(registrations', registrations)
      <4>1. PICK g \in registrations : registrations' = (registrations \ {g}) \cup {Old(g)}
        BY <2>3
      <4> HIDE DEF Old
      <4>2. QED
        BY <1>1, <3>1, <4>1 DEF Thinned
    <3>3. QED
      BY <1>1, <2>1, <2>3, <3>2 DEF Typed, TypeOK, TablesOK, Placements, Dimmed
  <2>4. QED
    BY <1>4, <2>2, <2>3 DEF Expire
<1>5. QED
  BY <1>2, <1>3, <1>4 DEF Environment

(***************************************************************************)
(* What is over stays as it is; so does what requests saw as over.         *)
(***************************************************************************)
LEMMA MovesDone ==
  ASSUME Typed, NEW r \in Requests, NEW y, Moves(r, y)
  PROVE  /\ r \notin Done /\ Done' = Done \cup (IF y.pc = "done" THEN {r} ELSE {})
         /\ \A q \in Done : requests'[q] = requests[q]
         /\ \A op \in Ops \ {"none"} :
              /\ r \notin Accepted(op)
              /\ Accepted(op)' = Accepted(op) \cup (IF y.pc = "done" /\ y.op = op THEN {r} ELSE {})
              /\ \A q \in Op(op)' : (q = r /\ y.op = op) \/ (q \in Op(op) /\ q # r /\ requests'[q] = requests[q])
<1>1. requests[r].pc # "done" /\ requests'[r] = y /\ \A q \in Requests \ {r} : requests'[q] = requests[q]
  BY DEF Moves
<1>2. r \notin Done /\ \A q \in Done : q \in Requests \ {r}
  BY <1>1 DEF Done
<1>3. \A q \in Requests : q \in Done' <=> q \in Done \/ (q = r /\ y.pc = "done")
  BY <1>1, <1>2 DEF Done
<1>4. Done' = Done \cup (IF y.pc = "done" THEN {r} ELSE {})
  <2>1. Done \subseteq Requests /\ Done' \subseteq Requests
    BY DEF Done
  <2>2. QED
    BY <1>3, <2>1
<1>5. ASSUME NEW op \in Ops \ {"none"}
      PROVE  /\ r \notin Accepted(op)
             /\ Accepted(op)' = Accepted(op) \cup (IF y.pc = "done" /\ y.op = op THEN {r} ELSE {})
             /\ \A q \in Op(op)' : (q = r /\ y.op = op) \/ (q \in Op(op) /\ q # r /\ requests'[q] = requests[q])
  <2>1. Accepted(op) \subseteq Done /\ Accepted(op)' \subseteq Done'
    BY DEF Accepted
  <2>2. \A q \in Done : q \in Accepted(op)' <=> q \in Accepted(op)
    BY <1>1, <1>2, <1>4 DEF Accepted
  <2>3. r \in Accepted(op)' <=> (y.pc = "done" /\ y.op = op)
    BY <1>1, <1>2, <1>4 DEF Accepted, Moves, Placed
  <2>4. Accepted(op)' = Accepted(op) \cup (IF y.pc = "done" /\ y.op = op THEN {r} ELSE {})
    BY <1>2, <1>4, <2>1, <2>2, <2>3
  <2>5. QED
    BY <1>1, <1>2, <2>1, <2>4 DEF Op
<1>6. QED
  BY <1>1, <1>2, <1>4, <1>5

LEMMA PastKept ==
  ASSUME Typed, Past, NEW r \in Requests, NEW y, Moves(r, y),
         y.before = requests[r].before \/ y.before = Done \/ y.before = {}
  PROVE  Past'
<1>1. Done \subseteq Done'
  BY MovesDone
<1>2. QED
  BY <1>1 DEF Past, Moves

(***************************************************************************)
(* Codes.                                                                  *)
(***************************************************************************)
\* Steps of other requests, and those of a submit that has marked its code.
LEMMA CodeQuiet ==
  ASSUME Typed, Past, CodeInv, NEW r \in Requests, NEW y, Moves(r, y), UNCHANGED codes,
         \/ y.op \notin {"reissue", "submit"}
         \/ /\ requests[r].op = "submit" /\ requests[r].pc # "found" /\ y.pc # "found"
            /\ Keeps(y, requests[r])
  PROVE  CodeInv'
<1> DEFINE Same(q) == requests'[q] = requests[q]
<1>1. /\ Done \subseteq Done' /\ r \notin Done /\ \A q \in Done : Same(q)
      /\ Accepted("reissue")' = Accepted("reissue") /\ r \notin Accepted("submit")
      /\ \A q \in Accepted("submit")' : q \in Accepted("submit") \/ q = r
      /\ \A q \in Accepted("reissue") : q \in Done /\ Same(q)
  BY MovesDone DEF Ops, Accepted, Keeps
<1>2. \A q \in Op("reissue")' : q \in Op("reissue") /\ Same(q)
  BY MovesDone DEF Ops, Keeps
<1>3. \A q \in Op("submit")' :
        /\ q \in Op("submit") /\ requests'[q].from = requests[q].from
        /\ requests'[q].before = requests[q].before
        /\ requests'[q].pc # "found" => requests[q].pc # "found" \/ Same(q)
        /\ Same(q) \/ (requests[q].pc # "found" /\ requests'[q].pc # "found")
  BY MovesDone DEF Ops, Keeps, Moves, Op
<1>4. CodesReissued' /\ SubmitsFound'
  BY <1>1, <1>3 DEF CodeInv, CodesReissued, SubmitsFound
<1>5. CodesMarked' /\ CodesRetired'
  BY <1>2, <1>3 DEF CodeInv, CodesMarked, CodesRetired
<1>6. RetiredUnused'
  BY <1>1, <1>3 DEF CodeInv, RetiredUnused, SubmitsFound
<1>7. CodesOnce'
  <2> SUFFICES ASSUME NEW a \in Op("submit")', NEW q \in Accepted("submit")', q # a,
                      requests'[q].from = requests'[a].from, q \in requests'[a].before
               PROVE  FALSE
    BY DEF CodesOnce
  <2>1. a \in Op("submit") /\ q \in requests[a].before /\ requests'[a].from = requests[a].from
    BY <1>3
  <2>2. q \in Done
    BY <2>1 DEF Past, Op
  <2>3. q \in Accepted("submit") /\ Same(q)
    BY <1>1, <2>2
  <2>4. QED
    BY <2>1, <2>3 DEF CodeInv, CodesOnce
<1>8. QED
  BY <1>4, <1>5, <1>6, <1>7 DEF CodeInv

\* Steps that make codes invalid and move no request.
LEMMA CodeDimmed ==
  ASSUME CodeInv, UNCHANGED requests, Dimmed(codes', codes)
  PROVE  CodeInv'
<1>1. /\ Accepted("reissue")' = Accepted("reissue") /\ Accepted("submit")' = Accepted("submit")
      /\ Op("submit")' = Op("submit") /\ Op("reissue")' = Op("reissue")
  BY DEF Accepted, Done, Op
<1>2. SubmitsFound' /\ RetiredUnused' /\ CodesOnce'
  BY <1>1 DEF CodeInv, SubmitsFound, RetiredUnused, CodesOnce
<1>3. CodesReissued' /\ CodesMarked' /\ CodesRetired'
  BY <1>1 DEF CodeInv, CodesReissued, CodesMarked, CodesRetired, Dimmed
<1>4. QED
  BY <1>2, <1>3 DEF CodeInv

\* A reissue comes: nothing is said of it before it has retired the codes.
LEMMA CheckActiveKeepsCodes ==
  ASSUME Typed, Past, CodeInv, NEW r \in Requests, CheckActive(r)
  PROVE  CodeInv'
<1>1. PICK y : /\ Moves(r, y) /\ y.op = "reissue" /\ y.pc = "active" /\ UNCHANGED codes
  BY CheckActiveMoves DEF Came, stores
<1>2. /\ Done \subseteq Done' /\ r \notin Done /\ \A q \in Done : requests'[q] = requests[q]
      /\ Accepted("reissue")' = Accepted("reissue") /\ Accepted("submit")' = Accepted("submit")
      /\ \A q \in Op("submit")' : q \in Op("submit") /\ q # r /\ requests'[q] = requests[q]
      /\ \A q \in Op("reissue")' :
           requests'[q].pc # "active" => q \in Op("reissue") /\ q # r /\ requests'[q] = requests[q]
      /\ Accepted("reissue") \subseteq Done /\ Accepted("submit") \subseteq Done
  BY <1>1, MovesDone DEF Ops, Accepted, Moves
<1>3. CodesReissued' /\ SubmitsFound' /\ CodesMarked' /\ CodesRetired'
  BY <1>1, <1>2 DEF CodeInv, CodesReissued, SubmitsFound, CodesMarked, CodesRetired
<1>4. RetiredUnused' /\ CodesOnce'
  BY <1>2 DEF CodeInv, RetiredUnused, SubmitsFound, CodesOnce
<1>5. QED
  BY <1>3, <1>4 DEF CodeInv

\* A submit comes with a valid code: nobody has marked it, and no reissue that is
\* over has retired it.
LEMMA FindCodeKeepsCodes ==
  ASSUME Typed, Past, CodeInv, NEW r \in Requests, FindCode(r)
  PROVE  CodeInv'
<1>1. PICK c \in codes, y \in RequestRecords :
        /\ c.valid /\ Moves(r, y) /\ y.op = "submit" /\ y.pc = "found"
        /\ y.from = c.id /\ y.before = Done /\ UNCHANGED codes
  BY FindCodeMoves DEF Moves, Came, stores
<1>2. /\ Done \subseteq Done' /\ r \notin Done /\ \A q \in Done : requests'[q] = requests[q]
      /\ Accepted("reissue")' = Accepted("reissue") /\ Accepted("submit")' = Accepted("submit")
      /\ \A q \in Op("submit")' : q = r \/ (q \in Op("submit") /\ requests'[q] = requests[q])
      /\ \A q \in Op("reissue")' : q \in Op("reissue") /\ requests'[q] = requests[q]
      /\ Accepted("reissue") \subseteq Done /\ Accepted("submit") \subseteq Done
      /\ requests'[r] = y
  BY <1>1, MovesDone DEF Ops, Accepted, Moves
<1>3. CodesReissued' /\ SubmitsFound' /\ CodesMarked' /\ CodesRetired'
  BY <1>1, <1>2 DEF CodeInv, CodesReissued, SubmitsFound, CodesMarked, CodesRetired
<1>4. RetiredUnused'
  <2> SUFFICES ASSUME NEW a \in Op("submit")', NEW q \in Accepted("reissue")',
                      LET code == requests'[a].from
                      IN  /\ requests'[q].identity = requests'[code].identity
                          /\ code \in requests'[q].before /\ q \in requests'[a].before
               PROVE  FALSE
    BY DEF RetiredUnused
  <2>1. CASE a = r
    <3>1. /\ q \in Op("reissue") /\ requests[q].pc # "active"
          /\ requests[q].identity = c.identity /\ c.id \in requests[q].before
      BY <1>1, <1>2, <2>1 DEF CodeInv, CodesReissued, Accepted, Done, Op
    <3>2. QED
      BY <1>1, <3>1 DEF CodeInv, CodesRetired
  <2>2. CASE a # r
    BY <1>2, <2>2 DEF CodeInv, RetiredUnused, SubmitsFound
  <2>3. QED
    BY <2>1, <2>2
<1>5. CodesOnce'
  <2> SUFFICES ASSUME NEW a \in Op("submit")', NEW q \in Accepted("submit")', q # a,
                      requests'[q].from = requests'[a].from, q \in requests'[a].before
               PROVE  FALSE
    BY DEF CodesOnce
  <2>1. q \in Op("submit") /\ requests[q].pc # "found" /\ requests'[q] = requests[q]
    BY <1>2 DEF Accepted, Done, Op
  <2>2. CASE a = r
    BY <1>1, <1>2, <2>1, <2>2 DEF CodeInv, CodesMarked
  <2>3. CASE a # r
    BY <1>2, <2>3 DEF CodeInv, CodesOnce
  <2>4. QED
    BY <2>2, <2>3
<1>6. QED
  BY <1>3, <1>4, <1>5 DEF CodeInv

LEMMA RetireCodesKeepsCodes ==
  ASSUME Typed, Past, CodeInv, NEW r \in Requests, RetireCodes(r)
  PROVE  CodeInv'
<1>1. PICK y : Moves(r, y) /\ Keeps(y, requests[r]) /\ y.pc = "retired" /\ y.op = "reissue"
  BY RetireCodesMoves DEF RetireCodes, At, Keeps
<1>2. /\ Done \subseteq Done' /\ r \notin Done /\ \A q \in Done : requests'[q] = requests[q]
      /\ Accepted("reissue")' = Accepted("reissue") /\ Accepted("submit")' = Accepted("submit")
      /\ \A q \in Op("submit")' : q \in Op("submit") /\ requests'[q] = requests[q]
      /\ \A q \in Op("reissue")' :
           q = r \/ (q \in Op("reissue") /\ requests'[q] = requests[q])
      /\ Accepted("reissue") \subseteq Done /\ Accepted("submit") \subseteq Done
      /\ requests'[r].identity = requests[r].identity
  BY <1>1, MovesDone DEF Ops, Accepted, Moves, Keeps
<1>3. /\ Dimmed(codes', codes)
      /\ \A c \in codes' : c.identity = requests[r].identity => ~c.valid
  <2> DEFINE Off(c) == [c EXCEPT !.valid = @ /\ c.identity # requests[r].identity]
  <2>1. \A c \in CodeRecords : /\ Off(c).id = c.id /\ Off(c).identity = c.identity
                               /\ Off(c).valid => c.valid /\ c.identity # requests[r].identity
    BY DEF CodeRecords
  <2>2. codes' = {Off(c) : c \in codes} /\ codes \subseteq CodeRecords
    BY DEF RetireCodes, Typed, TypeOK, TablesOK
  <2> HIDE DEF Off
  <2>3. QED
    BY <2>1, <2>2 DEF Dimmed
<1>4. CodesReissued' /\ SubmitsFound' /\ CodesMarked' /\ CodesRetired'
  BY <1>2, <1>3 DEF CodeInv, CodesReissued, SubmitsFound, CodesMarked, CodesRetired, Dimmed
<1>5. RetiredUnused' /\ CodesOnce'
  BY <1>2 DEF CodeInv, RetiredUnused, SubmitsFound, CodesOnce
<1>6. QED
  BY <1>4, <1>5 DEF CodeInv

\* The new code is named by a request that nobody has seen as over.
LEMMA CreateCodeKeepsCodes ==
  ASSUME Typed, Past, CodeInv, NEW r \in Requests, CreateCode(r)
  PROVE  CodeInv'
<1>1. PICK y : Moves(r, y) /\ Keeps(y, requests[r]) /\ y.pc = "done" /\ y.op = "reissue"
  BY CreateCodeMoves DEF CreateCode, At, Keeps
<1>2. /\ Done \subseteq Done' /\ r \notin Done /\ \A q \in Done : requests'[q] = requests[q]
      /\ Accepted("reissue")' = Accepted("reissue") \cup {r} /\ Accepted("submit")' = Accepted("submit")
      /\ \A q \in Op("submit")' : q \in Op("submit") /\ requests'[q] = requests[q]
      /\ \A q \in Op("reissue")' : q \in Op("reissue") \/ q = r
      /\ \A q \in Op("reissue")' : q # r => requests'[q] = requests[q]
      /\ Accepted("reissue") \subseteq Done /\ Accepted("submit") \subseteq Done
      /\ requests'[r].identity = requests[r].identity /\ requests'[r].before = requests[r].before
      /\ r \in Op("reissue") /\ requests[r].pc # "active"
  BY <1>1, MovesDone DEF Ops, Accepted, Moves, Keeps, Op, CreateCode, At
<1>3. /\ codes' = codes \cup {NewCode(r)} /\ NewCode(r).id = r
      /\ NewCode(r).identity = requests[r].identity
  BY DEF CreateCode, NewCode
<1>4. \A a \in Requests : r \notin requests[a].before
  BY <1>2 DEF Past
<1>5. CodesReissued'
  BY <1>2, <1>3 DEF CodeInv, CodesReissued
<1>6. SubmitsFound'
  BY <1>2 DEF CodeInv, SubmitsFound
<1>7. CodesMarked'
  BY <1>2, <1>3 DEF CodeInv, CodesMarked, SubmitsFound
<1>8. CodesRetired'
  BY <1>2, <1>3, <1>4 DEF CodeInv, CodesRetired, Op
<1>9. RetiredUnused'
  <2>1. \A a \in Op("submit")' : r \notin requests'[a].before
    BY <1>2, <1>4 DEF Op
  <2>2. QED
    BY <1>2, <2>1 DEF CodeInv, RetiredUnused, SubmitsFound
<1>10. CodesOnce'
  BY <1>2 DEF CodeInv, CodesOnce
<1>11. QED
  BY <1>5, <1>6, <1>7, <1>8, <1>9, <1>10 DEF CodeInv

LEMMA MarkUsedKeepsCodes ==
  ASSUME Typed, Past, CodeInv, NEW r \in Requests, MarkUsed(r)
  PROVE  CodeInv'
<1>1. PICK y : Moves(r, y) /\ Keeps(y, requests[r]) /\ y.pc = "marked" /\ y.op = "submit"
  BY MarkUsedMoves DEF MarkUsed, At, Keeps
<1>2. /\ Done \subseteq Done' /\ r \notin Done /\ \A q \in Done : requests'[q] = requests[q]
      /\ Accepted("reissue")' = Accepted("reissue") /\ Accepted("submit")' = Accepted("submit")
      /\ \A q \in Op("submit")' : /\ q \in Op("submit") /\ requests'[q].from = requests[q].from
                                  /\ requests'[q].before = requests[q].before
                                  /\ q # r => requests'[q] = requests[q]
      /\ \A q \in Op("reissue")' : q \in Op("reissue") /\ requests'[q] = requests[q]
      /\ Accepted("reissue") \subseteq Done /\ Accepted("submit") \subseteq Done
  BY <1>1, MovesDone DEF Ops, Accepted, Moves, Keeps, Op, MarkUsed, At
<1>3. /\ Dimmed(codes', codes)
      /\ \A c \in codes' : c.id = requests[r].from => ~c.valid
  <2> DEFINE Off(c) == [c EXCEPT !.valid = @ /\ c.id # requests[r].from]
  <2>1. \A c \in CodeRecords : /\ Off(c).id = c.id /\ Off(c).identity = c.identity
                               /\ Off(c).valid => c.valid /\ c.id # requests[r].from
    BY DEF CodeRecords
  <2>2. codes' = {Off(c) : c \in codes} /\ codes \subseteq CodeRecords
    BY DEF MarkUsed, Typed, TypeOK, TablesOK
  <2> HIDE DEF Off
  <2>3. QED
    BY <2>1, <2>2 DEF Dimmed
<1>4. CodesReissued' /\ SubmitsFound' /\ CodesMarked' /\ CodesRetired'
  BY <1>2, <1>3 DEF CodeInv, CodesReissued, SubmitsFound, CodesMarked, CodesRetired, Dimmed
<1>5. RetiredUnused' /\ CodesOnce'
  BY <1>2 DEF CodeInv, RetiredUnused, SubmitsFound, CodesOnce
<1>6. QED
  BY <1>4, <1>5 DEF CodeInv

(***************************************************************************)
(* Tokens.                                                                 *)
(***************************************************************************)
\* The kinds of request that name tokens are told apart by their operation.
LEMMA TokenNames ==
  /\ HandedOut = Accepted("submit") \cup Rotations
  /\ Accepted("submit") \cap Rotations = {} /\ HandedOut \subseteq Done /\ HandedOut \subseteq Requests
  /\ None \notin HandedOut
BY NoneAssumption DEF Accepted, Rotations, Done, HandedOut

\* Steps that give out no token and leave the tokens as they are.
LEMMA TokenQuiet ==
  ASSUME Typed, Past, TokenInv, NEW r \in Requests, NEW y, Moves(r, y),
         Thinned(registrations', registrations), y.op \notin {"exchange", "refresh"},
         y.op = "chat" => Keeps(y, requests[r])
  PROVE  TokenInv'
<1>1. /\ Accepted("submit") \subseteq Accepted("submit")'
      /\ Accepted("exchange")' = Accepted("exchange") /\ Accepted("refresh")' = Accepted("refresh")
      /\ \A q \in Op("exchange")' \cup Op("refresh")' :
           q \in Op("exchange") \cup Op("refresh") /\ requests'[q] = requests[q]
      /\ \A q \in Accepted("exchange") \cup Accepted("refresh") : requests'[q] = requests[q]
  BY MovesDone DEF Ops, Accepted
<1>2. Rotations' = Rotations /\ HandedOut \subseteq HandedOut'
  BY <1>1 DEF Rotations, HandedOut
<1>3. TokensNamed' /\ AccessUnique'
  BY <1>1, <1>2 DEF TokenInv, TokensNamed, AccessUnique, Thinned
<1>4. GrantsFound' /\ TokensSpent'
  BY <1>1, <1>2 DEF TokenInv, GrantsFound, TokensSpent, Thinned, Rotations
<1>5. TokensOnce'
  <2>1. \A q \in Op("chat")' : /\ q \in Op("chat") /\ requests'[q].from = requests[q].from
                               /\ requests'[q].before = requests[q].before
    BY MovesDone DEF Ops, Keeps, Moves, Op
  <2>2. QED
    BY <1>1, <1>2, <2>1 DEF TokenInv, TokensOnce, Presents, Rotations
<1>6. QED
  BY <1>3, <1>4, <1>5 DEF TokenInv

LEMMA TokenThinned ==
  ASSUME TokenInv, UNCHANGED requests, Thinned(registrations', registrations)
  PROVE  TokenInv'
<1>1. /\ Accepted("submit")' = Accepted("submit") /\ Rotations' = Rotations
      /\ HandedOut' = HandedOut /\ \A op : Op(op)' = Op(op)
  BY DEF Accepted, Done, Op, Rotations, HandedOut
<1>2. TokensNamed' /\ AccessUnique'
  BY <1>1 DEF TokenInv, TokensNamed, AccessUnique, Thinned
<1>3. GrantsFound' /\ TokensSpent' /\ TokensOnce'
  BY <1>1 DEF TokenInv, GrantsFound, TokensSpent, TokensOnce, Presents, Thinned
<1>4. QED
  BY <1>2, <1>3 DEF TokenInv

\* The authorization code of a new registration is new.
LEMMA CreateRegistrationKeepsTokens ==
  ASSUME Typed, Past, TokenInv, NEW r \in Requests, CreateRegistration(r)
  PROVE  TokenInv'
<1>1. CASE UNCHANGED registrations /\ \E y : Moves(r, y) /\ y.op = "none"
  <2>1. Thinned(registrations', registrations)
    BY <1>1 DEF Thinned, Typed, TypeOK, TablesOK
  <2>2. QED
    BY <1>1, <2>1, TokenQuiet
<1>2. CASE /\ \E y : Moves(r, y) /\ Keeps(y, requests[r]) /\ y.pc = "done"
           /\ registrations' = registrations \cup {NewRegistration(r)}
  <2> DEFINE new == NewRegistration(r)
  <2>1. PICK y : Moves(r, y) /\ y.op = "submit" /\ y.pc = "done"
    BY <1>2, CreateRegistrationMoves DEF Keeps
  <2>2. new.id = r /\ new.access = r /\ new.refresh = None
    BY DEF NewRegistration
  <2>3. registrations' = registrations \cup {new}
    BY <1>2
  <2> HIDE DEF new
  <2>4. /\ Accepted("submit")' = Accepted("submit") \cup {r} /\ r \notin Done
        /\ Accepted("exchange")' = Accepted("exchange") /\ Accepted("refresh")' = Accepted("refresh")
        /\ \A q \in Presents' : q \in Presents /\ requests'[q] = requests[q]
        /\ Op("exchange")' \cup Op("refresh")' \subseteq Op("exchange") \cup Op("refresh")
        /\ \A q \in Accepted("exchange") \cup Accepted("refresh") : requests'[q] = requests[q]
    BY <2>1, MovesDone DEF Ops, Accepted, Presents
  <2>5. Rotations' = Rotations /\ HandedOut' = HandedOut \cup {r} /\ r \notin HandedOut
    BY <2>4, TokenNames DEF Rotations, HandedOut
  <2>6. \A g \in registrations : g.access \in HandedOut
    BY TokenNames DEF TokenInv, TokensNamed
  <2>7. TokensNamed' /\ AccessUnique'
    BY <2>2, <2>3, <2>4, <2>5, <2>6 DEF TokenInv, TokensNamed, AccessUnique
  <2>8. GrantsFound'
    BY <2>2, <2>3, <2>4, <2>5 DEF TokenInv, GrantsFound, Presents
  <2>9. TokensSpent'
    <3>1. \A q \in Rotations : requests[q].from \in HandedOut /\ requests'[q] = requests[q]
      BY <2>4 DEF TokenInv, GrantsFound, Rotations, Accepted, Done, Op
    <3>2. QED
      BY <2>2, <2>3, <2>5, <3>1 DEF TokenInv, TokensSpent
  <2>10. TokensOnce'
    BY <2>4, <2>5 DEF TokenInv, TokensOnce, Rotations
  <2>11. QED
    BY <2>7, <2>8, <2>9, <2>10 DEF TokenInv
<1>3. QED
  BY <1>1, <1>2, CreateRegistrationMoves

\* Somebody comes with a token that is in a registration: nobody has spent it, and
\* no other registration has it.
LEMMA PresentKeepsTokens ==
  ASSUME Typed, Past, TokenInv, NEW r \in Requests, NEW y \in RequestRecords, Moves(r, y),
         y.op \in {"exchange", "refresh", "chat"}, y.pc # "done", UNCHANGED registrations,
         NEW g \in registrations, y.from = g.access, y.pc = "granted" => y.row = g.id
  PROVE  TokenInv'
<1>1. /\ Accepted("submit")' = Accepted("submit")
      /\ Accepted("exchange")' = Accepted("exchange") /\ Accepted("refresh")' = Accepted("refresh")
      /\ \A a \in Presents' : a = r \/ (a \in Presents /\ requests'[a] = requests[a])
      /\ \A a \in Op("exchange")' \cup Op("refresh")' :
           (a = r /\ y.op # "chat") \/ a \in Op("exchange") \cup Op("refresh")
      /\ \A a \in Accepted("exchange") \cup Accepted("refresh") : requests'[a] = requests[a]
      /\ requests'[r] = y
  BY MovesDone DEF Ops, Accepted, Moves, Presents
<1>2. Rotations' = Rotations /\ HandedOut' = HandedOut
  BY <1>1 DEF Rotations, HandedOut
<1>3. g.access \in HandedOut
  BY TokenNames DEF TokenInv, TokensNamed
<1>4. TokensNamed' /\ AccessUnique' /\ TokensSpent'
  BY <1>1, <1>2 DEF TokenInv, TokensNamed, AccessUnique, TokensSpent, Rotations
<1>5. GrantsFound'
  BY <1>1, <1>2, <1>3 DEF TokenInv, GrantsFound, AccessUnique, Presents
<1>6. TokensOnce'
  BY <1>1, <1>2 DEF TokenInv, TokensOnce, TokensSpent, Rotations
<1>7. QED
  BY <1>4, <1>5, <1>6 DEF TokenInv

LEMMA ReadGrantKeepsTokens ==
  ASSUME Typed, Past, TokenInv, NEW r \in Requests, ReadGrant(r)
  PROVE  TokenInv'
<1>1. PICK q \in HandedOut, y \in RequestRecords : \E g \in WithAccess(q) :
        /\ Moves(r, y) /\ y.op = "exchange" /\ y.pc = "granted" /\ y.from = q /\ y.row = g.id
        /\ UNCHANGED registrations
  BY ReadGrantMoves DEF Moves, Came, stores
<1>2. PICK g \in registrations : g.access = q /\ y.row = g.id
  BY <1>1 DEF WithAccess
<1>3. QED
  BY <1>1, <1>2, PresentKeepsTokens

LEMMA ReadRefreshKeepsTokens ==
  ASSUME Typed, Past, TokenInv, NEW r \in Requests, ReadRefresh(r)
  PROVE  TokenInv'
<1>1. PICK q \in Rotations, y \in RequestRecords : \E g \in WithRefresh(q) :
        /\ Moves(r, y) /\ y.op = "refresh" /\ y.pc = "granted" /\ y.from = q /\ y.row = g.id
        /\ UNCHANGED registrations
  BY ReadRefreshMoves DEF Moves, Came, stores
<1>2. PICK g \in registrations : g.refresh = q /\ y.row = g.id
  BY <1>1 DEF WithRefresh
<1>3. g.access = q
  BY <1>2, TokenNames DEF TokenInv, TokensNamed
<1>4. QED
  BY <1>1, <1>2, <1>3, PresentKeepsTokens

LEMMA OpenSessionKeepsTokens ==
  ASSUME Typed, Past, TokenInv, NEW r \in Requests, OpenSession(r)
  PROVE  TokenInv'
<1>1. PICK q \in HandedOut, y \in RequestRecords : \E g \in WithAccess(q) :
        /\ Moves(r, y) /\ y.op = "chat" /\ y.pc = "session" /\ y.from = q
        /\ UNCHANGED registrations
  BY OpenSessionMoves DEF Moves, Came, stores
<1>2. PICK g \in registrations : g.access = q
  BY <1>1 DEF WithAccess
<1>3. QED
  BY <1>1, <1>2, PresentKeepsTokens

\* The tokens are made anew: what was presented is in no registration any more.
LEMMA UpdateTokensKeepsTokens ==
  ASSUME Typed, Past, TokenInv, NEW r \in Requests, UpdateTokens(r)
  PROVE  TokenInv'
<1>1. PICK y : Moves(r, y) /\ Keeps(y, requests[r]) /\ y.pc = "done"
  BY UpdateTokensMoves
<1>2. /\ requests[r].pc = "granted" /\ requests[r].op \in {"exchange", "refresh"} /\ y.op = requests[r].op
      /\ \A g \in registrations' :
           \/ g \in registrations /\ g.id # requests[r].row
           \/ \E h \in registrations : /\ g.id = h.id /\ g.id = requests[r].row
                                       /\ g.access = r /\ g.refresh = r
  BY <1>1, UpdateTokensMoves DEF Keeps
<1>3. /\ Accepted("submit")' = Accepted("submit") /\ r \notin Done /\ requests'[r] = y
      /\ Accepted("exchange")' = Accepted("exchange") \cup (IF y.op = "exchange" THEN {r} ELSE {})
      /\ Accepted("refresh")' = Accepted("refresh") \cup (IF y.op = "refresh" THEN {r} ELSE {})
      /\ \A a \in Presents' : a = r \/ requests'[a] = requests[a]
      /\ \A a \in Accepted("exchange") \cup Accepted("refresh") : requests'[a] = requests[a]
  BY <1>1, <1>2, MovesDone DEF Ops, Accepted, Moves, Presents
<1>4. /\ Op("exchange")' \cup Op("refresh")' = Op("exchange") \cup Op("refresh") /\ Presents' = Presents
      /\ requests'[r].from = requests[r].from /\ requests'[r].before = requests[r].before
      /\ requests'[r].pc = "done" /\ r \in Op("exchange") \cup Op("refresh")
  BY <1>1, <1>2 DEF Op, Moves, Keeps, Presents
<1>5. Rotations' = Rotations \cup {r} /\ HandedOut' = HandedOut \cup {r}
  BY <1>2, <1>3 DEF Rotations, HandedOut
<1>6. r \notin HandedOut /\ \A g \in registrations : g.access \in HandedOut
  BY <1>3, TokenNames DEF TokenInv, TokensNamed
<1>7. \A a \in Op("exchange") \cup Op("refresh") : requests[a].from \in HandedOut
  BY DEF TokenInv, GrantsFound
<1>8. TokensNamed' /\ AccessUnique'
  BY <1>2, <1>3, <1>5, <1>6 DEF TokenInv, TokensNamed, AccessUnique
<1>9. GrantsFound'
  <2> SUFFICES ASSUME NEW a \in Op("exchange") \cup Op("refresh")
               PROVE  /\ requests'[a].from \in HandedOut'
                      /\ requests'[a].pc = "granted" =>
                           \A g \in registrations' : g.access = requests'[a].from => g.id = requests'[a].row
    BY <1>4 DEF GrantsFound
  <2>1. requests'[a].from = requests[a].from
    BY <1>3, <1>4 DEF Presents
  <2>2. requests'[a].pc = "granted" => requests'[a] = requests[a]
    BY <1>3, <1>4 DEF Presents
  <2>3. QED
    BY <1>2, <1>5, <1>6, <1>7, <2>1, <2>2 DEF TokenInv, GrantsFound
<1>10. TokensSpent'
  <2> SUFFICES ASSUME NEW q \in Rotations', NEW g \in registrations'
               PROVE  g.access # requests'[q].from
    BY DEF TokensSpent
  <2>1. q \in Op("exchange") \cup Op("refresh") /\ requests'[q].from = requests[q].from
    BY <1>3, <1>4, <1>5 DEF Rotations, Accepted, Done, Op
  <2>2. CASE g.access = r
    BY <1>6, <1>7, <2>1, <2>2
  <2>3. CASE g \in registrations /\ g.id # requests[r].row /\ q # r
    BY <1>5, <2>1, <2>3 DEF TokenInv, TokensSpent
  <2>4. CASE g \in registrations /\ g.id # requests[r].row /\ q = r
    BY <1>2, <2>1, <2>4 DEF TokenInv, GrantsFound
  <2>5. QED
    BY <1>2, <2>2, <2>3, <2>4
<1>11. TokensOnce'
  <2> SUFFICES ASSUME NEW q \in Rotations', NEW a \in Presents', q # a,
                      requests'[q].from = requests'[a].from, q \in requests'[a].before
               PROVE  FALSE
    BY DEF TokensOnce
  <2>1. a \in Presents /\ q \in requests[a].before /\ requests'[a].from = requests[a].from
    BY <1>3, <1>4
  <2>2. q \in Done
    BY <2>1 DEF Past, Op, Presents
  <2>3. q \in Rotations /\ requests'[q].from = requests[q].from
    BY <1>3, <1>5, <2>2 DEF Rotations
  <2>4. QED
    BY <2>1, <2>3 DEF TokenInv, TokensOnce
<1>12. QED
  BY <1>8, <1>9, <1>10, <1>11 DEF TokenInv

(***************************************************************************)
(* Revocations.                                                            *)
(***************************************************************************)
\* What requests do to the registrations, but for their tokens: r may add its own.
Follows(S, T, r) ==
  \A g \in S : g.id = r \/ \E h \in T : g.id = h.id /\ g.identity = h.identity /\ (h.revoked => g.revoked)

LEMMA ReachQuiet ==
  ASSUME Typed, Past, ReachInv, NEW r \in Requests, NEW y, Moves(r, y),
         Follows(registrations', registrations, r), y.op = "revoke" => y.pc \notin {"listed", "done"}
  PROVE  ReachInv'
<1> SUFFICES ASSUME NEW a \in Op("revoke")', NEW g \in registrations', Reached(a, g)',
                    requests'[a].pc \in {"listed", "done"}
             PROVE  /\ requests'[a].pc = "listed" =>
                         g.revoked \/ g.id \in requests'[a].todo \cup requests'[a].missed
                    /\ requests'[a].pc = "done" => g.revoked \/ g.id \in requests'[a].missed
  BY DEF ReachInv
<1>1. a \in Op("revoke") /\ requests'[a] = requests[a]
  BY MovesDone DEF Ops, Moves, Op
<1>2. g.id # r
  BY <1>1, MovesDone DEF Past, Reached, Op
<1>3. PICK h \in registrations : g.id = h.id /\ g.identity = h.identity /\ (h.revoked => g.revoked)
  BY <1>2 DEF Follows
<1>4. Reached(a, h)
  BY <1>1, <1>3 DEF Reached
<1>5. QED
  BY <1>1, <1>3, <1>4 DEF ReachInv

LEMMA ReachThinned ==
  ASSUME ReachInv, UNCHANGED requests, Thinned(registrations', registrations)
  PROVE  ReachInv'
BY DEF ReachInv, Reached, Op, Thinned

\* The list has all that was there when the revocation came.
LEMMA ListKeepsReach ==
  ASSUME Typed, ReachInv, NEW r \in Requests, ListRegistrations(r)
  PROVE  ReachInv'
<1> DEFINE found == {g \in registrations : g.identity = requests[r].identity /\ ~g.revoked}
           ids == {g.id : g \in found}
<1>1. /\ requests' = [requests EXCEPT ![r].pc = "listed", ![r].todo = ids] /\ UNCHANGED registrations
      /\ requests \in [Requests -> RequestRecords]
  BY DEF ListRegistrations, stores, Typed, TypeOK
<1>2. \A g \in registrations : g.identity = requests[r].identity => g.revoked \/ g.id \in ids
  OBVIOUS
<1> HIDE DEF ids
<1>3. /\ requests'[r].pc = "listed" /\ requests'[r].todo = ids
      /\ requests'[r].identity = requests[r].identity /\ requests'[r].op = requests[r].op
      /\ \A a \in Requests \ {r} : requests'[a] = requests[a]
  BY <1>1 DEF RequestRecords
<1>4. QED
  BY <1>1, <1>2, <1>3 DEF ReachInv, Reached, Op

LEMMA FlagKeepsReach ==
  ASSUME Typed, ReachInv, NEW r \in Requests, RevokeRegistration(r)
  PROVE  ReachInv'
<1>1. PICK id \in requests[r].todo :
       \/ /\ registrations' = {[g EXCEPT !.revoked = @ \/ g.id = id] : g \in registrations}
          /\ requests' = [requests EXCEPT ![r].todo = @ \ {id}]
       \/ /\ requests' = [requests EXCEPT ![r].todo = @ \ {id}, ![r].missed = @ \cup {id}]
          /\ UNCHANGED registrations
  BY DEF RevokeRegistration
<1>2. /\ requests[r].pc = "listed" /\ requests \in [Requests -> RequestRecords]
      /\ registrations \subseteq RegistrationRecords
  BY DEF RevokeRegistration, At, Typed, TypeOK, TablesOK
<1>3. /\ requests'[r].todo = requests[r].todo \ {id} /\ requests'[r].pc = "listed"
      /\ requests'[r].missed = requests[r].missed
         \/ (requests'[r].missed = requests[r].missed \cup {id} /\ UNCHANGED registrations)
      /\ requests'[r].identity = requests[r].identity /\ requests'[r].op = requests[r].op
      /\ requests'[r].before = requests[r].before
      /\ \A a \in Requests \ {r} : requests'[a] = requests[a]
  BY <1>1, <1>2 DEF RequestRecords
<1>4. \A g \in registrations' : \E h \in registrations :
        g.id = h.id /\ g.identity = h.identity /\ (h.revoked => g.revoked)
        /\ (g.id = id => g.revoked \/ id \in requests'[r].missed)
  <2>1. CASE UNCHANGED registrations /\ requests' = [requests EXCEPT ![r].todo = @ \ {id}, ![r].missed = @ \cup {id}]
    <3>1. id \in requests'[r].missed
      BY <1>2, <2>1 DEF RequestRecords
    <3>2. QED
      BY <2>1, <3>1
  <2>2. CASE registrations' = {[g EXCEPT !.revoked = @ \/ g.id = id] : g \in registrations}
    <3> DEFINE Off(g) == [g EXCEPT !.revoked = @ \/ g.id = id]
    <3>1. \A g \in RegistrationRecords :
            /\ Off(g).id = g.id /\ Off(g).identity = g.identity
            /\ (g.revoked => Off(g).revoked) /\ (g.id = id => Off(g).revoked)
      BY DEF RegistrationRecords
    <3>2. registrations' = {Off(g) : g \in registrations}
      BY <2>2
    <3> HIDE DEF Off
    <3>3. QED
      BY <1>2, <3>1, <3>2
  <2>3. QED
    BY <1>1, <2>1, <2>2
<1>5. QED
  <2> SUFFICES ASSUME NEW a \in Op("revoke")', NEW g \in registrations', Reached(a, g)'
               PROVE  /\ requests'[a].pc = "listed" =>
                           g.revoked \/ g.id \in requests'[a].todo \cup requests'[a].missed
                      /\ requests'[a].pc = "done" => g.revoked \/ g.id \in requests'[a].missed
    BY DEF ReachInv
  <2>1. PICK h \in registrations :
          g.id = h.id /\ g.identity = h.identity /\ (h.revoked => g.revoked)
          /\ (g.id = id => g.revoked \/ id \in requests'[r].missed)
    BY <1>4
  <2>2. a \in Op("revoke") /\ Reached(a, h)
    BY <1>3, <2>1 DEF Op, Reached
  <2>3. CASE a = r
    BY <1>2, <1>3, <2>1, <2>2, <2>3 DEF ReachInv
  <2>4. CASE a # r
    <3>1. requests'[a] = requests[a]
      BY <1>3, <2>2, <2>4 DEF Op
    <3>2. QED
      BY <2>1, <2>2, <3>1 DEF ReachInv
  <2>5. QED
    BY <2>3, <2>4

LEMMA AnswerKeepsReach ==
  ASSUME Typed, ReachInv, NEW r \in Requests, RevokeAnswers(r)
  PROVE  ReachInv'
<1>1. /\ requests[r].pc = "listed" /\ requests[r].todo = {} /\ Answer(r, {}) /\ UNCHANGED registrations
      /\ requests \in [Requests -> RequestRecords]
  BY DEF RevokeAnswers, At, Finish, stores, Typed, TypeOK
<1>2. /\ requests'[r].pc = "done" /\ requests'[r].missed = requests[r].missed
      /\ requests'[r].identity = requests[r].identity /\ requests'[r].op = requests[r].op
      /\ requests'[r].before = requests[r].before
      /\ \A a \in Requests \ {r} : requests'[a] = requests[a]
  BY <1>1 DEF RequestRecords, Answer
<1>3. QED
  BY <1>1, <1>2 DEF ReachInv, Reached, Op

(***************************************************************************)
(* Sessions and conversations.                                             *)
(***************************************************************************)
LEMMA TalkQuiet ==
  ASSUME Typed, TalkInv, NEW r \in Requests, NEW y, Moves(r, y), UNCHANGED messages,
         conversations \subseteq conversations',
         y.pc = "talking" => \E v \in conversations' : v.id = y.row /\ v.user = y.user /\ v.agent = y.agent,
         \A v \in y.shown : v.user = y.user /\ v.agent = y.agent
  PROVE  TalkInv'
<1>1. /\ Done \subseteq Done' /\ r \notin Done /\ \A q \in Done : requests'[q] = requests[q]
      /\ requests'[r] = y /\ \A q \in Requests \ {r} : requests'[q] = requests[q]
  BY MovesDone DEF Moves
<1>2. TalksInOwn' /\ ShownOwn'
  BY <1>1 DEF TalkInv, TalksInOwn, ShownOwn, Owned
<1>3. SaidInOwn'
  BY <1>1 DEF TalkInv, SaidInOwn, Owned
<1>4. QED
  BY <1>2, <1>3 DEF TalkInv

LEMMA RunLoopKeepsTalk ==
  ASSUME Typed, TalkInv, NEW r \in Requests, RunLoop(r)
  PROVE  TalkInv'
<1>1. PICK y : Moves(r, y) /\ Keeps(y, requests[r]) /\ y.pc = "done" /\ y.shown = {}
  BY RunLoopMoves
<1>2. /\ requests[r].pc = "talking" /\ UNCHANGED conversations
      /\ messages' = messages \cup {[conversation |-> requests[r].row, by |-> r]}
  BY RunLoopMoves
<1>3. /\ Done' = Done \cup {r} /\ r \notin Done /\ \A q \in Done : requests'[q] = requests[q]
      /\ requests'[r] = y /\ \A q \in Requests \ {r} : requests'[q] = requests[q]
      /\ y.user = requests[r].user /\ y.agent = requests[r].agent
  BY <1>1, MovesDone DEF Moves, Keeps
<1>4. \E v \in conversations : v.id = requests[r].row /\ Owned(v, r)
  BY <1>2 DEF TalkInv, TalksInOwn
<1>5. TalksInOwn' /\ ShownOwn'
  BY <1>1, <1>2, <1>3 DEF TalkInv, TalksInOwn, ShownOwn, Owned
<1>6. SaidInOwn'
  <2> DEFINE m == [conversation |-> requests[r].row, by |-> r]
  <2>1. m.conversation = requests[r].row /\ m.by = r
    OBVIOUS
  <2>2. messages' = messages \cup {m}
    BY <1>2
  <2> HIDE DEF m
  <2>3. QED
    BY <1>2, <1>3, <1>4, <2>1, <2>2 DEF TalkInv, SaidInOwn, Owned
<1>7. QED
  BY <1>5, <1>6 DEF TalkInv

(***************************************************************************)
(* Every step keeps the invariant.                                         *)
(***************************************************************************)
\* A step that touches neither codes nor registrations nor what is said.
LEMMA QuietIInv ==
  ASSUME IInv, Typed', NEW r \in Requests, NEW y, Moves(r, y),
         UNCHANGED <<codes, registrations, conversations, messages>>,
         y.op \notin {"reissue", "submit", "exchange", "refresh"}, y.op = "chat" => Keeps(y, requests[r]),
         y.op = "revoke" => y.pc \notin {"listed", "done"},
         y.pc # "talking", \A v \in y.shown : v.user = y.user /\ v.agent = y.agent,
         y.before = requests[r].before \/ y.before = Done \/ y.before = {}
  PROVE  IInv'
<1>1. Typed /\ Past /\ CodeInv /\ TokenInv /\ ReachInv /\ TalkInv
  BY DEF IInv
<1>2. Thinned(registrations', registrations) /\ Follows(registrations', registrations, r)
  BY <1>1 DEF Thinned, Follows, Typed, TypeOK, TablesOK
<1>3. Past' /\ CodeInv' /\ TokenInv' /\ TalkInv'
  BY <1>1, <1>2, PastKept, CodeQuiet, TokenQuiet, TalkQuiet
<1>4. ReachInv'
  BY <1>1, <1>2, ReachQuiet
<1>5. QED
  BY <1>3, <1>4 DEF IInv

LEMMA ComesKeepsIInv ==
  ASSUME IInv, NEW r \in Requests, Comes(r)
  PROVE  IInv'
<1> USE DEF IInv
<1>0. Follows(registrations, registrations, r) /\ Thinned(registrations, registrations)
  BY DEF Follows, Thinned, Typed, TypeOK, TablesOK
<1>1. CASE CheckActive(r)
  <2>1. PICK y : /\ Moves(r, y) /\ y.op = "reissue" /\ y.pc = "active" /\ y.before = Done /\ y.shown = {}
                 /\ Typed' /\ UNCHANGED stores
    BY <1>1, CheckActiveMoves DEF Came
  <2>2. CodeInv' /\ Past'
    BY <1>1, <2>1, CheckActiveKeepsCodes, PastKept
  <2>3. TokenInv' /\ TalkInv' /\ ReachInv'
    BY <1>0, <2>1, TokenQuiet, TalkQuiet, ReachQuiet DEF stores
  <2>4. QED
    BY <2>1, <2>2, <2>3
<1>2. CASE OpenStore(r)
  <2>1. PICK y : /\ Moves(r, y) /\ y.op = "revoke" /\ y.pc = "resolved" /\ y.before = Done /\ y.shown = {}
                 /\ Typed' /\ UNCHANGED stores
    BY <1>2, OpenStoreMoves DEF Came
  <2>2. QED
    BY <2>1, QuietIInv DEF stores
<1>3. CASE FindCode(r)
  <2>1. PICK y : /\ Moves(r, y) /\ y.op = "submit" /\ y.pc = "found" /\ y.before = Done /\ y.shown = {}
                 /\ Typed' /\ UNCHANGED stores
    BY <1>3, FindCodeMoves DEF Came
  <2>2. CodeInv' /\ Past'
    BY <1>3, <2>1, FindCodeKeepsCodes, PastKept
  <2>3. TokenInv' /\ TalkInv' /\ ReachInv'
    BY <1>0, <2>1, TokenQuiet, TalkQuiet, ReachQuiet DEF stores
  <2>4. QED
    BY <2>1, <2>2, <2>3
<1>4. CASE Token(r)
  <2>1. PICK y : /\ Moves(r, y) /\ y.op \in {"exchange", "refresh"} /\ y.pc = "granted"
                 /\ y.before = Done /\ y.shown = {} /\ Typed' /\ UNCHANGED stores
    BY <1>4, ReadGrantMoves, ReadRefreshMoves DEF Came, Token
  <2>2. TokenInv'
    BY <1>4, ReadGrantKeepsTokens, ReadRefreshKeepsTokens DEF Token
  <2>3. Past' /\ CodeInv' /\ TalkInv' /\ ReachInv'
    BY <1>0, <2>1, PastKept, CodeQuiet, TalkQuiet, ReachQuiet DEF stores
  <2>4. QED
    BY <2>1, <2>2, <2>3
<1>5. CASE OpenSession(r)
  <2>1. PICK y : /\ Moves(r, y) /\ y.op = "chat" /\ y.pc = "session" /\ y.before = Done /\ y.shown = {}
                 /\ Typed' /\ UNCHANGED stores
    BY <1>5, OpenSessionMoves DEF Came
  <2>2. TokenInv'
    BY <1>5, OpenSessionKeepsTokens
  <2>3. Past' /\ CodeInv' /\ TalkInv' /\ ReachInv'
    BY <1>0, <2>1, PastKept, CodeQuiet, TalkQuiet, ReachQuiet DEF stores
  <2>4. QED
    BY <2>1, <2>2, <2>3
<1>6. QED
  BY <1>1, <1>2, <1>3, <1>4, <1>5 DEF Comes

LEMMA ContinuesKeepsIInv ==
  ASSUME IInv, NEW r \in Requests, Continues(r)
  PROVE  IInv'
<1>1. Typed /\ Past /\ CodeInv /\ TokenInv /\ ReachInv /\ TalkInv
  BY DEF IInv
<1>2. /\ \A S \in SUBSET registrations : Thinned(S, registrations)
      /\ Thinned(registrations, registrations) /\ Follows(registrations, registrations, r)
      /\ \A S : Thinned(S, registrations) => Follows(S, registrations, r)
      /\ \A v \in requests[r].shown : v.user = requests[r].user /\ v.agent = requests[r].agent
  BY <1>1 DEF Thinned, Follows, Typed, TypeOK, TablesOK, TalkInv, ShownOwn, Owned
<1>3. CASE Stop(r)
  <2>1. PICK y : Moves(r, y) /\ y.op = "none" /\ y.pc = "done" /\ y.before = {} /\ y.shown = {}
    BY <1>1, <1>3, StopMoves
  <2>2. Typed' /\ UNCHANGED stores
    BY <1>1, <1>3, StopMoves
  <2>3. QED
    BY <2>1, <2>2, QuietIInv DEF stores
<1>4. CASE RetireCodes(r)
  <2>1. PICK y : Moves(r, y) /\ Keeps(y, requests[r]) /\ y.pc = "retired" /\ y.shown = requests[r].shown
    BY <1>1, <1>4, RetireCodesMoves
  <2>2. Typed' /\ requests[r].op = "reissue" /\ UNCHANGED <<registrations, conversations, messages>>
    BY <1>1, <1>4, RetireCodesMoves DEF RetireCodes, At
  <2>3. CodeInv'
    BY <1>1, <1>4, RetireCodesKeepsCodes
  <2>4. Past' /\ TokenInv' /\ TalkInv' /\ ReachInv'
    BY <1>1, <1>2, <2>1, <2>2, PastKept, TokenQuiet, TalkQuiet, ReachQuiet DEF Keeps
  <2>5. QED
    BY <2>2, <2>3, <2>4 DEF IInv
<1>5. CASE CreateCode(r)
  <2>1. PICK y : Moves(r, y) /\ Keeps(y, requests[r]) /\ y.pc = "done" /\ y.shown = {}
    BY <1>1, <1>5, CreateCodeMoves
  <2>2. Typed' /\ requests[r].op = "reissue" /\ UNCHANGED <<registrations, conversations, messages>>
    BY <1>1, <1>5, CreateCodeMoves DEF CreateCode, At
  <2>3. CodeInv'
    BY <1>1, <1>5, CreateCodeKeepsCodes
  <2>4. Past' /\ TokenInv' /\ TalkInv' /\ ReachInv'
    BY <1>1, <1>2, <2>1, <2>2, PastKept, TokenQuiet, TalkQuiet, ReachQuiet DEF Keeps
  <2>5. QED
    BY <2>2, <2>3, <2>4 DEF IInv
<1>6. CASE RevokeIdentity(r) \/ RevokeRegistration(r) \/ RevokeAnswers(r)
  <2>1. PICK y : Moves(r, y) /\ Keeps(y, requests[r]) /\ y.op = "revoke"
                 /\ (y.shown = requests[r].shown \/ y.shown = {})
    BY <1>1, <1>6, RevokeIdentityMoves, RevokeRegistrationMoves, RevokeAnswersMoves
  <2>2. Typed' /\ UNCHANGED <<codes, conversations, messages>> /\ Thinned(registrations', registrations)
    BY <1>1, <1>2, <1>6, RevokeIdentityMoves, RevokeRegistrationMoves, RevokeAnswersMoves
       DEF RevokeIdentity, RevokeRegistration, stores
  <2>3. y.pc # "talking"
    BY <2>1 DEF Moves, Placed
  <2>4. Past' /\ CodeInv' /\ TokenInv' /\ TalkInv'
    BY <1>1, <1>2, <2>1, <2>2, <2>3, PastKept, CodeQuiet, TokenQuiet, TalkQuiet DEF Keeps
  <2>5. ReachInv'
    <3>1. CASE RevokeIdentity(r)
      <4>1. UNCHANGED registrations /\ \E z : Moves(r, z) /\ z.op = "revoke" /\ z.pc = "revoked"
        BY <1>1, <3>1, RevokeIdentityMoves DEF RevokeIdentity
      <4>2. QED
        BY <1>1, <1>2, <4>1, ReachQuiet
    <3>2. QED
      BY <1>1, <1>6, <3>1, FlagKeepsReach, AnswerKeepsReach
  <2>6. QED
    BY <2>2, <2>4, <2>5 DEF IInv
<1>7. CASE ListRegistrations(r) \/ LookupOld(r)
  <2>1. PICK y : /\ Moves(r, y) /\ Keeps(y, requests[r]) /\ y.pc \in {"listed", "looked"}
                 /\ y.shown = requests[r].shown
    BY <1>1, <1>7, ReadingMoves
  <2>2. /\ Typed' /\ UNCHANGED stores
        /\ requests[r].pc \in {"revoked", "marked"} /\ requests[r].op \in {"revoke", "submit"}
    BY <1>1, <1>7, ReadingMoves
  <2>3. Past' /\ CodeInv' /\ TokenInv' /\ TalkInv'
    BY <1>1, <1>2, <2>1, <2>2, PastKept, CodeQuiet, TokenQuiet, TalkQuiet DEF Keeps, stores
  <2>4. ReachInv'
    <3>1. CASE LookupOld(r)
      <4>1. y.op = "submit"
        BY <2>1, <3>1 DEF LookupOld, At, Keeps
      <4>2. QED
        BY <1>1, <1>2, <2>1, <2>2, <4>1, ReachQuiet DEF stores
    <3>2. QED
      BY <1>1, <1>7, <3>1, ListKeepsReach
  <2>5. QED
    BY <2>2, <2>3, <2>4 DEF IInv
<1>8. CASE MarkUsed(r)
  <2>1. PICK y : Moves(r, y) /\ Keeps(y, requests[r]) /\ y.pc = "marked" /\ y.shown = requests[r].shown
    BY <1>1, <1>8, MarkUsedMoves
  <2>2. Typed' /\ requests[r].op = "submit" /\ UNCHANGED <<registrations, conversations, messages>>
    BY <1>1, <1>8, MarkUsedMoves DEF MarkUsed, At
  <2>3. CodeInv'
    BY <1>1, <1>8, MarkUsedKeepsCodes
  <2>4. Past' /\ TokenInv' /\ TalkInv' /\ ReachInv'
    BY <1>1, <1>2, <2>1, <2>2, PastKept, TokenQuiet, TalkQuiet, ReachQuiet DEF Keeps
  <2>5. QED
    BY <2>2, <2>3, <2>4 DEF IInv
<1>9. CASE DeleteOld(r)
  <2>1. PICK y : Moves(r, y) /\ Keeps(y, requests[r]) /\ y.pc = "cleared" /\ y.shown = requests[r].shown
    BY <1>1, <1>9, DeleteOldMoves
  <2>2. /\ Typed' /\ requests[r].pc = "looked" /\ requests[r].op = "submit"
        /\ registrations' \subseteq registrations /\ UNCHANGED <<codes, conversations, messages>>
    BY <1>1, <1>9, DeleteOldMoves
  <2>3. Past' /\ CodeInv' /\ TokenInv' /\ TalkInv' /\ ReachInv'
    BY <1>1, <1>2, <2>1, <2>2, PastKept, CodeQuiet, TokenQuiet, TalkQuiet, ReachQuiet DEF Keeps
  <2>4. QED
    BY <2>2, <2>3 DEF IInv
<1>10. CASE CreateRegistration(r)
  <2>1. PICK y : /\ Moves(r, y) /\ y.pc = "done" /\ y.shown = {}
                 /\ (y.op = "none" /\ y.before = {}) \/ Keeps(y, requests[r])
    BY <1>1, <1>10, CreateRegistrationMoves
  <2>2. /\ Typed' /\ requests[r].pc = "cleared" /\ requests[r].op = "submit"
        /\ UNCHANGED <<codes, conversations, messages>>
    BY <1>1, <1>10, CreateRegistrationMoves
  <2>3. TokenInv'
    BY <1>1, <1>10, CreateRegistrationKeepsTokens
  <2>4. Past' /\ CodeInv' /\ TalkInv'
    BY <1>1, <1>2, <2>1, <2>2, PastKept, CodeQuiet, TalkQuiet DEF Keeps
  <2>5. Follows(registrations', registrations, r)
    BY <1>1, <1>10, CreateRegistrationMoves DEF Follows
  <2>6. ReachInv'
    BY <1>1, <2>1, <2>2, <2>5, ReachQuiet DEF Keeps
  <2>7. QED
    BY <2>2, <2>3, <2>4, <2>6 DEF IInv
<1>11. CASE UpdateTokens(r)
  <2>1. PICK y : Moves(r, y) /\ Keeps(y, requests[r]) /\ y.pc = "done" /\ y.shown = {}
    BY <1>1, <1>11, UpdateTokensMoves
  <2>2. /\ Typed' /\ requests[r].op \in {"exchange", "refresh"}
        /\ UNCHANGED <<codes, conversations, messages>>
    BY <1>1, <1>11, UpdateTokensMoves
  <2>3. TokenInv'
    BY <1>1, <1>11, UpdateTokensKeepsTokens
  <2>4. Past' /\ CodeInv' /\ TalkInv'
    BY <1>1, <1>2, <2>1, <2>2, PastKept, CodeQuiet, TalkQuiet DEF Keeps
  <2>5. Follows(registrations', registrations, r)
    BY <1>1, <1>11, UpdateTokensMoves DEF Follows
  <2>6. ReachInv'
    BY <1>1, <2>1, <2>2, <2>5, ReachQuiet DEF Keeps
  <2>7. QED
    BY <2>2, <2>3, <2>4, <2>6 DEF IInv
<1>12. CASE ListConversations(r)
  <2>1. PICK y : /\ Moves(r, y) /\ Keeps(y, requests[r]) /\ y.pc = "done"
                 /\ \A v \in y.shown : Owned(v, r)
    BY <1>1, <1>12, ListConversationsMoves
  <2>2. requests[r].op = "chat" /\ Typed' /\ UNCHANGED stores
    BY <1>1, <1>12, ListConversationsMoves
  <2>3. \A v \in y.shown : v.user = y.user /\ v.agent = y.agent
    BY <2>1 DEF Keeps, Owned
  <2>4. QED
    BY <2>1, <2>2, <2>3, QuietIInv DEF stores, Keeps
<1>13. CASE ResolveConversation(r)
  <2>1. PICK y : /\ Moves(r, y) /\ Keeps(y, requests[r]) /\ y.pc = "talking" /\ y.shown = requests[r].shown
                 /\ \E v \in conversations' : v.id = y.row /\ Owned(v, r)
    BY <1>1, <1>13, ResolveConversationMoves
  <2>2. /\ Typed' /\ requests[r].op = "chat" /\ UNCHANGED <<codes, registrations, messages>>
        /\ conversations \subseteq conversations'
    BY <1>1, <1>13, ResolveConversationMoves
  <2>3. Past' /\ CodeInv' /\ TokenInv' /\ ReachInv'
    BY <1>1, <1>2, <2>1, <2>2, PastKept, CodeQuiet, TokenQuiet, ReachQuiet DEF Keeps
  <2>4. TalkInv'
    BY <1>1, <1>2, <2>1, <2>2, TalkQuiet DEF Keeps, Owned
  <2>5. QED
    BY <2>2, <2>3, <2>4 DEF IInv
<1>14. CASE RunLoop(r)
  <2>1. PICK y : Moves(r, y) /\ Keeps(y, requests[r]) /\ y.pc = "done" /\ y.shown = {}
    BY <1>1, <1>14, RunLoopMoves
  <2>2. Typed' /\ requests[r].op = "chat" /\ UNCHANGED <<codes, registrations, conversations>>
    BY <1>1, <1>14, RunLoopMoves
  <2>3. TalkInv'
    BY <1>1, <1>14, RunLoopKeepsTalk
  <2>4. Past' /\ CodeInv' /\ TokenInv' /\ ReachInv'
    BY <1>1, <1>2, <2>1, <2>2, PastKept, CodeQuiet, TokenQuiet, ReachQuiet DEF Keeps
  <2>5. QED
    BY <2>2, <2>3, <2>4 DEF IInv
<1>15. QED
  BY <1>3, <1>4, <1>5, <1>6, <1>7, <1>8, <1>9, <1>10, <1>11, <1>12, <1>13, <1>14 DEF Continues, CallTool

LEMMA StepIInv == IInv /\ [Next]_vars => IInv'
<1> SUFFICES ASSUME IInv, [Next]_vars PROVE IInv'
  OBVIOUS
<1>1. CASE Environment
  <2>1. /\ Typed' /\ UNCHANGED <<conversations, messages, requests>>
        /\ Dimmed(codes', codes) /\ Thinned(registrations', registrations)
    BY <1>1, EnvironmentTyped DEF IInv
  <2>2. CodeInv' /\ TokenInv' /\ ReachInv'
    BY <2>1, CodeDimmed, TokenThinned, ReachThinned DEF IInv
  <2>3. Past' /\ TalkInv'
    BY <2>1 DEF IInv, Past, Done, TalkInv, TalksInOwn, ShownOwn, SaidInOwn, Owned
  <2>4. QED
    BY <2>1, <2>2, <2>3 DEF IInv
<1>2. ASSUME NEW r \in Requests, Step(r) PROVE IInv'
  BY <1>2, ComesKeepsIInv, ContinuesKeepsIInv DEF Step, Comes, Continues
<1>3. CASE UNCHANGED vars
  <2>1. Typed'
    BY <1>3 DEF vars, IInv, Typed, TypeOK, TablesOK, Placements
  <2>2. CodeInv' /\ TokenInv' /\ ReachInv'
    <3>1. Dimmed(codes', codes) /\ Thinned(registrations', registrations)
      BY <1>3 DEF vars, IInv, Typed, TypeOK, TablesOK, Dimmed, Thinned
    <3>2. QED
      BY <1>3, <3>1, CodeDimmed, TokenThinned, ReachThinned DEF IInv, vars
  <2>3. Past' /\ TalkInv'
    BY <1>3 DEF vars, IInv, Past, Done, TalkInv, TalksInOwn, ShownOwn, SaidInOwn, Owned
  <2>4. QED
    BY <2>1, <2>2, <2>3 DEF IInv
<1>4. QED
  BY <1>1, <1>2, <1>3 DEF Next, Environment

\* The inductive invariant: what was handed out names the request it comes from,
\* and what was spent or retired is in no table any more.
THEOREM AccessInvariant == Spec => []IInv
BY InitIInv, StepIInv, PTL DEF Spec

(***************************************************************************)
(* The theorems.                                                           *)
(***************************************************************************)
\* The tables and the locals of the requests have their types.
THEOREM AccessTypes == Spec => []TypeOK
<1>1. IInv => TypeOK
  BY DEF IInv, Typed
<1>2. QED
  BY <1>1, AccessInvariant, PTL

\* A setup code, and what an exchange or a refresh was made with, is worth nothing
\* afterwards, unless requests for it overlap (mark_used, update_tokens).
THEOREM CodesAndTokensSpentOnce == Spec => []SpentOnce
<1>1. IInv => SpentOnce
  <2>1. /\ Accepted("submit") \subseteq Op("submit")
        /\ \A r \in Requests : requests[r].op \in {"exchange", "refresh", "chat"} => r \in Presents
    BY DEF Accepted, Done, Op, Presents
  <2>2. QED
    BY <2>1 DEF IInv, CodeInv, TokenInv, CodesOnce, TokensOnce, SpentOnce
<1>2. QED
  BY <1>1, AccessInvariant, PTL

\* A reissue that was acknowledged has retired the codes of before
\* (reissue_setup_code).
THEOREM ReissuesRetire == Spec => []ReissueRetires
<1>1. IInv => ReissueRetires
  <2>1. Accepted("submit") \subseteq Op("submit")
    BY DEF Accepted, Done, Op
  <2>2. QED
    BY <2>1 DEF IInv, CodeInv, RetiredUnused, ReissueRetires
<1>2. QED
  BY <1>1, AccessInvariant, PTL

\* An acknowledged revocation has revoked what was registered when it came
\* (revoke_mcp_identity).
THEOREM RevocationsReach == Spec => []RevocationReaches
<1>1. IInv => RevocationReaches
  <2>1. \A q \in Accepted("revoke") : q \in Op("revoke") /\ requests[q].pc = "done"
    BY DEF Accepted, Done, Op
  <2>2. QED
    BY <2>1 DEF IInv, ReachInv, Reached, RevocationReaches
<1>2. QED
  BY <1>1, AccessInvariant, PTL

\* A conversation is one user's and one agent's (get_by_id_scoped,
\* list_by_user_and_agent).
THEOREM ConversationsAreApart == Spec => []ConversationsStayApart
<1>1. IInv => ConversationsStayApart
  BY DEF IInv, TalkInv, SaidInOwn, ShownOwn, Owned, ConversationsStayApart
<1>2. QED
  BY <1>1, AccessInvariant, PTL
=============================================================================
