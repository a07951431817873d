------------------------ MODULE AgentVersionsProofs ------------------------
(***************************************************************************)
(* Theorems of AgentVersions, for any number of requests in any order.     *)
(*                                                                         *)
(* The argument: the versions are exactly 1..n, one row each, so that      *)
(* MAX(version) + 1 is new and the row it gets is the newest; and a row a  *)
(* request holds, however stale, is one of the table but for its flags.    *)
(***************************************************************************)
EXTENDS AgentVersions, TLAPS

Numbered == \E n \in Nat : Versions = 1..n
OneRowEach == \A x, y \in rows : x.version = y.version => x = y
ParentsExist == \A x \in rows : x.parent \in Versions \cup {0}

Same(x, y) == x.version = y.version /\ x.parent = y.parent /\ x.definition = y.definition
SeenExists ==
  \A r \in Requests : \A x \in requests[r].seen :
    /\ \E y \in rows : Same(x, y)
    /\ requests[r].op = "rollback" => x.version = requests[r].target
Locals == \A r \in Requests :
            /\ requests[r].pc \in {"new", "resolved"} => requests[r].seen = {}
            /\ requests[r].pc = "read" => requests[r].op \in {"update", "rollback"}
            /\ requests[r].made # 0 => requests[r].pc = "done"

IInv ==
  /\ TypeOK
  /\ Numbered
  /\ OneRowEach
  /\ ParentsExist
  /\ SeenExists
  /\ Locals
  /\ CurrentIsNewest
  /\ NeverVanishes
  /\ RollbackRestores

LEMMA NewVersionIsNext ==
  ASSUME NEW n \in Nat, Versions = 1..n
  PROVE  NewVersion = n + 1
<1> DEFINE S == Versions \cup {0}
<1>1. n \in S /\ \A y \in S : n >= y
  BY SMT
<1>2. \A x \in S : (\A y \in S : x >= y) => x = n
  BY SMT
<1>3. Max(S) = n
  BY <1>1, <1>2 DEF Max
<1>4. QED
  BY <1>3 DEF NewVersion

LEMMA InitIInv == Init => IInv
<1> SUFFICES ASSUME Init PROVE IInv
  OBVIOUS
<1>1. TypeOK
  BY DEF Init, TypeOK, NewReq, Rows, Reqs
<1>2. Numbered
  <2>1. Versions = {} /\ 1..0 = {}
    BY SMT DEF Init, Versions
  <2>2. QED
    BY <2>1 DEF Numbered
<1>3. QED
  BY <1>1, <1>2 DEF Init, IInv, OneRowEach, ParentsExist, SeenExists, Locals,
     CurrentIsNewest, Current, NeverVanishes, RollbackRestores, NewReq

\* A step of the handlers that only reads.
LEMMA QuietIInv ==
  ASSUME IInv, UNCHANGED rows, TypeOK', SeenExists', Locals', RollbackRestores'
  PROVE  IInv'
BY DEF IInv, Numbered, Versions, OneRowEach, ParentsExist, CurrentIsNewest, Current, NeverVanishes

LEMMA ReaderKeepsIInv ==
  ASSUME IInv, NEW r \in Requests, Begin(r) \/ Read(r) \/ NotFound(r) \/ RequestFails(r)
  PROVE  IInv'
<1>1. /\ TypeOK /\ SeenExists /\ Locals /\ RollbackRestores /\ UNCHANGED rows
      /\ requests[r].pc # "done" /\ requests[r].made = 0
  BY DEF IInv, Begin, Read, NotFound, RequestFails, Locals
<1>2. CASE Begin(r)
  <2>1. PICK op \in {"update", "rollback", "delete"}, v \in 1..MaxTarget :
          requests' = [requests EXCEPT ![r].pc = "resolved", ![r].op = op,
                         ![r].target = IF op = "rollback" THEN v ELSE 0]
    BY <1>2 DEF Begin
  <2>2. v \in Nat
    BY RequestsAssumption, SMT
  <2>3. requests[r].pc = "new" /\ requests[r].seen = {}
    BY <1>1, <1>2 DEF Begin, Locals
  <2>4. TypeOK'
    <3> DEFINE t  == IF op = "rollback" THEN v ELSE 0
               rq == [requests[r] EXCEPT !.pc = "resolved", !.op = op, !.target = t]
    <3>1. t \in Nat
      BY <2>2
    <3> HIDE DEF t
    <3>2. rq \in Reqs
      BY <1>1, <3>1 DEF TypeOK, Reqs
    <3>3. requests' = [requests EXCEPT ![r] = rq]
      BY <1>1, <2>1 DEF TypeOK, Reqs, t
    <3> HIDE DEF rq
    <3>4. QED
      BY <1>1, <3>2, <3>3 DEF TypeOK
  <2>5. SeenExists' /\ Locals' /\ RollbackRestores'
    BY <1>1, <2>1, <2>3 DEF TypeOK, Reqs, SeenExists, Locals, RollbackRestores
  <2>6. QED
    BY <1>1, <2>4, <2>5, QuietIInv
<1>3. CASE Read(r)
  <2>1. PICK x \in Answers(r) :
          requests' = [requests EXCEPT ![r].pc = "read", ![r].seen = {x}]
    BY <1>3 DEF Read
  <2>2. /\ x \in rows /\ Same(x, x)
        /\ requests[r].op = "rollback" => x.version = requests[r].target
        /\ requests[r].op \in {"update", "rollback"}
    BY <1>3, <2>1 DEF Read, Answers, Current, Same
  <2>3. TypeOK'
    BY <1>1, <2>1, <2>2 DEF TypeOK, Reqs
  <2>4. SeenExists' /\ Locals' /\ RollbackRestores'
    BY <1>1, <2>1, <2>2 DEF TypeOK, Reqs, SeenExists, Locals, RollbackRestores
  <2>5. QED
    BY <1>1, <2>3, <2>4, QuietIInv
<1>4. CASE NotFound(r) \/ RequestFails(r)
  <2>1. requests' = [requests EXCEPT ![r].pc = "done"]
    BY <1>4 DEF NotFound, RequestFails
  <2>2. TypeOK' /\ SeenExists' /\ Locals' /\ RollbackRestores'
    BY <1>1, <2>1 DEF TypeOK, Reqs, SeenExists, Locals, RollbackRestores
  <2>3. QED
    BY <1>1, <2>2, QuietIInv
<1>5. QED
  BY <1>2, <1>3, <1>4

LEMMA CreateKeepsIInv == ASSUME IInv, Create PROVE IInv'
<1>1. PICK d \in Definitions :
        rows' = {[version |-> 1, current |-> TRUE, status |-> "active",
                  parent |-> 0, definition |-> d]}
  BY DEF Create, FirstVersion
<1>2. rows = {} /\ UNCHANGED requests
  BY DEF Create, FirstVersion
<1>3. TypeOK'
  BY <1>1, <1>2 DEF IInv, TypeOK, Rows
<1>4. Versions' = {1} /\ 1..1 = {1}
  BY <1>1, SMT DEF Versions
<1>5. Numbered'
  BY <1>4 DEF Numbered
<1>6. OneRowEach' /\ ParentsExist' /\ CurrentIsNewest' /\ NeverVanishes'
  <2> DEFINE first == [version |-> 1, current |-> TRUE, status |-> "active",
                       parent |-> 0, definition |-> d]
  <2>1. rows' = {first} /\ first.parent = 0 /\ first.current
    BY <1>1
  <2> HIDE DEF first
  <2>2. QED
    BY <2>1 DEF OneRowEach, ParentsExist, CurrentIsNewest, NeverVanishes, Current
<1>7. SeenExists' /\ Locals' /\ RollbackRestores'
  BY <1>2 DEF IInv, SeenExists, Locals, RollbackRestores
<1>8. QED
  BY <1>3, <1>5, <1>6, <1>7 DEF IInv

(***************************************************************************)
(* A new version: the old rows lose their flag, and one row comes on top.  *)
(***************************************************************************)
LEMMA NewVersionKeepsIInv ==
  ASSUME IInv, NEW r \in Requests, CreateNewVersion(r)
  PROVE  IInv'
<1>1. PICK x \in requests[r].seen, d \in Definitions :
        /\ requests[r].op = "rollback" => d = x.definition
        /\ rows' = Retired \cup {Copied(x, d)}
        /\ requests' = [requests EXCEPT ![r].pc = "done", ![r].made = NewVersion]
  BY DEF CreateNewVersion
<1>2. PICK n \in Nat : Versions = 1..n
  BY DEF IInv, Numbered
<1>3. NewVersion = n + 1
  BY <1>2, NewVersionIsNext
<1> DEFINE new == Copied(x, d)
<1>4. x \in Rows
  BY DEF IInv, TypeOK, Reqs
<1>5. PICK p \in rows : Same(x, p) /\ (requests[r].op = "rollback" => x.version = requests[r].target)
  BY DEF IInv, SeenExists
<1>6. /\ new \in Rows /\ new.version = n + 1 /\ new.current /\ new.parent = p.version
      /\ new.definition = d
  BY <1>3, <1>4, <1>5 DEF Copied, Rows, Same
<1> DEFINE Off(y) == [y EXCEPT !.current = FALSE]
<1>7. /\ Retired \subseteq Rows
      /\ \A y \in rows : \E z \in Retired : Same(y, z)
      /\ \A z \in Retired : z.version \in 1..n /\ ~z.current
      /\ \A z \in Retired : \E y \in rows : z = Off(y) /\ Same(y, z)
  <2>1. \A y \in rows : Off(y) \in Rows /\ Same(y, Off(y)) /\ ~Off(y).current
    BY DEF IInv, TypeOK, Rows, Same
  <2>2. \A y \in rows : y.version \in 1..n
    BY <1>2 DEF Versions
  <2>3. Retired = {Off(y) : y \in rows}
    BY DEF Retired
  <2> HIDE DEF Off
  <2>4. QED
    BY <2>1, <2>2, <2>3 DEF Same
<1> HIDE DEF Off
<1> HIDE DEF new
<1>8. rows' = Retired \cup {new}
  BY <1>1 DEF new
<1>9. TypeOK'
  <2>1. requests' \in [Requests -> Reqs]
    <3> DEFINE rq == [requests[r] EXCEPT !.pc = "done", !.made = NewVersion]
    <3>1. NewVersion \in Nat
      BY <1>3, SMT
    <3>2. rq \in Reqs
      BY <3>1 DEF IInv, TypeOK, Reqs
    <3>3. requests' = [requests EXCEPT ![r] = rq]
      BY <1>1 DEF IInv, TypeOK, Reqs
    <3> HIDE DEF rq
    <3>4. QED
      BY <3>2, <3>3 DEF IInv, TypeOK
  <2>2. QED
    BY <2>1, <1>6, <1>7, <1>8 DEF TypeOK
<1>10. Versions' = 1..(n + 1)
  <2>1. {z.version : z \in Retired} = Versions
    BY <1>7 DEF Same, Versions
  <2>2. Versions' = {z.version : z \in Retired} \cup {n + 1}
    BY <1>6, <1>8 DEF Versions
  <2>3. (1..n) \cup {n + 1} = 1..(n + 1)
    BY SMT
  <2>4. QED
    BY <1>2, <2>1, <2>2, <2>3
<1>11. Numbered'
  BY <1>10 DEF Numbered
<1>12. OneRowEach'
  <2>1. \A y, z \in Retired : y.version = z.version => y = z
    BY <1>7 DEF IInv, OneRowEach, Same
  <2>2. \A z \in Retired : z.version # new.version
    BY <1>6, <1>7, SMT
  <2>3. QED
    BY <1>8, <2>1, <2>2 DEF OneRowEach
<1>13. ParentsExist'
  <2>1. p.version \in Versions /\ Versions \subseteq Versions'
    <3>1. 1..n \subseteq 1..(n + 1)
      BY SMT
    <3>2. QED
      BY <3>1, <1>2, <1>10 DEF Versions
  <2>2. \A z \in Retired : z.parent \in Versions \cup {0}
    BY <1>7 DEF IInv, ParentsExist, Same
  <2>3. QED
    BY <1>6, <1>8, <2>1, <2>2 DEF ParentsExist
<1>14. CurrentIsNewest' /\ NeverVanishes'
  <2>1. Current' = {new}
    BY <1>6, <1>7, <1>8 DEF Current
  <2>2. \A z \in Retired : z.version < new.version
    BY <1>6, <1>7, SMT
  <2>3. QED
    BY <1>8, <2>1, <2>2 DEF CurrentIsNewest, NeverVanishes
<1>15. Locals'
  BY <1>1 DEF IInv, TypeOK, Reqs, Locals
<1>16. \A y \in rows : \E z \in rows' : Same(y, z)
  BY <1>7, <1>8
<1>17. SeenExists'
  <2> SUFFICES ASSUME NEW q \in Requests, NEW y \in requests'[q].seen
               PROVE  /\ \E z \in rows' : Same(y, z)
                      /\ requests'[q].op = "rollback" => y.version = requests'[q].target
    BY DEF SeenExists
  <2>1. /\ requests'[q].seen = requests[q].seen /\ requests'[q].op = requests[q].op
        /\ requests'[q].target = requests[q].target
    BY <1>1 DEF IInv, TypeOK, Reqs
  <2>2. QED
    BY <1>16, <2>1 DEF IInv, SeenExists, Same
<1>18. RollbackRestores'
  <2> SUFFICES ASSUME NEW q \in Requests, requests'[q].op = "rollback", requests'[q].made # 0
               PROVE  \E y, z \in rows' :
                        /\ y.version = requests'[q].made /\ z.version = requests'[q].target
                        /\ y.parent = z.version /\ y.definition = z.definition
    BY DEF RollbackRestores
  <2>1. CASE q = r
    <3>1. /\ requests[r].op = "rollback" /\ requests'[r].made = n + 1
          /\ requests'[r].target = requests[r].target
      BY <2>1, <1>1, <1>3 DEF IInv, TypeOK, Reqs
    <3>2. PICK z \in rows' : Same(p, z)
      BY <1>16
    <3>3. new \in rows' /\ new.definition = z.definition /\ z.version = requests[r].target
      BY <1>1, <1>5, <1>6, <1>8, <3>1, <3>2 DEF Same
    <3>4. QED
      BY <2>1, <3>1, <3>2, <3>3, <1>6 DEF Same
  <2>2. CASE q # r
    <3>1. requests'[q] = requests[q]
      BY <2>2, <1>1 DEF IInv, TypeOK
    <3>2. PICK y, z \in rows : /\ y.version = requests[q].made /\ z.version = requests[q].target
                              /\ y.parent = z.version /\ y.definition = z.definition
      BY <3>1 DEF IInv, RollbackRestores
    <3>3. PICK y1, z1 \in rows' : Same(y, y1) /\ Same(z, z1)
      BY <1>16
    <3>4. QED
      BY <3>1, <3>2, <3>3 DEF Same
  <2>3. QED
    BY <2>1, <2>2
<1>19. QED
  BY <1>9, <1>11, <1>12, <1>13, <1>14, <1>15, <1>17, <1>18 DEF IInv

LEMMA DeleteKeepsIInv == ASSUME IInv, NEW r \in Requests, Delete(r) PROVE IInv'
<1> DEFINE Off(x) == IF x.current THEN [x EXCEPT !.status = "disabled", !.current = FALSE] ELSE x
<1>1. rows' = {Off(x) : x \in rows} /\ requests' = [requests EXCEPT ![r].pc = "done"]
  BY DEF Delete
<1>2. \A x \in rows : Off(x) \in Rows /\ Same(x, Off(x)) /\ ~Off(x).current
  BY DEF IInv, TypeOK, Rows, Same
<1>3. \A x \in rows : x.current => Off(x).status = "disabled"
  BY DEF IInv, TypeOK, Rows
<1>n. \A x \in rows : ~x.current => Off(x) = x
  OBVIOUS
<1> HIDE DEF Off
<1>4. rows' \subseteq Rows /\ Current' = {}
  BY <1>1, <1>2 DEF Current
<1>5. /\ \A x \in rows : \E z \in rows' : Same(x, z)
      /\ \A z \in rows' : \E x \in rows : Same(x, z)
  BY <1>1, <1>2
<1>6. TypeOK'
  BY <1>1, <1>4 DEF IInv, TypeOK, Reqs
<1>7. Versions' = Versions
  BY <1>5 DEF Same, Versions
<1>8. Numbered' /\ ParentsExist'
  BY <1>5, <1>7 DEF IInv, Numbered, ParentsExist, Same
<1>9. OneRowEach'
  BY <1>1, <1>2 DEF IInv, OneRowEach, Same
<1>10. CurrentIsNewest'
  BY <1>4 DEF CurrentIsNewest
<1>11. NeverVanishes'
  <2> SUFFICES ASSUME rows' # {}
               PROVE  \E z \in rows' : z.status = "disabled" /\ \A w \in rows' : w.version <= z.version
    BY DEF NeverVanishes
  <2>1. PICK x \in rows : \A y \in rows : y.version <= x.version /\ Off(x).status = "disabled"
    <3>1. CASE Current = {}
      <4>1. PICK x \in rows : x.status = "disabled" /\ \A y \in rows : y.version <= x.version
        BY <3>1, <1>1 DEF IInv, NeverVanishes
      <4>2. Off(x) = x
        BY <3>1, <1>n DEF Current
      <4>3. QED
        BY <4>1, <4>2
    <3>2. CASE Current # {}
      <4>1. PICK x \in rows : x.current
        BY <3>2 DEF Current
      <4>2. \A y \in rows : y.version <= x.version
        BY <4>1 DEF IInv, CurrentIsNewest, Current, TypeOK, Rows
      <4>3. QED
        BY <4>1, <4>2, <1>3
    <3>3. QED
      BY <3>1, <3>2
  <2>2. \A w \in rows' : w.version <= Off(x).version
    BY <1>1, <1>2, <2>1 DEF Same
  <2>3. QED
    BY <1>1, <2>1, <2>2
<1>12. SeenExists' /\ Locals'
  <2>1. \A q \in Requests : /\ requests'[q].seen = requests[q].seen /\ requests'[q].op = requests[q].op
                            /\ requests'[q].target = requests[q].target
                            /\ requests'[q].made = requests[q].made
                            /\ requests'[q].pc \in {requests[q].pc, "done"}
    BY <1>1 DEF IInv, TypeOK, Reqs
  <2>2. SeenExists'
    BY <2>1, <1>5 DEF IInv, SeenExists, Same
  <2>3. Locals'
    BY <2>1, <1>1 DEF IInv, Locals
  <2>4. QED
    BY <2>2, <2>3
<1>13. RollbackRestores'
  <2> SUFFICES ASSUME NEW q \in Requests, requests'[q].op = "rollback", requests'[q].made # 0
               PROVE  \E y, z \in rows' :
                        /\ y.version = requests'[q].made /\ z.version = requests'[q].target
                        /\ y.parent = z.version /\ y.definition = z.definition
    BY DEF RollbackRestores
  <2>1. /\ requests'[q].op = requests[q].op /\ requests'[q].target = requests[q].target
        /\ requests'[q].made = requests[q].made
    BY <1>1 DEF IInv, TypeOK, Reqs
  <2>2. PICK y, z \in rows : /\ y.version = requests[q].made /\ z.version = requests[q].target
                            /\ y.parent = z.version /\ y.definition = z.definition
    BY <2>1 DEF IInv, RollbackRestores
  <2>3. PICK y1, z1 \in rows' : Same(y, y1) /\ Same(z, z1)
    BY <1>5
  <2>4. QED
    BY <2>1, <2>2, <2>3 DEF Same
<1>14. QED
  BY <1>6, <1>8, <1>9, <1>10, <1>11, <1>12, <1>13 DEF IInv

LEMMA StepIInv == IInv /\ [Next]_vars => IInv'
<1> SUFFICES ASSUME IInv, [Next]_vars PROVE IInv'
  OBVIOUS
<1>1. CASE Create
  BY <1>1, CreateKeepsIInv
<1>2. ASSUME NEW r \in Requests,
             \/ Begin(r) \/ Read(r) \/ NotFound(r)
             \/ CreateNewVersion(r) \/ Delete(r) \/ RequestFails(r)
      PROVE  IInv'
  BY <1>2, ReaderKeepsIInv, NewVersionKeepsIInv, DeleteKeepsIInv
<1>3. CASE UNCHANGED vars
  BY <1>3 DEF vars, IInv, TypeOK, Numbered, Versions, OneRowEach, ParentsExist, SeenExists, Locals,
     CurrentIsNewest, Current, NeverVanishes, RollbackRestores
<1>4. QED
  BY <1>1, <1>2, <1>3 DEF Next

(***************************************************************************)
(* The theorems.                                                           *)
(***************************************************************************)
LEMMA Invariance == Spec => []IInv
BY InitIInv, StepIInv, PTL DEF Spec

\* The table and the requests keep their types (store/models/agent.rs).
THEOREM VersionTypes == Spec => []TypeOK
<1>1. IInv => TypeOK
  BY DEF IInv
<1>2. QED
  BY <1>1, Invariance, PTL

\* However many updates, rollbacks and deletes overlap, get_current has one row
\* to find, and that is the newest version.
THEOREM TheNewestIsCurrent == Spec => []CurrentIsNewest
<1>1. IInv => CurrentIsNewest
  BY DEF IInv
<1>2. QED
  BY <1>1, Invariance, PTL

\* No request that fails or loses a race leaves the agent without a current
\* version: create_new_version's two statements are one transaction.
THEOREM OnlyDeletesVanish == Spec => []NeverVanishes
<1>1. IInv => NeverVanishes
  BY DEF IInv
<1>2. QED
  BY <1>1, Invariance, PTL

\* A rollback answers with a copy of the version it was asked for.
THEOREM RollbacksRestore == Spec => []RollbackRestores
<1>1. IInv => RollbackRestores
  BY DEF IInv
<1>2. QED
  BY <1>1, Invariance, PTL

\* Once deleted with no update in flight, an agent comes back by rollback only.
THEOREM DeletionLasts == Spec => DeletedStaysDeleted
<1>1. IInv /\ [Next]_vars => [StaysDeleted]_vars
  <2> DEFINE RolledBack == \E r \in Requests : /\ requests[r].op = "rollback"
                                               /\ requests'[r].made \in {x.version : x \in Current'}
  <2> SUFFICES ASSUME IInv, Next, Deleted, InFlight = {}
               PROVE  (Deleted' /\ InFlight' = {}) \/ RolledBack
    BY DEF StaysDeleted
  <2>0. rows # {} /\ Current = {} /\ requests \in [Requests -> Reqs]
        /\ \A r \in Requests : requests[r].pc = "read" => requests[r].op # "update"
    BY DEF Deleted, InFlight, IInv, TypeOK, Reqs
  <2>1. PICK r \in Requests : \/ Begin(r) \/ Read(r) \/ NotFound(r)
                              \/ CreateNewVersion(r) \/ Delete(r) \/ RequestFails(r)
    BY <2>0 DEF Next, Create, FirstVersion
  <2>2. CASE Begin(r) \/ NotFound(r) \/ RequestFails(r)
    BY <2>0, <2>2 DEF Begin, NotFound, RequestFails, Deleted, InFlight, Current, Reqs
  <2>3. CASE Read(r)
    <3>1. requests[r].op = "rollback"
      BY <2>0, <2>3 DEF Read, Answers
    <3>2. QED
      BY <2>0, <2>3, <3>1 DEF Read, Deleted, InFlight, Current, Reqs
  <2>4. CASE CreateNewVersion(r)
    <3>1. PICK x \in requests[r].seen, d \in Definitions :
            /\ rows' = Retired \cup {Copied(x, d)}
            /\ requests' = [requests EXCEPT ![r].pc = "done", ![r].made = NewVersion]
      BY <2>4 DEF CreateNewVersion
    <3>2. Copied(x, d) \in Current' /\ Copied(x, d).version = NewVersion
      BY <3>1 DEF Current, Copied
    <3>3. requests'[r].made = NewVersion
      BY <2>0, <3>1 DEF Reqs
    <3>4. requests[r].op = "rollback"
      BY <2>0, <2>4 DEF CreateNewVersion, IInv, Locals
    <3>5. QED
      BY <3>2, <3>3, <3>4
  <2>5. CASE Delete(r)
    <3>1. rows' = rows
      BY <2>0, <2>5 DEF Delete, Current
    <3>2. requests' = [requests EXCEPT ![r].pc = "done"]
      BY <2>5 DEF Delete
    <3>3. QED
      BY <2>0, <3>1, <3>2 DEF Deleted, InFlight, Current, Reqs
  <2>6. QED
    BY <2>1, <2>2, <2>3, <2>4, <2>5
<1>2. QED
  BY <1>1, Invariance, PTL DEF Spec, DeletedStaysDeleted

\* Whatever overlaps, the table is an append-only history of numbered versions of
\* which only the newest is ever live.
THEOREM VersionsImplementHistory == Spec => ImplementsHistory
<1>1. Init => History!HistoryInit
  BY DEF Init, Current, History!HistoryInit
<1> DEFINE H == {[version |-> x.version, parent |-> x.parent, definition |-> x.definition] : x \in rows}
           L == {x.version : x \in Current}
<1>2. IInv /\ [Next]_vars => [History!HistoryNext]_(History!historyVars)
  <2> SUFFICES ASSUME IInv, [Next]_vars
               PROVE  History!HistoryNext \/ (H' = H /\ L' = L)
    BY DEF History!historyVars
  <2>q. UNCHANGED rows => H' = H /\ L' = L
    BY DEF Current
  <2>1. CASE Create
    <3>1. PICK d \in Definitions :
            rows' = {[version |-> 1, current |-> TRUE, status |-> "active",
                      parent |-> 0, definition |-> d]}
      BY <2>1 DEF Create, FirstVersion
    <3> DEFINE h == [version |-> 1, parent |-> 0, definition |-> d]
    <3>2. H = {} /\ H' = {h} /\ L' = {1} /\ h.version = 1 /\ h.parent = 0
      BY <2>1, <3>1 DEF Create, FirstVersion, Current
    <3> HIDE DEF h
    <3>3. History!Publish
      BY <3>2 DEF History!Publish, History!Numbers
    <3>4. QED
      BY <3>3 DEF History!HistoryNext
  <2>2. ASSUME NEW r \in Requests, CreateNewVersion(r) PROVE History!HistoryNext
    <3>1. PICK x \in requests[r].seen, d \in Definitions : rows' = Retired \cup {Copied(x, d)}
      BY <2>2 DEF CreateNewVersion
    <3>2. PICK n \in Nat : Versions = 1..n
      BY DEF IInv, Numbered
    <3>3. NewVersion = n + 1
      BY <3>2, NewVersionIsNext
    <3>4. PICK p \in rows : Same(x, p)
      BY DEF IInv, SeenExists
    <3> DEFINE h == [version |-> n + 1, parent |-> p.version, definition |-> d]
               Entry(y) == [version |-> y.version, parent |-> y.parent, definition |-> y.definition]
               Off(y) == [y EXCEPT !.current = FALSE]
               new == Copied(x, d)
    <3>5. Entry(new) = h /\ new.current /\ new.version = n + 1
      BY <3>3, <3>4 DEF Copied, Same
    <3>6. \A y \in rows : Entry(Off(y)) = Entry(y) /\ ~Off(y).current
      BY DEF IInv, TypeOK, Rows
    <3>7. /\ H = {Entry(y) : y \in rows} /\ H' = {Entry(y) : y \in rows'}
          /\ Retired = {Off(y) : y \in rows}
      BY DEF Retired
    <3>8. h.version = n + 1 /\ h.parent = p.version /\ \A y : Entry(y).version = y.version
      OBVIOUS
    <3> HIDE DEF Entry, Off, h, new
    <3>9. {k.version : k \in {Entry(y) : y \in rows}} = Versions
      BY <3>8 DEF Versions
    <3>10. H' = H \cup {h}
      <4>1. {Entry(z) : z \in {Off(y) : y \in rows}} = {Entry(y) : y \in rows}
        BY <3>6
      <4>2. rows' = {Off(y) : y \in rows} \cup {new}
        BY <3>1, <3>7 DEF new
      <4>3. {Entry(y) : y \in rows'} = {Entry(z) : z \in {Off(y) : y \in rows}} \cup {Entry(new)}
        BY <4>2
      <4>4. QED
        BY <4>1, <4>3, <3>5, <3>7
    <3>11. L' = {n + 1}
      <4>1. Current' = {new}
        BY <3>1, <3>5, <3>6, <3>7 DEF Current, new
      <4>2. QED
        BY <4>1, <3>5
    <3>12. \A m \in Versions : m < n + 1
      BY <3>2, SMT
    <3>13. p.version \in Versions /\ H # {}
      BY DEF Versions
    <3> HIDE DEF H, L
    <3>14. History!Publish
      <4>1. {k.version : k \in H} = Versions
        BY <3>7, <3>9
      <4>2. h \in H' /\ L' = {h.version} /\ h.parent \in Versions
            /\ \A m \in Versions : m < h.version
        BY <3>8, <3>10, <3>11, <3>12, <3>13
      <4>3. QED
        BY <4>1, <4>2, <3>10, <3>13 DEF History!Publish, History!Numbers, H, L
    <3>15. QED
      BY <3>14 DEF History!HistoryNext
  <2>3. ASSUME NEW r \in Requests, Delete(r) PROVE History!HistoryNext
    <3> DEFINE Off(x) == IF x.current THEN [x EXCEPT !.status = "disabled", !.current = FALSE] ELSE x
               Entry(y) == [version |-> y.version, parent |-> y.parent, definition |-> y.definition]
    <3>1. rows' = {Off(x) : x \in rows}
      BY <2>3 DEF Delete
    <3>2. \A x \in rows : Entry(Off(x)) = Entry(x) /\ ~Off(x).current
      BY DEF IInv, TypeOK, Rows
    <3>3. H = {Entry(y) : y \in rows} /\ H' = {Entry(y) : y \in rows'}
      OBVIOUS
    <3> HIDE DEF Off, Entry
    <3>4. H' = H
      BY <3>1, <3>2, <3>3
    <3>5. L' = {}
      BY <3>1, <3>2 DEF Current
    <3>6. History!Retire
      BY <3>4, <3>5 DEF History!Retire
    <3>7. QED
      BY <3>6 DEF History!HistoryNext
  <2>4. ASSUME NEW r \in Requests, Begin(r) \/ Read(r) \/ NotFound(r) \/ RequestFails(r)
        PROVE  H' = H /\ L' = L
    BY <2>4, <2>q DEF Begin, Read, NotFound, RequestFails
  <2>5. CASE UNCHANGED vars
    BY <2>5, <2>q DEF vars
  <2>6. QED
    BY <2>1, <2>2, <2>3, <2>4, <2>5 DEF Next
<1>3. QED
  BY <1>1, <1>2, Invariance, PTL DEF Spec, ImplementsHistory, History!HistorySpec
=============================================================================
