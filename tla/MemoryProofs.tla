---------------------------- MODULE MemoryProofs ----------------------------
(***************************************************************************)
(* Theorems of Memory, for any number of requests, agents, users and keys, *)
(* any settings, however requests overlap and wherever they stop.          *)
(*                                                                         *)
(* The argument: an entry's value names a run that wrote it, under the     *)
(* settings it had loaded; so its scope says whose it is, unless a         *)
(* promotion has copied it.  What a run wrote is found under its key and   *)
(* scope, unarchived, until its user is offboarded or a promotion has      *)
(* copied it; what is written over it is of a run that was not over when   *)
(* that run began, or what a promotion copied to the tenant's scope.       *)
(***************************************************************************)
EXTENDS Memory, TLAPS

Ops == {"none", "run", "search", "configure", "promote", "offboard"}
Labels == {"new", "loaded", "answering", "curating", "found", "copied", "done"}
Names == Users \cup {Nobody}
Scopes == {"tenant"} \cup Names

\* The id of an entry keeps the place it was inserted at.
Entries ==
  {m \in [id : Requests \X Agents \X Scopes \X Keys, agent : Agents, scope : Scopes, key : Keys,
          value : Requests, archived : BOOLEAN] :
     m.id[2] = m.agent /\ m.id[3] = m.scope /\ m.id[4] = m.key}
Writes == [key : Keys, scopes : SUBSET Scopes]
RequestRecords ==
  [pc : Labels, op : Ops, ok : BOOLEAN, agent : Agents \cup {Nobody}, user : Names,
   under : SUBSET Choices, told : SUBSET Entries, wrote : SUBSET Writes,
   row : SUBSET Entries, copied : SUBSET Entries, before : SUBSET Requests]

TablesOK == settings \in [Agents -> Choices] /\ memories \subseteq Entries

\* What the program counter says of the other locals of a request.
Placed(x) ==
  /\ x.pc = "new" => x.op = "none"
  /\ x.pc \in {"loaded", "curating"} => x.op = "run"
  /\ x.pc = "answering" => x.op \in {"run", "search"}
  /\ x.pc \in {"found", "copied"} => x.op = "promote"
  /\ x.op = "run" /\ x.pc # "done" => x.agent \in Agents
  /\ x.op = "offboard" => x.pc = "done"
  /\ x.wrote # {} => x.op = "run"
  /\ x.copied # {} => x.op = "promote"
  /\ x.pc = "found" => x.copied = {}
  /\ x.pc = "copied" => x.copied = x.row
  /\ \A set, other \in x.under : set = other

Placements == \A r \in Requests : Placed(requests[r])
Typed == TablesOK /\ requests \in [Requests -> RequestRecords] /\ Placements

(***************************************************************************)
(* The invariant.                                                          *)
(***************************************************************************)
\* What a request saw as over when it came is over.
Past == \A r \in Requests : requests[r].before \subseteq Done

PromotedValue(value) == \E p \in Requests : \E e \in requests[p].copied : e.value = value

\* The run that wrote the entry, and why it has its scope.
Learnt(m) ==
  /\ requests[m.value].wrote # {}
  /\ \/ PromotedValue(m.value)
     \/ \E set \in requests[m.value].under : m.scope \in Scope(set, requests[m.value].user)

AllLearnt ==
  /\ \A m \in memories : Learnt(m)
  /\ \A r \in Requests : \A m \in requests[r].told \cup requests[r].row : Learnt(m)
ToldInScope == \A r \in Requests : \A m \in requests[r].told : m.scope \in {"tenant", requests[r].user}
ArchivedByPromotion == \A m \in memories : m.archived => PromotedFrom(m.agent, m.scope, m.key)

Offboarded(s, before) ==
  \E o \in Requests : requests[o].op = "offboard" /\ requests[o].user = s /\ o \notin before
Excused(agent, x, s, before) == Offboarded(s, before) \/ PromotedFrom(agent, s, x.key)

\* The entry's value is not one that was there before.
Later(m, before) == m.value \notin before \/ PromotedTo(m)
Stored(agent, x, s, before) ==
  \E m \in memories : /\ m.agent = agent /\ m.key = x.key /\ m.scope = s
                      /\ ~m.archived /\ Later(m, before)

WrittenInScope ==
  \A w \in Requests : \A x \in requests[w].wrote : \A s \in x.scopes :
    \E set \in requests[w].under : s \in Scope(set, requests[w].user)
Kept ==
  \A w \in Requests : \A x \in requests[w].wrote : \A s \in x.scopes :
    \/ Stored(requests[w].agent, x, s, requests[w].before)
    \/ Excused(requests[w].agent, x, s, requests[w].before)

\* A run that has read knows what the runs before it wrote.
KnownTo(q) ==
  requests[q].op = "run" /\ requests[q].pc \in {"answering", "curating"} =>
    \A w \in requests[q].before : \A x \in requests[w].wrote : \A s \in x.scopes :
      /\ requests[q].agent = requests[w].agent
      /\ requests[q].user = requests[w].user \/ \A set \in requests[w].under : Shared(set)
      => \/ \E m \in requests[q].told : m.key = x.key /\ m.scope = s /\ Later(m, requests[w].before)
         \/ Excused(requests[w].agent, x, s, requests[w].before)

IInv ==
  /\ Typed /\ Past /\ AllLearnt /\ ToldInScope /\ ArchivedByPromotion /\ WrittenInScope /\ Kept
  /\ \A q \in Requests : KnownTo(q)

(***************************************************************************)
(* Scopes, and the upsert.                                                 *)
(***************************************************************************)
LEMMA ScopeIs ==
  ASSUME NEW set \in Choices, NEW user, NEW s \in Scope(set, user)
  PROVE  s \in {"tenant", user} /\ (Private(set) => s = user) /\ (Shared(set) => s = "tenant")
<1>1. set.mode \in {"dual", "tenant-only", "user-only"} /\ set.policy \in {"tenant", "user"}
  BY MemoryAssumption
<1>2. QED
  BY <1>1 DEF Scope, Private, Shared

\* The entry [m EXCEPT !.value = value].
LEMMA NewValue ==
  ASSUME NEW m \in Entries, NEW value \in Requests, NEW n, n = [m EXCEPT !.value = value]
  PROVE  /\ n \in Entries /\ n.value = value
         /\ n.agent = m.agent /\ n.scope = m.scope /\ n.key = m.key /\ n.archived = m.archived
BY DEF Entries

LEMMA UpsertWrites ==
  ASSUME memories \subseteq Entries,
         NEW agent \in Agents, NEW scope \in Scopes, NEW key \in Keys, NEW value \in Requests,
         NEW M, M = Upsert(agent, scope, key, value)
  PROVE  /\ M \subseteq Entries
         /\ \A m \in M : \/ m \in memories
                         \/ /\ m.agent = agent /\ m.scope = scope /\ m.key = key /\ m.value = value
                            /\ m.archived => \E n \in memories : /\ n.agent = agent /\ n.scope = scope
                                                                  /\ n.key = key /\ n.archived
         /\ \A n \in memories : \/ n \in M
                                \/ /\ n.agent = agent /\ n.scope = scope /\ n.key = key
                                   /\ \E m \in M : /\ m.agent = agent /\ m.scope = scope /\ m.key = key
                                                   /\ m.value = value /\ m.archived = n.archived
         /\ \E m \in M : m.agent = agent /\ m.scope = scope /\ m.key = key /\ m.value = value
<1> DEFINE same == {m \in memories : m.agent = agent /\ m.scope = scope /\ m.key = key}
           new  == [id |-> <<value, agent, scope, key>>, agent |-> agent, scope |-> scope, key |-> key,
                    value |-> value, archived |-> FALSE]
           over == {[m EXCEPT !.value = value] : m \in same}
<1>1. M = (memories \ same) \cup (IF same # {} THEN over ELSE {new})
  BY DEF Upsert
<1>2. /\ new \in Entries /\ new.agent = agent /\ new.scope = scope /\ new.key = key
      /\ new.value = value /\ ~new.archived
  BY DEF Entries
<1>3. \A n \in over : /\ n \in Entries /\ n.agent = agent /\ n.scope = scope /\ n.key = key
                      /\ n.value = value /\ \E m \in same : n.archived = m.archived
  <2>1. SUFFICES ASSUME NEW n \in over
                 PROVE  /\ n \in Entries /\ n.agent = agent /\ n.scope = scope /\ n.key = key
                        /\ n.value = value /\ \E m \in same : n.archived = m.archived
    OBVIOUS
  <2>2. PICK m \in same : n = [m EXCEPT !.value = value]
    OBVIOUS
  <2>3. QED
    BY <2>2, NewValue
<1>4. \A m \in same : \E n \in over : n.archived = m.archived
  <2>1. SUFFICES ASSUME NEW m \in same PROVE \E n \in over : n.archived = m.archived
    OBVIOUS
  <2>2. PICK n : n = [m EXCEPT !.value = value]
    OBVIOUS
  <2>3. n \in over /\ n.archived = m.archived
    BY <2>2, NewValue
  <2>4. QED
    BY <2>3
<1>5. /\ \A m \in same : m \in memories /\ m.agent = agent /\ m.scope = scope /\ m.key = key
      /\ \A m \in memories \ same : m \in memories
  OBVIOUS
<1> HIDE DEF same, new, over
<1>6. CASE same = {}
  <2>1. M = memories \cup {new}
    BY <1>1, <1>6
  <2>2. QED
    BY <1>2, <2>1
<1>7. CASE same # {}
  <2>1. M = (memories \ same) \cup over
    BY <1>1, <1>7
  <2>2. M \subseteq Entries
    BY <1>3, <2>1
  <2>3. \E m \in over : m.agent = agent /\ m.scope = scope /\ m.key = key /\ m.value = value
    BY <1>3, <1>4, <1>7
  <2>4. QED
    BY <1>3, <1>4, <1>5, <2>1, <2>2, <2>3
<1>8. QED
  BY <1>6, <1>7

(***************************************************************************)
(* A request takes a step: its locals become y, those of the others stay.  *)
(***************************************************************************)
Moves(r, y) ==
  /\ requests[r].pc # "done" /\ y \in RequestRecords /\ Placed(y)
  /\ requests'[r] = y /\ \A q \in Requests \ {r} : requests'[q] = requests[q]
  /\ requests' \in [Requests -> RequestRecords] /\ Placements'

\* What others know of it stays: of one that has come what was asked for, of
\* one that has written where and for whom.
Follows(y, x) ==
  x.pc # "new" =>
    /\ y.op = x.op
    /\ x.copied # {} => y.copied = x.copied
    /\ x.wrote # {} => /\ x.wrote \subseteq y.wrote
                       /\ y.under = x.under /\ y.user = x.user
                       /\ y.agent = x.agent /\ y.before = x.before

LEMMA MovesTyped ==
  ASSUME Typed, NEW r \in Requests, NEW y \in RequestRecords, Placed(y), requests[r].pc # "done",
         requests' = [requests EXCEPT ![r] = y]
  PROVE  Moves(r, y)
BY DEF Typed, Placements, Moves

LEMMA NewReqTyped == NewReq \in RequestRecords /\ Placed(NewReq)
<1>1. NewReq \in RequestRecords
  BY DEF NewReq, RequestRecords, Labels, Ops, Names
<1>2. Placed(NewReq)
  BY DEF NewReq, Placed
<1>3. QED
  BY <1>1, <1>2

\* The locals y with which r has come, those of x and what Begin adds.
Came(r, y, op, x) ==
  /\ Moves(r, y) /\ requests[r].pc = "new" /\ y.op = op /\ y.before = Done
  /\ y.pc = x.pc /\ y.ok = x.ok /\ y.agent = x.agent /\ y.user = x.user /\ y.under = x.under
  /\ y.told = x.told /\ y.wrote = x.wrote /\ y.row = x.row

LEMMA BeginCame ==
  ASSUME Typed, NEW r \in Requests, NEW op \in Ops \ {"none"}, NEW x \in RequestRecords, Begin(r, op, x),
         Placed([x EXCEPT !.op = op])
  PROVE  \E y : Came(r, y, op, x)
<1> DEFINE y == [x EXCEPT !.op = op, !.before = Done]
<1>1. Done \subseteq Requests
  BY DEF Done
<1>2. y \in RequestRecords
  BY <1>1 DEF RequestRecords
<1>3. Placed(y)
  BY DEF Placed, RequestRecords
<1>4. requests[r].pc = "new" /\ requests' = [requests EXCEPT ![r] = y]
  BY DEF Begin, Fresh
<1>5. /\ y.op = op /\ y.before = Done
      /\ y.pc = x.pc /\ y.ok = x.ok /\ y.agent = x.agent /\ y.user = x.user /\ y.under = x.under
      /\ y.told = x.told /\ y.wrote = x.wrote /\ y.row = x.row
  BY DEF RequestRecords
<1> HIDE DEF y
<1>6. Moves(r, y)
  BY <1>2, <1>3, <1>4, MovesTyped
<1>7. QED
  BY <1>4, <1>5, <1>6 DEF Came

\* A request that is over knows nothing any more.
Left(y, x) ==
  /\ y.pc = "done" /\ y.told = {} /\ y.row \subseteq x.row /\ y.wrote = x.wrote /\ y.before \subseteq x.before

LEMMA LeaveMoves ==
  ASSUME Typed, NEW r \in Requests, NEW ok \in BOOLEAN, Leave(r, ok), requests[r].pc \notin {"new", "done"}
  PROVE  \E y : /\ Moves(r, y) /\ Follows(y, requests[r]) /\ Left(y, requests[r])
                /\ requests[r].wrote # {} => y.under = requests[r].under /\ y.user = requests[r].user
<1> DEFINE x == requests[r]
<1>1. x \in RequestRecords /\ Placed(x) /\ x.op \in Ops
  BY DEF Typed, Placements, RequestRecords
<1> DEFINE none == [NewReq EXCEPT !.pc = "done", !.op = x.op]
           rest == [x EXCEPT !.pc = "done", !.ok = ok, !.told = {}]
<1>2. /\ none \in RequestRecords /\ none.pc = "done" /\ none.op = x.op /\ none.told = {} /\ none.row = {}
      /\ none.copied = {}
      /\ none.wrote = {} /\ none.before = {} /\ none.under = {}
  BY <1>1, NewReqTyped DEF RequestRecords, Labels, NewReq
<1>3. /\ rest \in RequestRecords /\ rest.pc = "done" /\ rest.op = x.op /\ rest.told = {} /\ rest.row = x.row
      /\ rest.copied = x.copied
      /\ rest.wrote = x.wrote /\ rest.before = x.before /\ rest.under = x.under /\ rest.user = x.user
      /\ rest.agent = x.agent
  BY <1>1 DEF RequestRecords, Labels
<1>4. requests' = [requests EXCEPT ![r] = IF x.op \in {"run", "search"} /\ x.wrote = {} THEN none ELSE rest]
  BY DEF Leave
<1>5. requests[r] = x /\ x.pc \notin {"new", "done"}
  OBVIOUS
<1> HIDE DEF none, rest, x
<1>6. CASE x.op \in {"run", "search"} /\ x.wrote = {}
  <2>1. Placed(none)
    BY <1>2, <1>6 DEF Placed
  <2>2. Moves(r, none)
    BY <1>2, <1>4, <1>5, <1>6, <2>1, MovesTyped
  <2>3. Follows(none, x) /\ Left(none, x)
    BY <1>1, <1>2, <1>6 DEF Follows, Left, Placed
  <2>4. QED
    BY <1>5, <1>6, <2>2, <2>3
<1>7. CASE ~(x.op \in {"run", "search"} /\ x.wrote = {})
  <2>1. Placed(rest)
    BY <1>1, <1>3 DEF Placed
  <2>2. Moves(r, rest)
    BY <1>3, <1>4, <1>5, <1>7, <2>1, MovesTyped
  <2>3. Follows(rest, x) /\ Left(rest, x)
    BY <1>3 DEF Follows, Left
  <2>4. QED
    BY <1>3, <1>5, <2>2, <2>3
<1>8. QED
  BY <1>6, <1>7

(***************************************************************************)
(* What is over stays, and what is known of a request stays known.         *)
(***************************************************************************)
LEMMA MovesKnown ==
  ASSUME IInv, NEW r \in Requests, NEW y, Moves(r, y), Follows(y, requests[r])
  PROVE  /\ r \notin Done /\ Done \subseteq Done' /\ \A q \in Done : requests'[q] = requests[q]
         /\ \A a, s, k : PromotedFrom(a, s, k) => PromotedFrom(a, s, k)'
         /\ \A value : PromotedValue(value) => PromotedValue(value)'
         /\ \A m, before : Later(m, before) => Later(m, before)'
         /\ \A a, x, s, before : Excused(a, x, s, before) => Excused(a, x, s, before)'
         /\ \A m : m.value \in Requests /\ Learnt(m) => Learnt(m)'
<1>1. /\ r \notin Done /\ Done \subseteq Done' /\ \A q \in Done : requests'[q] = requests[q]
  BY DEF Moves, Done
<1>2. requests[r] \in RequestRecords /\ Placed(requests[r])
  BY DEF IInv, Typed, Placements
<1>3. \A p \in Requests : requests[p].copied # {} => requests'[p].copied = requests[p].copied
  BY <1>2 DEF Moves, Follows, Placed
<1>c. \A p \in Requests : requests[p].copied \subseteq requests'[p].copied
  BY <1>3
<1>4. /\ \A a, s, k : PromotedFrom(a, s, k) => PromotedFrom(a, s, k)'
      /\ \A value : PromotedValue(value) => PromotedValue(value)'
      /\ \A m, before : Later(m, before) => Later(m, before)'
  BY <1>c DEF PromotedFrom, PromotedValue, Later, PromotedTo
<1>5. \A s, before : Offboarded(s, before) => Offboarded(s, before)'
  BY <1>2 DEF Moves, Placed, Offboarded
<1>6. \A a, x, s, before : Excused(a, x, s, before) => Excused(a, x, s, before)'
  BY <1>4, <1>5 DEF Excused
<1>7. \A w \in Requests : requests[w].wrote # {} =>
        /\ requests'[w].wrote # {} /\ requests'[w].under = requests[w].under
        /\ requests'[w].user = requests[w].user
  BY <1>2 DEF Moves, Follows, Placed
<1>8. \A m : m.value \in Requests /\ Learnt(m) => Learnt(m)'
  BY <1>4, <1>7 DEF Learnt
<1>9. QED
  BY <1>1, <1>4, <1>6, <1>8

\* What a step may do to the invariant, one conjunct for each part of it.
Told(r, y) ==
  /\ \A m \in y.told \cup y.row : Learnt(m) /\ m.value \in Requests
  /\ \A m \in y.told : m.scope \in {"tenant", y.user}

\* Each live entry stays, or r writes over it; or it is gone for a reason.
Kin(m, n) == m.agent = n.agent /\ m.scope = n.scope /\ m.key = n.key
Replaces(r) ==
  \A n \in memories : n.archived \/
    \/ \E m \in memories' : Kin(m, n) /\ ~m.archived /\ (m.value \in {n.value, r} \/ PromotedTo(m)')
    \/ PromotedFrom(n.agent, n.scope, n.key)'
    \/ requests'[r].op = "offboard" /\ requests'[r].user = n.scope

LEMMA StepHolds ==
  ASSUME IInv, NEW r \in Requests, NEW y, Moves(r, y), Follows(y, requests[r]), TablesOK',
         y.before \subseteq Done, Told(r, y), KnownTo(r)', Replaces(r),
         \A m \in memories' : m \in memories \/ Learnt(m)',
         \A m \in memories' : m.archived => (m \in memories \/ PromotedFrom(m.agent, m.scope, m.key)'),
         \A x \in y.wrote : x \in requests[r].wrote \/ \A s \in x.scopes :
           /\ \E set \in y.under : s \in Scope(set, y.user)
           /\ Stored(y.agent, x, s, y.before)' \/ Excused(y.agent, x, s, y.before)'
  PROVE  IInv'
<1>1. /\ r \notin Done /\ Done \subseteq Done' /\ \A q \in Done : requests'[q] = requests[q]
      /\ \A a, s, k : PromotedFrom(a, s, k) => PromotedFrom(a, s, k)'
      /\ \A m, before : Later(m, before) => Later(m, before)'
      /\ \A a, x, s, before : Excused(a, x, s, before) => Excused(a, x, s, before)'
      /\ \A m : m.value \in Requests /\ Learnt(m) => Learnt(m)'
  BY MovesKnown
<1>2. requests'[r] = y /\ \A q \in Requests \ {r} : requests'[q] = requests[q]
  BY DEF Moves
<1>3. Typed'
  BY DEF Typed, Moves
<1>v. /\ \A m \in memories : m.value \in Requests
      /\ \A q \in Requests : \A m \in requests[q].told \cup requests[q].row : m.value \in Requests
  BY DEF IInv, Typed, TablesOK, Entries, RequestRecords
<1>4. Past'
  BY <1>1, <1>2 DEF IInv, Past
<1>5. AllLearnt'
  <2>1. ASSUME NEW m \in memories' PROVE Learnt(m)'
    BY <1>1, <1>v, <2>1 DEF IInv, AllLearnt
  <2>2. ASSUME NEW q \in Requests, NEW m \in requests'[q].told \cup requests'[q].row PROVE Learnt(m)'
    BY <1>1, <1>2, <1>v, <2>2 DEF IInv, AllLearnt, Told
  <2>3. QED
    BY <2>1, <2>2 DEF AllLearnt
<1>6. ToldInScope'
  BY <1>2 DEF IInv, ToldInScope, Told
<1>7. ArchivedByPromotion'
  BY <1>1 DEF IInv, ArchivedByPromotion
<1>8. requests[r] \in RequestRecords /\ Placed(requests[r]) /\ requests[r].before \subseteq Done
  BY DEF IInv, Typed, Placements, Past
<1>9. WrittenInScope'
  <2>1. ASSUME NEW w \in Requests, NEW x \in requests'[w].wrote, NEW s \in x.scopes
        PROVE  \E set \in requests'[w].under : s \in Scope(set, requests'[w].user)
    <3>1. CASE w # r
      BY <1>2, <2>1, <3>1 DEF IInv, WrittenInScope
    <3>2. CASE w = r /\ x \in requests[r].wrote
      BY <1>2, <1>8, <2>1, <3>2 DEF IInv, WrittenInScope, Follows, Placed
    <3>3. CASE w = r /\ x \notin requests[r].wrote
      BY <1>2, <2>1, <3>3
    <3>4. QED
      BY <3>1, <3>2, <3>3
  <2>2. QED
    BY <2>1 DEF WrittenInScope
<1>10. Kept'
  <2>1. ASSUME NEW agent, NEW x, NEW s, NEW before, before \subseteq Done,
               Stored(agent, x, s, before) \/ Excused(agent, x, s, before)
        PROVE  Stored(agent, x, s, before)' \/ Excused(agent, x, s, before)'
    <3>1. CASE Excused(agent, x, s, before)
      BY <1>1, <3>1
    <3>2. CASE Stored(agent, x, s, before)
      <4>1. PICK n \in memories : /\ n.agent = agent /\ n.key = x.key /\ n.scope = s
                                  /\ ~n.archived /\ Later(n, before)
        BY <3>2 DEF Stored
      <4>2. CASE \E m \in memories' : Kin(m, n) /\ ~m.archived /\ (m.value \in {n.value, r} \/ PromotedTo(m)')
        <5>1. PICK m \in memories' : Kin(m, n) /\ ~m.archived /\ (m.value \in {n.value, r} \/ PromotedTo(m)')
          BY <4>2
        <5>2. Later(m, before)'
          <6>1. CASE m.value = n.value
            BY <1>1, <4>1, <5>1, <6>1 DEF Later, PromotedTo, Kin
          <6>2. CASE m.value = r
            BY <1>1, <2>1, <6>2 DEF Later
          <6>3. CASE PromotedTo(m)'
            BY <6>3 DEF Later
          <6>4. QED
            BY <5>1, <6>1, <6>2, <6>3
        <5>3. QED
          BY <4>1, <5>1, <5>2 DEF Stored, Kin
      <4>3. CASE PromotedFrom(n.agent, n.scope, n.key)'
        BY <4>1, <4>3 DEF Excused
      <4>4. CASE requests'[r].op = "offboard" /\ requests'[r].user = n.scope
        <5>1. r \notin before
          BY <1>1, <2>1
        <5>2. QED
          BY <4>1, <4>4, <5>1 DEF Excused, Offboarded
      <4>5. QED
        BY <4>1, <4>2, <4>3, <4>4 DEF Replaces
    <3>3. QED
      BY <2>1, <3>1, <3>2
  <2>2. ASSUME NEW w \in Requests, NEW x \in requests'[w].wrote, NEW s \in x.scopes
        PROVE  \/ Stored(requests[w].agent, x, s, requests[w].before)'
               \/ Excused(requests[w].agent, x, s, requests[w].before)'
    <3>1. CASE w # r
      <4>1. /\ requests'[w] = requests[w] /\ requests[w].before \subseteq Done
            /\ Stored(requests[w].agent, x, s, requests[w].before) \/ Excused(requests[w].agent, x, s, requests[w].before)
        BY <1>2, <2>2, <3>1 DEF IInv, Kept, Past
      <4> DEFINE agent == requests[w].agent
                 before == requests[w].before
      <4>2. PICK a, b : a = agent /\ b = before
        OBVIOUS
      <4>3. Stored(a, x, s, b)' \/ Excused(a, x, s, b)'
        BY <2>1, <4>1, <4>2
      <4>4. QED
        BY <4>1, <4>2, <4>3 DEF Stored, Excused, Offboarded, Later, PromotedTo, PromotedFrom
    <3>2. CASE w = r /\ x \in requests[r].wrote
      <4>1. /\ y.agent = requests[r].agent /\ y.before = requests[r].before
            /\ Stored(y.agent, x, s, y.before) \/ Excused(y.agent, x, s, y.before)
        BY <1>8, <2>2, <3>2 DEF IInv, Kept, Follows, Placed
      <4>2. Stored(y.agent, x, s, y.before)' \/ Excused(y.agent, x, s, y.before)'
        BY <1>8, <2>1, <4>1
      <4>3. QED
        BY <1>2, <3>2, <4>2 DEF Stored, Excused, Offboarded, Later, PromotedTo, PromotedFrom
    <3>3. CASE w = r /\ x \notin requests[r].wrote
      <4>1. Stored(y.agent, x, s, y.before)' \/ Excused(y.agent, x, s, y.before)'
        BY <1>2, <2>2, <3>3
      <4>2. QED
        BY <1>2, <3>3, <4>1 DEF Stored, Excused, Offboarded, Later, PromotedTo, PromotedFrom
    <3>4. QED
      BY <3>1, <3>2, <3>3
  <2>3. QED
    BY <2>2 DEF Kept
<1>11. ASSUME NEW q \in Requests PROVE KnownTo(q)'
  <2>1. CASE q = r
    BY <2>1
  <2>2. CASE q # r
    <3>1. requests'[q] = requests[q] /\ KnownTo(q) /\ requests[q].before \subseteq Done
      BY <1>2, <2>2 DEF IInv, Past
    <3>2. SUFFICES ASSUME requests[q].op = "run", requests[q].pc \in {"answering", "curating"},
                          NEW w \in requests[q].before, NEW x \in requests'[w].wrote, NEW s \in x.scopes,
                          requests[q].agent = requests'[w].agent,
                          \/ requests[q].user = requests'[w].user
                          \/ \A set \in requests'[w].under : Shared(set)
                   PROVE  \/ \E m \in requests[q].told :
                               m.key = x.key /\ m.scope = s /\ Later(m, requests[w].before)'
                          \/ Excused(requests[w].agent, x, s, requests[w].before)'
      BY <3>1 DEF KnownTo
    <3>3. requests'[w] = requests[w]
      BY <1>1, <3>1
    <3>4. PICK a, b : a = requests[w].agent /\ b = requests[w].before
      OBVIOUS
    <3>5. \/ \E m \in requests[q].told : m.key = x.key /\ m.scope = s /\ Later(m, b)
          \/ Excused(a, x, s, b)
      BY <3>1, <3>2, <3>3, <3>4 DEF KnownTo
    <3>6. \/ \E m \in requests[q].told : m.key = x.key /\ m.scope = s /\ Later(m, b)'
          \/ Excused(a, x, s, b)'
      BY <1>1, <3>5
    <3>7. QED
      BY <3>3, <3>4, <3>6 DEF Excused, Offboarded, Later, PromotedTo, PromotedFrom
  <2>3. QED
    BY <2>1, <2>2
<1>12. QED
  BY <1>3, <1>4, <1>5, <1>6, <1>7, <1>9, <1>10, <1>11 DEF IInv

\* The memories stay, and the run reads nothing new.
LEMMA QuietHolds ==
  ASSUME IInv, NEW r \in Requests, NEW y, Moves(r, y), Follows(y, requests[r]), TablesOK',
         UNCHANGED memories, y.before \subseteq Done, Told(r, y), KnownTo(r)',
         \A x \in y.wrote : x \in requests[r].wrote \/ x.scopes = {}
  PROVE  IInv'
<1>1. Replaces(r)
  <2>1. \A n \in memories : Kin(n, n) /\ n.value \in {n.value, r}
    BY DEF Kin
  <2>2. QED
    BY <2>1 DEF Replaces
<1>2. QED
  BY <1>1, StepHolds

\* A request comes; of what it holds it has learnt.
LEMMA CameHolds ==
  ASSUME IInv, NEW r \in Requests, NEW y, NEW op, NEW x, Came(r, y, op, x), TablesOK', UNCHANGED memories,
         x.wrote = {}, Told(r, x), op # "run" \/ x.pc = "loaded"
  PROVE  IInv'
<1>1. /\ Moves(r, y) /\ Follows(y, requests[r]) /\ y.before \subseteq Done /\ y.wrote = {}
      /\ requests'[r] = y
  BY DEF Came, Follows, Moves
<1>2. KnownTo(r)'
  BY <1>1 DEF Came, KnownTo
<1>3. Told(r, y)
  BY DEF Came, Told
<1>4. QED
  BY <1>1, <1>2, <1>3, QuietHolds

LEMMA LeaveHolds ==
  ASSUME IInv, NEW r \in Requests, NEW ok \in BOOLEAN, Leave(r, ok), requests[r].pc \notin {"new", "done"},
         UNCHANGED stores
  PROVE  IInv'
<1>1. PICK y : Moves(r, y) /\ Follows(y, requests[r]) /\ Left(y, requests[r])
  BY LeaveMoves DEF IInv
<1>2. TablesOK' /\ UNCHANGED memories
  BY DEF IInv, Typed, TablesOK, stores
<1>3. requests'[r] = y /\ y.pc = "done"
  BY <1>1 DEF Moves, Left
<1>4. KnownTo(r)'
  BY <1>3 DEF KnownTo
<1>5. requests[r] \in RequestRecords /\ requests[r].before \subseteq Done
  BY DEF IInv, Typed, Past
<1>6. Told(r, y)
  BY <1>1, <1>5 DEF Told, Left, IInv, AllLearnt, RequestRecords, Entries
<1>7. QED
  BY <1>1, <1>2, <1>4, <1>5, <1>6, QuietHolds DEF Left

(***************************************************************************)
(* The steps of a run.                                                     *)
(***************************************************************************)
LEMMA ReadTold ==
  ASSUME IInv, NEW agent, NEW user
  PROVE  /\ ReadForUser(agent, user) \subseteq Entries
         /\ \A m \in ReadForUser(agent, user) :
              Learnt(m) /\ m.value \in Requests /\ m.scope \in {"tenant", user}
BY DEF IInv, Typed, TablesOK, ReadForUser, AllLearnt, Entries

LEMMA BeginsHold ==
  ASSUME IInv, NEW r \in Requests, LoadAgent(r) \/ Search(r) \/ Configure(r) \/ FindPromoted(r)
  PROVE  IInv'
<1>t. Typed /\ TablesOK /\ settings \in [Agents -> Choices] /\ memories \subseteq Entries
  BY DEF IInv, Typed, TablesOK
<1>n. /\ NewReq \in RequestRecords /\ NewReq.wrote = {} /\ NewReq.told = {} /\ NewReq.row = {}
      /\ NewReq.under = {} /\ NewReq.copied = {}
  BY NewReqTyped DEF NewReq
<1>1. CASE LoadAgent(r)
  <2>1. PICK agent \in Agents, user \in Users \cup {Nobody} :
          Begin(r, "run", [NewReq EXCEPT !.pc = "loaded", !.agent = agent, !.user = user,
                                         !.under = {settings[agent]}])
    BY <1>1 DEF LoadAgent
  <2> DEFINE x == [NewReq EXCEPT !.pc = "loaded", !.agent = agent, !.user = user,
                                 !.under = {settings[agent]}]
  <2>2. /\ x \in RequestRecords /\ x.pc = "loaded" /\ x.told = {} /\ x.row = {} /\ x.wrote = {}
    <3>1. {settings[agent]} \in SUBSET Choices /\ agent \in Agents /\ user \in Names
      BY <1>t DEF Names
    <3>2. x \in RequestRecords
      BY <1>n, <3>1 DEF RequestRecords, Labels
    <3>3. QED
      BY <1>n, <3>2 DEF RequestRecords
  <2>3. Placed([x EXCEPT !.op = "run"])
    BY <1>n, <1>t DEF Placed, RequestRecords
  <2>4. Begin(r, "run", x) /\ UNCHANGED stores
    BY <1>1, <2>1 DEF LoadAgent
  <2> HIDE DEF x
  <2>5. PICK y : Came(r, y, "run", x)
    BY <1>t, <2>2, <2>3, <2>4, BeginCame DEF Ops
  <2>6. Told(r, x)
    BY <2>2 DEF Told
  <2>7. TablesOK' /\ UNCHANGED memories
    BY <1>t, <2>4 DEF TablesOK, stores
  <2>8. QED
    BY <2>2, <2>5, <2>6, <2>7, CameHolds
<1>2. CASE Search(r)
  <2>1. PICK agent \in Agents, user \in Users \cup {Nobody}, keys \in SUBSET Keys :
          Begin(r, "search", [NewReq EXCEPT !.pc = "answering", !.agent = agent, !.user = user,
                                            !.told = SearchByQuery(agent, user, keys)])
    BY <1>2 DEF Search
  <2>2. PICK S : S = SearchByQuery(agent, user, keys)
    OBVIOUS
  <2>3. /\ S \subseteq Entries
        /\ \A m \in S : Learnt(m) /\ m.value \in Requests /\ m.scope \in {"tenant", user}
    BY <2>2, ReadTold DEF SearchByQuery
  <2> DEFINE x == [NewReq EXCEPT !.pc = "answering", !.agent = agent, !.user = user, !.told = S]
  <2>4. /\ x \in RequestRecords /\ x.told = S /\ x.row = {} /\ x.wrote = {} /\ x.user = user
    BY <1>n, <2>3 DEF RequestRecords, Labels, Names
  <2>5. Placed([x EXCEPT !.op = "search"])
    BY <1>n DEF Placed, RequestRecords
  <2>6. Begin(r, "search", x) /\ UNCHANGED stores
    BY <1>2, <2>1, <2>2 DEF Search
  <2> HIDE DEF x
  <2>7. PICK y : Came(r, y, "search", x)
    BY <1>t, <2>4, <2>5, <2>6, BeginCame DEF Ops
  <2>8. Told(r, x)
    BY <2>3, <2>4 DEF Told
  <2>9. TablesOK' /\ UNCHANGED memories
    BY <1>t, <2>6 DEF TablesOK, stores
  <2>10. QED
    BY <2>4, <2>7, <2>8, <2>9, CameHolds
<1>3. CASE Configure(r)
  <2> DEFINE x == [NewReq EXCEPT !.pc = "done", !.ok = TRUE]
  <2>1. /\ x \in RequestRecords /\ x.told = {} /\ x.row = {} /\ x.wrote = {}
    BY <1>n DEF RequestRecords, Labels
  <2>2. Placed([x EXCEPT !.op = "configure"])
    BY <1>n DEF Placed, RequestRecords
  <2>3. Begin(r, "configure", x) /\ UNCHANGED memories
    BY <1>3 DEF Configure
  <2> HIDE DEF x
  <2>4. PICK y : Came(r, y, "configure", x)
    BY <1>t, <2>1, <2>2, <2>3, BeginCame DEF Ops
  <2>5. Told(r, x)
    BY <2>1 DEF Told
  <2>6. TablesOK'
    BY <1>3, <1>t DEF TablesOK, Configure
  <2>7. QED
    BY <2>1, <2>3, <2>4, <2>5, <2>6, CameHolds
<1>4. CASE FindPromoted(r)
  <2>1. PICK m \in memories :
          LET found == m \in ReadForUser(m.agent, Nobody)
              rows  == {e \in {m} : found /\ e.scope # "tenant"}
          IN  Begin(r, "promote", [NewReq EXCEPT !.row = rows, !.ok = found /\ rows = {},
                                                 !.pc = IF rows # {} THEN "found" ELSE "done"])
    BY <1>4 DEF FindPromoted
  <2>2. PICK rows \in SUBSET {m}, ok \in BOOLEAN, pc \in {"found", "done"} :
          Begin(r, "promote", [NewReq EXCEPT !.row = rows, !.ok = ok, !.pc = pc])
    BY <2>1
  <2> DEFINE x == [NewReq EXCEPT !.row = rows, !.ok = ok, !.pc = pc]
  <2>3. /\ x \in RequestRecords /\ x.told = {} /\ x.row = rows /\ x.wrote = {}
    BY <1>n, <1>t, <2>2 DEF RequestRecords, Labels
  <2>4. Placed([x EXCEPT !.op = "promote"])
    BY <1>n, <2>2 DEF Placed, RequestRecords
  <2>5. Begin(r, "promote", x) /\ UNCHANGED stores
    BY <1>4, <2>2 DEF FindPromoted
  <2> HIDE DEF x
  <2>6. PICK y : Came(r, y, "promote", x)
    BY <1>t, <2>3, <2>4, <2>5, BeginCame DEF Ops
  <2>7. Learnt(m) /\ m.value \in Requests
    BY <1>t DEF IInv, AllLearnt, Entries
  <2>8. Told(r, x)
    BY <2>2, <2>3, <2>7 DEF Told
  <2>9. TablesOK' /\ UNCHANGED memories
    BY <1>t, <2>5 DEF TablesOK, stores
  <2>10. QED
    BY <2>3, <2>6, <2>8, <2>9, CameHolds
<1>5. QED
  BY <1>1, <1>2, <1>3, <1>4

LEMMA ReadsHold ==
  ASSUME IInv, NEW r \in Requests, Recall(r) \/ Curate(r)
  PROVE  IInv'
<1> DEFINE x == requests[r]
<1>t. Typed /\ x \in RequestRecords /\ Placed(x) /\ x.before \subseteq Done
  BY DEF IInv, Typed, Placements, Past
<1>1. PICK R : R = ReadForUser(x.agent, x.user)
  OBVIOUS
<1>2. R \subseteq Entries /\ \A m \in R : Learnt(m) /\ m.value \in Requests /\ m.scope \in {"tenant", x.user}
  BY <1>1, ReadTold
<1>3. PICK pc \in {"answering", "curating"}, S \in {R, x.told \cup R} :
        /\ requests' = [requests EXCEPT ![r] = [x EXCEPT !.pc = pc, !.told = S]]
        /\ x.op = "run" /\ UNCHANGED stores
        /\ \/ x.pc = "loaded" /\ S = R
           \/ x.pc = "answering" /\ S = x.told \cup R
  <2>1. CASE Recall(r)
    <3>1. requests' = [requests EXCEPT ![r] = [x EXCEPT !.pc = "answering", !.told = R]]
      BY <1>1, <1>t, <2>1 DEF Recall, Typed
    <3>2. QED
      BY <2>1, <3>1 DEF Recall, At
  <2>2. CASE Curate(r)
    <3>1. requests' = [requests EXCEPT ![r] = [x EXCEPT !.pc = "curating", !.told = x.told \cup R]]
      BY <1>1, <1>t, <2>2 DEF Curate, Typed
    <3>2. QED
      BY <2>2, <3>1 DEF Curate, At
  <2>3. QED
    BY <2>1, <2>2
<1> DEFINE y == [x EXCEPT !.pc = pc, !.told = S]
<1>4. S \subseteq Entries
  BY <1>2, <1>3, <1>t DEF RequestRecords
<1>5. /\ y \in RequestRecords /\ y.pc = pc /\ y.told = S /\ y.op = "run" /\ y.agent = x.agent /\ y.user = x.user
      /\ y.under = x.under /\ y.wrote = x.wrote /\ y.row = x.row /\ y.before = x.before
      /\ y.copied = x.copied
  BY <1>3, <1>4, <1>t DEF RequestRecords, Labels
<1>6. requests[r] = x /\ requests' = [requests EXCEPT ![r] = y]
  BY <1>3
<1> HIDE DEF x, y
<1>7. Placed(y) /\ Follows(y, x)
  BY <1>3, <1>5, <1>t DEF Placed, Follows
<1>8. Moves(r, y)
  BY <1>3, <1>5, <1>6, <1>7, <1>t, MovesTyped
<1>9. Told(r, y)
  BY <1>2, <1>3, <1>5, <1>6, <1>t DEF Told, IInv, AllLearnt, ToldInScope, RequestRecords, Entries
<1>10. TablesOK' /\ UNCHANGED memories
  BY <1>3 DEF IInv, Typed, TablesOK, stores
<1>11. KnownTo(r)'
  <2>1. SUFFICES ASSUME NEW w \in x.before, NEW z \in requests'[w].wrote, NEW s \in z.scopes,
                        x.agent = requests'[w].agent,
                        x.user = requests'[w].user \/ \A set \in requests'[w].under : Shared(set)
                 PROVE  \/ \E m \in S : m.key = z.key /\ m.scope = s /\ Later(m, requests[w].before)'
                        \/ Excused(requests[w].agent, z, s, requests[w].before)'
    BY <1>5, <1>8 DEF KnownTo, Moves
  <2>2. requests'[w] = requests[w] /\ w \in Requests
    BY <1>6, <1>7, <1>8, <1>t, MovesKnown DEF RequestRecords, Done
  <2>3. PICK a, b : a = requests[w].agent /\ b = requests[w].before
    OBVIOUS
  <2>4. SUFFICES \/ \E m \in S : m.key = z.key /\ m.scope = s /\ Later(m, b)
                 \/ Excused(a, z, s, b)
    <3>1. /\ Excused(a, z, s, b) => Excused(a, z, s, b)'
          /\ \A m : Later(m, b) => Later(m, b)'
      BY <1>6, <1>7, <1>8, MovesKnown
    <3>2. QED
      BY <2>2, <2>3, <2>4, <3>1 DEF Excused, Offboarded, Later, PromotedTo, PromotedFrom
  <2>5. CASE x.pc = "answering"
    <3>1. KnownTo(r) /\ x.told \subseteq S
      BY <1>3, <2>5 DEF IInv
    <3>2. \/ \E m \in x.told : m.key = z.key /\ m.scope = s /\ Later(m, b)
          \/ Excused(a, z, s, b)
      BY <1>3, <1>6, <2>1, <2>2, <2>3, <2>5, <3>1 DEF KnownTo
    <3>3. QED
      BY <3>1, <3>2
  <2>6. CASE x.pc # "answering"
    <3>1. S = R
      BY <1>3, <2>6
    <3>2. Stored(a, z, s, b) \/ Excused(a, z, s, b)
      BY <2>1, <2>2, <2>3 DEF IInv, Kept
    <3>3. ASSUME NEW m \in memories, m.agent = x.agent, m.scope = s, ~m.archived PROVE m \in R
      <4>1. PICK set \in requests[w].under : s \in Scope(set, requests[w].user)
        BY <2>1, <2>2 DEF IInv, WrittenInScope
      <4>2. set \in Choices
        BY <2>2 DEF IInv, Typed, RequestRecords
      <4>3. s \in {"tenant", requests[w].user} /\ (Shared(set) => s = "tenant")
        BY <4>1, <4>2, ScopeIs
      <4>4. s \in {"tenant", x.user}
        BY <2>1, <2>2, <4>1, <4>3
      <4>5. QED
        BY <1>1, <3>3, <4>4 DEF ReadForUser
    <3>4. QED
      BY <2>1, <2>2, <2>3, <3>1, <3>2, <3>3 DEF Stored
  <2>7. QED
    BY <2>5, <2>6
<1>12. QED
  BY <1>5, <1>6, <1>7, <1>8, <1>9, <1>10, <1>11, <1>t, QuietHolds

\* One write of the model's.
LEMMA RememberHolds ==
  ASSUME IInv, NEW r \in Requests, Remember(r)
  PROVE  IInv'
<1> DEFINE x == requests[r]
<1>t. Typed /\ x \in RequestRecords /\ Placed(x) /\ x.before \subseteq Done /\ r \notin Done
  BY DEF IInv, Typed, Placements, Past, Done, Remember, At
<1>1. PICK key \in Keys, set \in x.under :
        LET scopes == Scope(set, x.user)
        IN  /\ \A w \in x.wrote : w.key # key
            /\ \/ scopes = {} /\ UNCHANGED memories
               \/ \E s \in scopes : memories' = Upsert(x.agent, s, key, r)
            /\ requests' = [requests EXCEPT ![r].wrote = @ \cup {[key |-> key, scopes |-> scopes]}]
  BY DEF Remember
<1>2. PICK scopes : scopes = Scope(set, x.user)
  OBVIOUS
<1> DEFINE z == [key |-> key, scopes |-> scopes]
<1>y. PICK y : y = [x EXCEPT !.wrote = x.wrote \cup {z}]
  OBVIOUS
<1>3. set \in Choices /\ x.user \in Names /\ x.op = "run" /\ x.agent \in Agents /\ x.pc = "curating"
      /\ UNCHANGED settings
  BY <1>t DEF Remember, At, RequestRecords, Placed
<1>4. scopes \subseteq Scopes /\ \A s \in scopes : \A s2 \in scopes : s = s2
  <2>1. \A s \in scopes : s \in {"tenant", x.user}
    BY <1>2, <1>3, ScopeIs
  <2>2. \A s, s2 \in Scope(set, x.user) : s = s2
    BY DEF Scope
  <2>3. QED
    BY <1>2, <1>3, <2>1, <2>2 DEF Scopes
<1>5. z \in Writes /\ z.key = key /\ z.scopes = scopes
  BY <1>4 DEF Writes
<1>6. requests' = [requests EXCEPT ![r] = y] /\ requests[r] = x
  BY <1>1, <1>2, <1>t, <1>y DEF Typed
<1> HIDE DEF z
<1>7. /\ y \in RequestRecords /\ y.pc = "curating" /\ y.told = x.told /\ y.op = "run" /\ y.agent = x.agent
      /\ y.user = x.user /\ y.under = x.under /\ y.wrote = x.wrote \cup {z} /\ y.row = x.row
      /\ y.before = x.before /\ y.copied = x.copied
  BY <1>3, <1>5, <1>t, <1>y DEF RequestRecords
<1> HIDE DEF x
<1>8. Placed(y) /\ Follows(y, x)
  BY <1>3, <1>7, <1>t DEF Placed, Follows
<1>9. Moves(r, y) /\ requests'[r] = y
  BY <1>3, <1>6, <1>7, <1>8, <1>t, MovesTyped DEF Moves
<1>10. Told(r, y)
  BY <1>6, <1>7, <1>t DEF Told, IInv, AllLearnt, ToldInScope, RequestRecords, Entries
<1>11. KnownTo(r)'
  <2>1. SUFFICES ASSUME NEW w \in x.before, NEW u \in requests'[w].wrote, NEW s \in u.scopes,
                        x.agent = requests'[w].agent,
                        x.user = requests'[w].user \/ \A other \in requests'[w].under : Shared(other)
                 PROVE  \/ \E m \in x.told : m.key = u.key /\ m.scope = s /\ Later(m, requests[w].before)'
                        \/ Excused(requests[w].agent, u, s, requests[w].before)'
    BY <1>7, <1>9 DEF KnownTo
  <2>2. requests'[w] = requests[w]
    BY <1>6, <1>8, <1>9, <1>t, MovesKnown
  <2>3. PICK a, b : a = requests[w].agent /\ b = requests[w].before
    OBVIOUS
  <2>4. \/ \E m \in x.told : m.key = u.key /\ m.scope = s /\ Later(m, b)
        \/ Excused(a, u, s, b)
    BY <1>3, <1>6, <2>1, <2>2, <2>3 DEF IInv, KnownTo
  <2>5. \/ \E m \in x.told : m.key = u.key /\ m.scope = s /\ Later(m, b)'
        \/ Excused(a, u, s, b)'
    BY <1>6, <1>8, <1>9, <2>4, MovesKnown
  <2>6. QED
    BY <2>2, <2>3, <2>5 DEF Excused, Offboarded, Later, PromotedTo, PromotedFrom
<1>12. CASE scopes = {} /\ UNCHANGED memories
  <2>1. TablesOK'
    BY <1>3, <1>12 DEF IInv, Typed, TablesOK
  <2>2. \A u \in y.wrote : u \in requests[r].wrote \/ u.scopes = {}
    BY <1>5, <1>6, <1>7, <1>12
  <2>3. QED
    BY <1>6, <1>7, <1>8, <1>9, <1>10, <1>11, <1>12, <1>t, <2>1, <2>2, QuietHolds
<1>13. ASSUME NEW s \in scopes, memories' = Upsert(x.agent, s, key, r) PROVE IInv'
  <2>t. memories \subseteq Entries /\ settings \in [Agents -> Choices] /\ s \in Scopes
    BY <1>4, <1>13 DEF IInv, Typed, TablesOK
  <2>1. /\ memories' \subseteq Entries
        /\ \A m \in memories' :
             \/ m \in memories
             \/ /\ m.agent = x.agent /\ m.scope = s /\ m.key = key /\ m.value = r
                /\ m.archived => \E n \in memories : /\ n.agent = x.agent /\ n.scope = s
                                                       /\ n.key = key /\ n.archived
        /\ \A n \in memories :
             \/ n \in memories'
             \/ /\ n.agent = x.agent /\ n.scope = s /\ n.key = key
                /\ \E m \in memories' : /\ m.agent = x.agent /\ m.scope = s /\ m.key = key
                                        /\ m.value = r /\ m.archived = n.archived
        /\ \E m \in memories' : m.agent = x.agent /\ m.scope = s /\ m.key = key /\ m.value = r
    BY <1>3, <1>13, <2>t, UpsertWrites
  <2>2. TablesOK'
    BY <1>3, <2>1, <2>t DEF TablesOK
  <2>3. PICK a : a = x.agent
    OBVIOUS
  <2>4. (\E n \in memories : n.agent = a /\ n.scope = s /\ n.key = key /\ n.archived) => PromotedFrom(a, s, key)'
    <3>1. PromotedFrom(a, s, key) => PromotedFrom(a, s, key)'
      BY <1>6, <1>8, <1>9, MovesKnown
    <3>2. QED
      BY <3>1 DEF IInv, ArchivedByPromotion
  <2>5. Replaces(r)
    <3>1. SUFFICES ASSUME NEW n \in memories, ~n.archived
                   PROVE  \E m \in memories' : Kin(m, n) /\ ~m.archived /\ m.value \in {n.value, r}
      BY DEF Replaces
    <3>2. QED
      BY <2>1, <3>1 DEF Kin
  <2>6. \A m \in memories' : m \in memories \/ Learnt(m)'
    BY <1>2, <1>7, <1>9, <1>13, <2>1 DEF Learnt
  <2>7. \A m \in memories' : m.archived => (m \in memories \/ PromotedFrom(m.agent, m.scope, m.key)')
    <3>1. SUFFICES ASSUME NEW m \in memories', m.archived, m \notin memories PROVE PromotedFrom(m.agent, m.scope, m.key)'
      OBVIOUS
    <3>2. m.agent = a /\ m.scope = s /\ m.key = key /\ PromotedFrom(a, s, key)'
      BY <2>1, <2>3, <2>4, <3>1
    <3>3. QED
      BY <3>2 DEF PromotedFrom
  <2>8. ASSUME NEW u \in y.wrote, u \notin x.wrote, NEW v \in u.scopes
        PROVE  /\ \E other \in y.under : v \in Scope(other, y.user)
               /\ Stored(y.agent, u, v, y.before)' \/ Excused(y.agent, u, v, y.before)'
    <3>1. u = z /\ v = s
      BY <1>4, <1>5, <1>7, <2>8
    <3>2. PICK m \in memories' : m.agent = x.agent /\ m.scope = s /\ m.key = key /\ m.value = r
      BY <2>1
    <3>3. r \notin y.before
      BY <1>7, <1>t
    <3>4. CASE m.archived
      <4>1. PromotedFrom(a, s, key)'
        <5>1. CASE m \in memories
          BY <2>3, <2>4, <3>2, <3>4, <5>1
        <5>2. CASE m \notin memories
          BY <2>1, <2>3, <2>4, <3>4, <5>2
        <5>3. QED
          BY <5>1, <5>2
      <4>2. Excused(y.agent, u, v, y.before)'
        BY <1>5, <1>7, <2>3, <3>1, <4>1 DEF Excused, PromotedFrom
      <4>3. QED
        BY <1>2, <1>7, <2>8, <3>1, <4>2
    <3>5. CASE ~m.archived
      <4>1. Stored(y.agent, u, v, y.before)'
        BY <1>5, <1>7, <3>1, <3>2, <3>3, <3>5 DEF Stored, Later
      <4>2. QED
        BY <1>2, <1>7, <2>8, <3>1, <4>1
    <3>6. QED
      BY <3>4, <3>5
  <2>9. QED
    BY <1>6, <1>7, <1>8, <1>9, <1>10, <1>11, <1>t, <2>2, <2>5, <2>6, <2>7, <2>8, StepHolds
<1>14. QED
  BY <1>1, <1>2, <1>12, <1>13 DEF x

(***************************************************************************)
(* The steps of admins.                                                    *)
(***************************************************************************)
LEMMA CopyHolds ==
  ASSUME IInv, NEW r \in Requests, CopyToTenant(r)
  PROVE  IInv'
<1> DEFINE x == requests[r]
<1>t. /\ Typed /\ x \in RequestRecords /\ Placed(x) /\ x.before \subseteq Done /\ r \notin Done
      /\ x.pc = "found" /\ x.op = "promote" /\ UNCHANGED settings
      /\ memories \subseteq Entries /\ settings \in [Agents -> Choices]
  BY DEF IInv, Typed, TablesOK, Placements, Past, Done, CopyToTenant, At
<1>1. PICK e \in x.row : memories' = Upsert(e.agent, "tenant", e.key, e.value)
  BY DEF CopyToTenant
<1>2. /\ e.agent \in Agents /\ e.key \in Keys /\ e.value \in Requests /\ Learnt(e)
  BY <1>t DEF RequestRecords, Entries, IInv, AllLearnt
<1> DEFINE y == [x EXCEPT !.pc = "copied", !.copied = x.row]
<1>3. requests' = [requests EXCEPT ![r] = y] /\ requests[r] = x
  BY <1>t DEF CopyToTenant, Typed
<1>4. /\ y \in RequestRecords /\ y.pc = "copied" /\ y.op = "promote" /\ y.told = x.told /\ y.row = x.row
      /\ y.copied = x.row /\ y.wrote = x.wrote /\ y.before = x.before /\ y.under = x.under /\ y.user = x.user /\ y.agent = x.agent
  BY <1>t DEF RequestRecords, Labels
<1> HIDE DEF x, y
<1>5. Placed(y) /\ Follows(y, x) /\ Moves(r, y) /\ requests'[r] = y
  <2>1. Placed(y) /\ Follows(y, x)
    BY <1>4, <1>t DEF Placed, Follows
  <2>2. QED
    BY <1>3, <1>4, <1>t, <2>1, MovesTyped DEF Moves
<1>6. Told(r, y) /\ KnownTo(r)'
  BY <1>3, <1>4, <1>5, <1>t DEF Told, KnownTo, IInv, AllLearnt, ToldInScope, RequestRecords, Entries
<1>8. PICK a \in Agents, k \in Keys, v \in Requests : a = e.agent /\ k = e.key /\ v = e.value
  BY <1>2
<1>u. memories' = Upsert(a, "tenant", k, v) /\ "tenant" \in Scopes
  BY <1>1, <1>8 DEF Scopes
<1>7. /\ PromotedValue(v)'
      /\ \A m : m.agent = a /\ m.scope = "tenant" /\ m.key = k /\ m.value = v => PromotedTo(m)'
  BY <1>1, <1>4, <1>5, <1>8 DEF PromotedValue, PromotedTo
<1>9. /\ memories' \subseteq Entries
      /\ \A m \in memories' :
           \/ m \in memories
           \/ /\ m.agent = a /\ m.scope = "tenant" /\ m.key = k /\ m.value = v
              /\ m.archived => \E n \in memories : /\ n.agent = a /\ n.scope = "tenant"
                                                    /\ n.key = k /\ n.archived
      /\ \A n \in memories :
           \/ n \in memories'
           \/ /\ n.agent = a /\ n.scope = "tenant" /\ n.key = k
              /\ \E m \in memories' : /\ m.agent = a /\ m.scope = "tenant" /\ m.key = k
                                      /\ m.value = v /\ m.archived = n.archived
  BY <1>t, <1>u, UpsertWrites
<1>10. (\E n \in memories : n.agent = a /\ n.scope = "tenant" /\ n.key = k /\ n.archived)
         => PromotedFrom(a, "tenant", k)'
  <2>1. PromotedFrom(a, "tenant", k) => PromotedFrom(a, "tenant", k)'
    BY <1>3, <1>5, MovesKnown
  <2>2. QED
    BY <2>1 DEF IInv, ArchivedByPromotion
<1>11. TablesOK'
  BY <1>9, <1>t DEF TablesOK
<1>12. Replaces(r)
  <2>1. SUFFICES ASSUME NEW n \in memories, ~n.archived
                 PROVE  \E m \in memories' : Kin(m, n) /\ ~m.archived /\ (m.value = n.value \/ PromotedTo(m)')
    BY DEF Replaces
  <2>2. CASE n \in memories'
    BY <2>1, <2>2 DEF Kin
  <2>3. CASE n \notin memories'
    BY <1>7, <1>9, <2>1, <2>3 DEF Kin
  <2>4. QED
    BY <2>2, <2>3
<1>13. ASSUME NEW m \in memories', m \notin memories
       PROVE  Learnt(m)' /\ (m.archived => PromotedFrom(m.agent, m.scope, m.key)')
  <2>1. /\ m.agent = a /\ m.scope = "tenant" /\ m.key = k /\ m.value = v
        /\ m.archived => PromotedFrom(a, "tenant", k)'
    BY <1>9, <1>10, <1>13
  <2>2. Learnt(e)'
    BY <1>2, <1>3, <1>5, MovesKnown
  <2>3. requests'[v].wrote # {}
    BY <1>8, <2>2 DEF Learnt
  <2>4. Learnt(m)'
    BY <1>7, <2>1, <2>3 DEF Learnt, PromotedValue
  <2>5. QED
    BY <2>1, <2>4 DEF PromotedFrom
<1>14. QED
  BY <1>3, <1>4, <1>5, <1>6, <1>11, <1>12, <1>13, <1>t, StepHolds

LEMMA ArchiveHolds ==
  ASSUME IInv, NEW r \in Requests, ArchiveOriginal(r)
  PROVE  IInv'
<1> DEFINE x == requests[r]
<1>t. /\ Typed /\ x \in RequestRecords /\ Placed(x) /\ x.before \subseteq Done
      /\ x.pc = "copied" /\ x.op = "promote" /\ UNCHANGED settings
      /\ memories \subseteq Entries /\ settings \in [Agents -> Choices]
  BY DEF IInv, Typed, TablesOK, Placements, Past, ArchiveOriginal, At
<1>1. Leave(r, TRUE) /\ x.pc \notin {"new", "done"}
  BY <1>t DEF ArchiveOriginal, Finish
<1>2. PICK y : Moves(r, y) /\ Follows(y, x) /\ Left(y, x)
  BY <1>1, <1>t, LeaveMoves
<1> DEFINE Old(m) == m.id \in {u.id : u \in x.row}
<1>3. memories' = {IF Old(m) THEN [m EXCEPT !.archived = TRUE] ELSE m : m \in memories}
  BY DEF ArchiveOriginal
<1>4. \A m \in memories : Old(m) => \E u \in x.copied : Kin(u, m)
  BY <1>t DEF Entries, RequestRecords, Placed, Kin
<1>5. requests[r] = x
  OBVIOUS
<1> HIDE DEF x, Old
<1>6. requests'[r] = y /\ y.pc = "done" /\ y.op = "promote" /\ y.row \subseteq x.row /\ y.told = {} /\ y.wrote = x.wrote
      /\ y.before \subseteq Done
  BY <1>2, <1>t DEF Moves, Follows, Left
<1>7. \A m \in memories : Old(m) => PromotedFrom(m.agent, m.scope, m.key)'
  <2>1. SUFFICES ASSUME NEW m \in memories, Old(m) PROVE PromotedFrom(m.agent, m.scope, m.key)'
    OBVIOUS
  <2>2. PICK u \in x.copied : Kin(u, m)
    BY <1>4, <2>1
  <2>3. y.copied = x.copied
    BY <1>2, <1>5, <1>t, <2>2 DEF Follows
  <2>4. QED
    BY <1>6, <2>2, <2>3 DEF PromotedFrom, Kin
<1>8. ASSUME NEW m \in memories, NEW n, n = [m EXCEPT !.archived = TRUE]
      PROVE  n \in Entries /\ Kin(n, m) /\ n.value = m.value
  BY <1>8, <1>t DEF Entries, Kin
<1>9. ASSUME NEW n \in memories'
      PROVE  /\ n \in Entries /\ \E m \in memories : Kin(n, m) /\ n.value = m.value
             /\ n \in memories \/ PromotedFrom(n.agent, n.scope, n.key)'
  <2>1. PICK m \in memories : n = IF Old(m) THEN [m EXCEPT !.archived = TRUE] ELSE m
    BY <1>3, <1>9
  <2>2. CASE Old(m)
    <3>1. n \in Entries /\ Kin(n, m) /\ n.value = m.value
      BY <1>8, <2>1, <2>2
    <3>2. PromotedFrom(n.agent, n.scope, n.key)'
      BY <1>7, <2>2, <3>1 DEF Kin, PromotedFrom
    <3>3. QED
      BY <3>1, <3>2
  <2>3. CASE ~Old(m)
    BY <1>t, <2>1, <2>3 DEF Kin
  <2>4. QED
    BY <2>2, <2>3
<1>10. TablesOK'
  BY <1>9, <1>t DEF TablesOK
<1>11. Replaces(r)
  <2>1. SUFFICES ASSUME NEW n \in memories
                 PROVE  n \in memories' \/ PromotedFrom(n.agent, n.scope, n.key)'
    BY DEF Replaces, Kin
  <2>2. QED
    BY <1>3, <1>7
<1>12. \A n \in memories' : n \in memories \/ Learnt(n)'
  <2>1. SUFFICES ASSUME NEW n \in memories' PROVE Learnt(n)'
    OBVIOUS
  <2>2. PICK m \in memories : Kin(n, m) /\ n.value = m.value
    BY <1>9
  <2>3. Learnt(m)'
    BY <1>2, <1>5, <1>t, MovesKnown DEF IInv, AllLearnt, Entries
  <2>4. QED
    BY <2>2, <2>3 DEF Learnt, Kin, PromotedValue
<1>13. Told(r, y) /\ KnownTo(r)'
  BY <1>5, <1>6, <1>t DEF Told, KnownTo, IInv, AllLearnt, RequestRecords, Entries
<1>14. QED
  BY <1>2, <1>5, <1>6, <1>9, <1>10, <1>11, <1>12, <1>13, StepHolds

LEMMA OffboardHolds ==
  ASSUME IInv, NEW r \in Requests, Offboard(r)
  PROVE  IInv'
<1>t. Typed /\ memories \subseteq Entries /\ settings \in [Agents -> Choices]
  BY DEF IInv, Typed, TablesOK
<1>n. /\ NewReq \in RequestRecords /\ NewReq.wrote = {} /\ NewReq.told = {} /\ NewReq.row = {}
      /\ NewReq.under = {} /\ NewReq.copied = {}
  BY NewReqTyped DEF NewReq
<1>1. PICK user \in Users :
        /\ memories' = memories \ OfUser(user)
        /\ Begin(r, "offboard", [NewReq EXCEPT !.pc = "done", !.ok = TRUE, !.user = user])
  BY DEF Offboard
<1> DEFINE x == [NewReq EXCEPT !.pc = "done", !.ok = TRUE, !.user = user]
<1>2. /\ x \in RequestRecords /\ x.told = {} /\ x.row = {} /\ x.wrote = {} /\ x.user = user
  BY <1>n DEF RequestRecords, Labels, Names
<1>3. Placed([x EXCEPT !.op = "offboard"])
  BY <1>n DEF Placed, RequestRecords
<1>4. Begin(r, "offboard", x) /\ UNCHANGED settings
  BY <1>1 DEF Offboard
<1> HIDE DEF x
<1>5. PICK y : Came(r, y, "offboard", x)
  BY <1>2, <1>3, <1>4, <1>t, BeginCame DEF Ops
<1>6. /\ Moves(r, y) /\ Follows(y, requests[r]) /\ y.before \subseteq Done /\ y.wrote = {}
      /\ requests'[r] = y /\ y.op = "offboard" /\ y.user = user /\ y.told = {} /\ y.row = {}
  BY <1>2, <1>5 DEF Came, Follows, Moves
<1>7. TablesOK' /\ memories' \subseteq memories
  BY <1>1, <1>4, <1>t DEF TablesOK
<1>8. KnownTo(r)' /\ Told(r, y)
  BY <1>6 DEF KnownTo, Told
<1>9. Replaces(r)
  <2>1. SUFFICES ASSUME NEW n \in memories PROVE n \in memories' \/ n.scope = user
    BY <1>6 DEF Replaces, Kin
  <2>2. QED
    BY <1>1 DEF OfUser
<1>10. QED
  BY <1>6, <1>7, <1>8, <1>9, StepHolds

(***************************************************************************)
(* The invariant holds.                                                    *)
(***************************************************************************)
LEMMA InitIInv == Init => IInv
<1> SUFFICES ASSUME Init PROVE IInv
  OBVIOUS
<1>1. requests \in [Requests -> RequestRecords] /\ \A r \in Requests : requests[r] = NewReq
  BY NewReqTyped DEF Init
<1>2. Typed
  BY <1>1, NewReqTyped DEF Init, Typed, TablesOK, Placements
<1>3. \A r \in Requests : /\ requests[r].before = {} /\ requests[r].told = {} /\ requests[r].row = {}
                          /\ requests[r].wrote = {} /\ requests[r].op = "none"
  BY <1>1 DEF NewReq
<1>4. QED
  BY <1>2, <1>3 DEF Init, IInv, Past, AllLearnt, ToldInScope, ArchivedByPromotion, WrittenInScope, Kept,
     KnownTo

LEMMA StepIInv == IInv /\ [Next]_vars => IInv'
<1> SUFFICES ASSUME IInv, [Next]_vars PROVE IInv'
  OBVIOUS
<1>1. ASSUME NEW r \in Requests, Stop(r) \/ EndRun(r) PROVE IInv'
  <2>1. PICK ok \in BOOLEAN : Leave(r, ok)
    BY <1>1 DEF Stop, EndRun, Finish
  <2>2. requests[r].pc \notin {"new", "done"} /\ UNCHANGED stores
    BY <1>1 DEF Stop, EndRun, InFlight, Done, Fresh
  <2>3. QED
    BY <2>1, <2>2, LeaveHolds
<1>2. ASSUME UNCHANGED vars PROVE IInv'
  BY <1>2 DEF vars, IInv, Typed, TablesOK, Placements, Past, AllLearnt, Learnt, ToldInScope,
     ArchivedByPromotion, WrittenInScope, Kept, KnownTo, Stored, Excused, Offboarded, PromotedFrom,
     PromotedTo, PromotedValue, Later, Done
<1>3. QED
  BY <1>1, <1>2, BeginsHold, ReadsHold, RememberHolds, CopyHolds, ArchiveHolds, OffboardHolds DEF Next

(***************************************************************************)
(* The tables and the requests keep their types, the invariant holds.      *)
(***************************************************************************)
THEOREM MemoryInvariant == Spec => []IInv
BY InitIInv, StepIInv, PTL DEF Spec

(***************************************************************************)
(* What an agent learnt of a user under private settings is told to no     *)
(* other user unless an admin promoted it, however the agent's settings    *)
(* change while runs are under way (engine/memory.rs, write_memory;        *)
(* store/models/memory.rs, read_for_user).                                 *)
(***************************************************************************)
THEOREM ThePrivateStaysPrivate == Spec => []PrivateStaysPrivate
<1>1. IInv => PrivateStaysPrivate
  <2>1. SUFFICES ASSUME IInv, NEW q \in Requests, NEW m \in requests[q].told,
                        NEW set \in requests[m.value].under, Private(set),
                        requests[m.value].user # requests[q].user
                 PROVE  PromotedValue(m.value)
    <3>1. ASSUME NEW q \in Requests, NEW m \in requests[q].told, PromotedValue(m.value)
          PROVE  \E p \in Requests : m.value \in {e.value : e \in requests[p].copied}
      BY <3>1 DEF PromotedValue
    <3>2. QED
      BY <3>1 DEF PrivateStaysPrivate
  <2>2. m.value \in Requests /\ Learnt(m) /\ m.scope \in {"tenant", requests[q].user}
    BY <2>1 DEF IInv, Typed, RequestRecords, Entries, AllLearnt, ToldInScope
  <2>3. ASSUME NEW other \in requests[m.value].under, m.scope \in Scope(other, requests[m.value].user)
        PROVE  FALSE
    <3>1. other = set /\ set \in Choices /\ requests[m.value].user \in Names
      BY <2>1, <2>2, <2>3 DEF IInv, Typed, Placements, Placed, RequestRecords
    <3>2. m.scope = requests[m.value].user
      BY <2>1, <2>3, <3>1, ScopeIs
    <3>3. QED
      BY <2>1, <2>2, <3>1, <3>2, MemoryAssumption DEF Names
  <2>4. QED
    BY <2>2, <2>3 DEF Learnt
<1>2. QED
  BY <1>1, MemoryInvariant, PTL

(***************************************************************************)
(* What a run wrote is known to the runs of that user that come after it,  *)
(* and to everybody's when the agent shares it: that value, a newer one, or *)
(* one a promotion has put in its place in the tenant's scope (engine/     *)
(* memory.rs, write_memory, promote_to_tenant; store/models/memory.rs,     *)
(* upsert).  Except for offboarded users and places promotions copied from. *)
(***************************************************************************)
THEOREM TheWrittenIsKnown == Spec => []WrittenIsKnown
<1>1. IInv => WrittenIsKnown
  <2>1. SUFFICES ASSUME IInv, NEW w \in Accepted("run"), NEW q \in Requests,
                        NEW x \in requests[w].wrote, NEW s \in x.scopes,
                        w \in requests[q].before, requests[q].op = "run",
                        requests[q].pc \in {"answering", "curating"},
                        requests[q].agent = requests[w].agent,
                        requests[q].user = requests[w].user \/ \A set \in requests[w].under : Shared(set)
                 PROVE  \/ \E m \in requests[q].told : m.key = x.key /\ m.scope = s /\ Later(m, requests[w].before)
                        \/ Excused(requests[w].agent, x, s, requests[w].before)
    BY DEF WrittenIsKnown, Later, Excused, Offboarded
  <2>2. KnownTo(q)
    BY <2>1 DEF IInv
  <2>3. QED
    BY <2>1, <2>2 DEF KnownTo
<1>2. QED
  BY <1>1, MemoryInvariant, PTL
=============================================================================
