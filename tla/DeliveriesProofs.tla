-------------------------- MODULE DeliveriesProofs --------------------------
(***************************************************************************)
(* Theorems of Deliveries, for any number of attempts, tenants, ids and    *)
(* subscriptions, any failures and any restarts.                           *)
(*                                                                         *)
(* At most once follows from the table alone: an id is recorded there      *)
(* before anything runs, stays there, and is recorded once.                *)
(***************************************************************************)
EXTENDS Deliveries, TLAPS

InProgress == {"route", "subs", "running", "agent", "find", "create", "credentials", "loop", "reply"}

SlackLabels == {"agent", "find", "create", "credentials", "loop", "reply"}

Origins ==
  \A a \in Attempts :
    /\ attempts[a].kind = "slack" => attempts[a].thread \in Threads
    /\ attempts[a].pc # "new" => attempts[a].kind # "none"
    /\ attempts[a].pc \in SlackLabels => attempts[a].kind = "slack"
    /\ attempts[a].pc = "dedup" => attempts[a].id \in Ids /\ attempts[a].tenant \in Tenants

Types == TypeOK /\ Origins

\* What the locals of one attempt say about each other.
Locals(x) ==
  /\ x.pc # "new" => x.tenant \in Tenants
  /\ x.pc \in {"new", "dedup"} => x.verdict = "none" /\ x.ran = {}
  /\ x.pc = "dedup" => x.id \in Ids
  /\ x.pc \in InProgress \/ x.ran # {} => x.id = NoId \/ x.verdict \in {"new", "unchecked"}
  /\ x.verdict = "new" => x.pc # "new" /\ x.id \in recorded[x.tenant]

NewOnce ==
  \A a, b \in Attempts : a # b /\ SameDelivery(a, b) =>
    ~(attempts[a].verdict = "new" /\ attempts[b].verdict = "new")

\* Whatever the map or a table has was recorded by an attempt: since the last restart,
\* and for the table's tenant.
Traced ==
  /\ \A d \in seen : \E b \in Attempts : Recorded(b, d) /\ attempts[b].life = crashes
  /\ \A t \in Tenants : \A d \in recorded[t] :
       \E b \in Attempts : Recorded(b, d) /\ attempts[b].tenant = t
  /\ RefusedWasRecorded

Bookkeeping == (\A a \in Attempts : Locals(attempts[a])) /\ NewOnce /\ Traced

\* Threads: whoever is about to create a conversation looked before any that is there
\* was inserted.
Stamps ==
  /\ \A c \in conversations : c.stamp <= clock /\ c.at <= clock
  /\ \A a \in Attempts : At(a, "create") =>
       attempts[a].stamp <= clock /\ \A c \in OfThread(a) : attempts[a].stamp < c.at

ThreadInv == Stamps /\ SplitsOnlyByRaces

\* The subscriptions of a routing: none is handled before the list is read, and from then
\* on each of the list is run, skipped or still to come.
Tried(x) ==
  /\ x.pc \in {"new", "dedup", "route"} => x.ran = {} /\ x.skipped = {}
  /\ x.pc \in {"subs", "running"} => x.ran \cup x.skipped \cup x.todo = x.listed
  /\ x.pc = "accepted" => x.ran \cup x.skipped = x.listed

Routing == \A a \in Attempts : Tried(attempts[a])

\* One attempt takes a step from x to y; the others stay where they are.
Moves(a, y) == attempts' = [attempts EXCEPT ![a] = y]

LEMMA InitTypes == Init => Types
<1> SUFFICES ASSUME Init PROVE Types
  OBVIOUS
<1>1. NewAttempt \in AttemptRecords
  BY DEF NewAttempt, AttemptRecords, Labels, Ended
<1>2. QED
  BY <1>1 DEF Init, Types, TypeOK, Origins, NewAttempt, SlackLabels

\* An attempt whose delivery has been neither checked nor handled.
Untouched(y) == y.verdict = "none" /\ y.ran = {}

LEMMA ArriveMoves ==
  ASSUME TypeOK, NEW a \in Attempts, NEW kind \in {"event", "slack"}, NEW t \in Tenants,
         NEW d \in Ids \cup {NoId}, NEW h \in Threads \cup {"none"}, Arrive(a, kind, t, d, h)
  PROVE  \E y \in AttemptRecords :
           /\ Moves(a, y) /\ y.pc = (IF d = NoId THEN "route" ELSE "dedup") /\ y.kind = kind
           /\ y.tenant = t /\ y.id = d /\ y.thread = h /\ Untouched(y)
<1> DEFINE l == IF d = NoId THEN "route" ELSE "dedup"
           y == [NewAttempt EXCEPT !.pc = l, !.kind = kind, !.tenant = t, !.id = d, !.thread = h]
<1>1. l \in Labels
  BY DEF Labels
<1>2. Moves(a, y)
  BY DEF Arrive, Moves
<1> HIDE DEF l
<1>3. y \in AttemptRecords /\ y.pc = l /\ y.kind = kind /\ y.tenant = t /\ y.id = d /\ y.thread = h
      /\ Untouched(y)
  BY <1>1 DEF NewAttempt, AttemptRecords, Untouched
<1>4. QED
  BY <1>2, <1>3 DEF l

\* The steps of an attempt that is on its way change its locals by one record.
OnItsWay(a) ==
  \/ Record(a) \/ Duplicate(a) \/ CheckFails(a)
  \/ ListSubs(a) \/ RouteFails(a) \/ Accept(a)
  \/ \E s \in Subs : SkipSub(a, s) \/ StartSub(a, s)
  \/ ConcludeSub(a) \/ SubFails(a)
  \/ LoadAgent(a) \/ FindConversation(a) \/ NoConversation(a) \/ CreateConversation(a)
  \/ Credentials(a) \/ Answered(a) \/ SlackFails(a)

\* What all these steps have in common.
Follows(a, y) ==
  LET x == attempts[a] IN
  /\ y.kind = x.kind /\ y.tenant = x.tenant /\ y.id = x.id /\ y.thread = x.thread
  /\ x.pc # "new" /\ y.pc # "new" /\ y.pc # "dedup"
  /\ x.pc = "dedup" \/ (x.pc \in InProgress /\ y.verdict = x.verdict /\ y.life = x.life)
  /\ x.pc = "dedup" => y.ran = x.ran
  /\ y.pc \in SlackLabels => x.pc \in SlackLabels \/ (x.pc = "dedup" /\ x.kind # "event")

LEMMA StepMoves ==
  ASSUME Types, NEW a \in Attempts, OnItsWay(a)
  PROVE  \E y \in AttemptRecords : Moves(a, y) /\ Follows(a, y)
<1> USE DEF InProgress, SlackLabels
<1>1. attempts \in [Attempts -> AttemptRecords] /\ attempts[a] \in AttemptRecords
  BY DEF Types, TypeOK
<1> DEFINE x == attempts[a]
<1>2. ASSUME NEW l \in Labels, Goto(a, l), x.pc \in InProgress, l \notin {"new", "dedup"},
             l \in SlackLabels => x.pc \in SlackLabels
      PROVE  \E y \in AttemptRecords : Moves(a, y) /\ Follows(a, y)
  <2> DEFINE y == [attempts[a] EXCEPT !.pc = l]
  <2>1. y \in AttemptRecords /\ Moves(a, y) /\ Follows(a, y)
    BY <1>1, <1>2 DEF Goto, Moves, Follows, AttemptRecords
  <2>2. QED
    BY <2>1
<1>3. CASE RouteFails(a) \/ Accept(a) \/ ConcludeSub(a) \/ SubFails(a) \/ LoadAgent(a)
        \/ CreateConversation(a) \/ Answered(a) \/ SlackFails(a)
  <2>1. \E l \in {"error", "accepted", "subs", "find", "done", "credentials", "reply"} :
          Goto(a, l) /\ x.pc \in InProgress /\ (l \in SlackLabels => x.pc \in SlackLabels)
    BY <1>3 DEF RouteFails, Accept, ConcludeSub, SubFails, LoadAgent, CreateConversation, Answered,
       SlackFails, At
  <2>2. QED
    BY <2>1, <1>2 DEF Labels, Ended
<1>4. CASE Record(a)
  <2> DEFINE y == [attempts[a] EXCEPT !.pc = Passed(a), !.verdict = "new", !.life = crashes]
  <2>1. Passed(a) \in {"route", "agent"} /\ Passed(a) \in Labels /\ (Passed(a) = "agent" => x.kind # "event")
    BY DEF Passed, Labels
  <2>2. attempts' = [attempts EXCEPT ![a].pc = Passed(a), ![a].verdict = "new", ![a].life = crashes]
        /\ x.pc = "dedup" /\ crashes \in Nat
    BY <1>4 DEF Record, At, Types, TypeOK
  <2>3. y \in AttemptRecords
    BY <1>1, <2>1, <2>2 DEF AttemptRecords, Labels
  <2>4. Moves(a, y)
    BY <1>1, <2>2 DEF Moves
  <2>5. Follows(a, y)
    BY <1>1, <2>1, <2>2 DEF Follows, AttemptRecords
  <2>6. QED
    BY <2>3, <2>4, <2>5
<1>5. CASE Duplicate(a)
  <2> DEFINE y == [attempts[a] EXCEPT !.pc = "duplicate", !.verdict = "duplicate", !.life = crashes]
  <2>1. y \in AttemptRecords /\ Moves(a, y) /\ Follows(a, y)
    <3>1. attempts' = [attempts EXCEPT ![a].pc = "duplicate", ![a].verdict = "duplicate", ![a].life = crashes]
          /\ x.pc = "dedup" /\ crashes \in Nat
      BY <1>5 DEF Duplicate, At, Types, TypeOK
    <3>2. QED
      BY <1>1, <3>1 DEF Moves, Follows, AttemptRecords, Labels, Ended
  <2>2. QED
    BY <2>1
<1>6. CASE CheckFails(a)
  <2> DEFINE l == IF attempts[a].kind = "event" THEN "route" ELSE "done"
             y == [attempts[a] EXCEPT !.pc = l, !.verdict = "unchecked"]
  <2>1. l \in {"route", "done"} /\ l \in Labels
    BY DEF Labels, Ended
  <2>2. attempts' = [attempts EXCEPT ![a].pc = l, ![a].verdict = "unchecked"] /\ x.pc = "dedup"
    BY <1>6 DEF CheckFails, At
  <2> HIDE DEF l
  <2>3. y \in AttemptRecords /\ Moves(a, y) /\ Follows(a, y)
    BY <1>1, <2>1, <2>2 DEF Moves, Follows, AttemptRecords
  <2>4. QED
    BY <2>3
<1>7. CASE ListSubs(a)
  <2> DEFINE active == {s \in Subs : SubTenant[s] = attempts[a].tenant /\ subs[s] = "active"}
             y == [attempts[a] EXCEPT !.pc = "subs", !.listed = active, !.todo = active]
  <2>1. attempts' = [attempts EXCEPT ![a].pc = "subs", ![a].listed = active, ![a].todo = active]
        /\ x.pc = "route" /\ active \in SUBSET Subs
    BY <1>7 DEF ListSubs, At
  <2> HIDE DEF active
  <2>2. y \in AttemptRecords /\ Moves(a, y) /\ Follows(a, y)
    BY <1>1, <2>1 DEF Moves, Follows, AttemptRecords, Labels
  <2>3. QED
    BY <2>2
<1>8. ASSUME NEW s \in Subs, SkipSub(a, s) PROVE \E y \in AttemptRecords : Moves(a, y) /\ Follows(a, y)
  <2> DEFINE y == [attempts[a] EXCEPT !.todo = @ \ {s}, !.skipped = @ \cup {s}]
  <2>1. y \in AttemptRecords /\ Moves(a, y) /\ Follows(a, y)
    <3>1. x.pc = "subs" /\ attempts' = [attempts EXCEPT ![a].todo = @ \ {s}, ![a].skipped = @ \cup {s}]
      BY <1>8 DEF SkipSub, At
    <3>2. QED
      BY <1>1, <3>1 DEF Moves, Follows, AttemptRecords
  <2>2. QED
    BY <2>1
<1>9. ASSUME NEW s \in Subs, StartSub(a, s) PROVE \E y \in AttemptRecords : Moves(a, y) /\ Follows(a, y)
  <2> DEFINE y == [attempts[a] EXCEPT !.pc = "running", !.todo = @ \ {s}, !.ran = @ \cup {s}]
  <2>1. y \in AttemptRecords /\ Moves(a, y) /\ Follows(a, y)
    <3>1. /\ x.pc = "subs"
          /\ attempts' = [attempts EXCEPT ![a].pc = "running", ![a].todo = @ \ {s}, ![a].ran = @ \cup {s}]
      BY <1>9 DEF StartSub, At
    <3>2. QED
      BY <1>1, <3>1 DEF Moves, Follows, AttemptRecords, Labels
  <2>2. QED
    BY <2>1
<1>10. CASE FindConversation(a)
  <2>1. PICK c \in OfThread(a) :
          attempts' = [attempts EXCEPT ![a].pc = "credentials", ![a].stamp = c.stamp]
    BY <1>10 DEF FindConversation
  <2> DEFINE y == [attempts[a] EXCEPT !.pc = "credentials", !.stamp = c.stamp]
  <2>2. c.stamp \in Nat /\ x.pc = "find"
    BY <1>10 DEF FindConversation, At, OfThread, Types, TypeOK
  <2>3. y \in AttemptRecords /\ Moves(a, y) /\ Follows(a, y)
    BY <1>1, <2>1, <2>2 DEF Moves, Follows, AttemptRecords, Labels
  <2>4. QED
    BY <2>3
<1>11. CASE NoConversation(a)
  <2> DEFINE y == [attempts[a] EXCEPT !.pc = "create", !.stamp = clock + 1]
  <2>1. clock + 1 \in Nat /\ x.pc = "find"
    BY <1>11 DEF NoConversation, At, Types, TypeOK
  <2>2. y \in AttemptRecords /\ Moves(a, y) /\ Follows(a, y)
    BY <1>1, <1>11, <2>1 DEF NoConversation, Moves, Follows, AttemptRecords, Labels
  <2>3. QED
    BY <2>2
<1>12. CASE Credentials(a)
  <2>1. CASE Goto(a, "done")
    BY <1>2, <1>12, <2>1 DEF Credentials, At, Labels, Ended
  <2>2. CASE attempts' = [attempts EXCEPT ![a].pc = "loop", ![a].ran = {attempts[a].thread}]
    <3> DEFINE y == [attempts[a] EXCEPT !.pc = "loop", !.ran = {attempts[a].thread}]
    <3>1. x.pc = "credentials" /\ x.thread \in Threads
      BY <1>12 DEF Credentials, At, Types, Origins
    <3>2. y \in AttemptRecords /\ Moves(a, y) /\ Follows(a, y)
      BY <1>1, <2>2, <3>1 DEF Moves, Follows, AttemptRecords, Labels
    <3>3. QED
      BY <3>2
  <2>3. QED
    BY <1>12, <2>1, <2>2 DEF Credentials
<1>13. QED
  BY <1>3, <1>4, <1>5, <1>6, <1>7, <1>8, <1>9, <1>10, <1>11, <1>12 DEF OnItsWay

(***************************************************************************)
(* Types.                                                                  *)
(***************************************************************************)
LEMMA ArriveTypes ==
  ASSUME Types, NEW a \in Attempts, NEW kind \in {"event", "slack"}, NEW t \in Tenants,
         NEW d \in Ids \cup {NoId}, NEW h \in Threads \cup {"none"}, Arrive(a, kind, t, d, h),
         kind = "slack" => h \in Threads /\ d # NoId
  PROVE  Types'
<1>1. PICK y \in AttemptRecords :
        /\ Moves(a, y) /\ y.pc = (IF d = NoId THEN "route" ELSE "dedup") /\ y.kind = kind
        /\ y.thread = h /\ y.tenant = t /\ y.id = d
  BY ArriveMoves DEF Types
<1>2. UNCHANGED <<seen, recorded, store, faults, crashes>>
  BY DEF Arrive
<1>3. TypeOK'
  BY <1>1, <1>2 DEF Types, TypeOK, Moves, store
<1>4. Origins'
  BY <1>1 DEF Types, TypeOK, Origins, Moves, SlackLabels
<1>5. QED
  BY <1>3, <1>4 DEF Types

LEMMA StepTypes == ASSUME Types, NEW a \in Attempts, OnItsWay(a) PROVE Types'
<1>1. PICK y \in AttemptRecords : Moves(a, y) /\ Follows(a, y)
  BY StepMoves
<1>2. attempts' \in [Attempts -> AttemptRecords]
  BY <1>1 DEF Types, TypeOK, Moves
<1>3. Origins'
  <2>1. attempts[a] \in AttemptRecords /\ attempts'[a] = y
        /\ \A b \in Attempts : b # a => attempts'[b] = attempts[b]
    BY <1>1 DEF Types, TypeOK, Moves
  <2>2. /\ y.kind = "slack" => y.thread \in Threads
        /\ y.kind # "none" /\ y.pc # "dedup" /\ (y.pc \in SlackLabels => y.kind = "slack")
    BY <1>1, <2>1 DEF Types, Origins, Follows, AttemptRecords
  <2>3. QED
    BY <2>1, <2>2 DEF Types, Origins
<1>4. /\ seen' \subseteq Ids /\ recorded' \in [Tenants -> SUBSET Ids]
      /\ conversations' \subseteq [thread : Threads, stamp : Nat, at : Nat]
      /\ open' \subseteq Attempts \X Subs
      /\ clock' \in Nat /\ faults' \in Nat
  <2>1. CASE Record(a)
    <3>1. attempts[a].id \in Ids
      BY <2>1 DEF Record, At, Types, Origins
    <3>2. seen' \subseteq Ids /\ recorded' \in [Tenants -> SUBSET Ids]
      BY <2>1, <3>1 DEF Record, Types, TypeOK
    <3>3. UNCHANGED <<store, faults>>
      BY <2>1 DEF Record
    <3>4. QED
      BY <3>2, <3>3 DEF store, Types, TypeOK
  <2>2. CASE CreateConversation(a)
    <3>1. attempts[a].thread \in Threads /\ attempts[a].stamp \in Nat
      BY <2>2 DEF CreateConversation, At, Types, TypeOK, Origins, SlackLabels, AttemptRecords
    <3>2. conversations' \subseteq [thread : Threads, stamp : Nat, at : Nat] /\ clock' \in Nat
      BY <2>2, <3>1 DEF CreateConversation, Types, TypeOK
    <3>3. UNCHANGED <<seen, recorded, open, faults>>
      BY <2>2 DEF CreateConversation
    <3>4. QED
      BY <3>2, <3>3 DEF Types, TypeOK
  <2>3. ASSUME NEW s \in Subs, StartSub(a, s)
        PROVE  open' \subseteq Attempts \X Subs /\ UNCHANGED <<seen, recorded, conversations, clock, faults>>
    BY <2>3 DEF StartSub, Types, TypeOK
  <2>4. ASSUME ~Record(a), ~CreateConversation(a), \A s \in Subs : ~StartSub(a, s)
        PROVE  /\ UNCHANGED <<seen, recorded, conversations>>
               /\ open' \subseteq open /\ clock' \in {clock, clock + 1} /\ faults' \in {faults, faults + 1}
    BY <2>4 DEF OnItsWay, Duplicate, CheckFails, ListSubs, RouteFails, Accept, SkipSub, ConcludeSub,
       SubFails, LoadAgent, FindConversation, NoConversation, Credentials, Answered, SlackFails, store
  <2>5. QED
    BY <2>1, <2>2, <2>3, <2>4 DEF Types, TypeOK
<1>5. subs' = subs /\ crashes' = crashes
  BY DEF OnItsWay, Record, Duplicate, CheckFails, ListSubs, RouteFails, Accept, SkipSub, StartSub,
     ConcludeSub, SubFails, LoadAgent, FindConversation, NoConversation, CreateConversation,
     Credentials, Answered, SlackFails, store
<1>6. QED
  BY <1>2, <1>3, <1>4, <1>5 DEF Types, TypeOK

LEMMA EnvironmentTypes == ASSUME Types, (\E s \in Subs : Admin(s)) \/ Restart PROVE Types'
<1>1. CASE \E s \in Subs : Admin(s)
  BY <1>1 DEF Admin, CreateSub, EnableSub, DisableSub, DeleteSub, SetSub, Types, TypeOK, Origins
<1>2. CASE Restart
  <2>1. \A a \in Attempts : [attempts[a] EXCEPT !.pc = "lost"] \in AttemptRecords
    BY DEF Types, TypeOK, AttemptRecords, Labels, Ended
  <2>2. attempts' \in [Attempts -> AttemptRecords]
    BY <1>2, <2>1 DEF Restart, Types, TypeOK
  <2>3. \A a \in Attempts : /\ attempts'[a].kind = attempts[a].kind
                            /\ attempts'[a].thread = attempts[a].thread
                            /\ attempts'[a].pc \in {attempts[a].pc, "lost"}
                            /\ attempts[a].pc = "new" => attempts'[a].pc = "new"
                            /\ attempts'[a].id = attempts[a].id /\ attempts'[a].tenant = attempts[a].tenant
    BY <1>2 DEF Restart, Types, TypeOK, AttemptRecords, Ended
  <2>4. Origins'
    BY <2>3 DEF Types, Origins, SlackLabels
  <2>5. UNCHANGED <<recorded, store, faults>> /\ seen' = {} /\ crashes' \in Nat
    BY <1>2 DEF Restart, Types, TypeOK
  <2>6. QED
    BY <2>2, <2>4, <2>5 DEF Types, TypeOK, store
<1>3. QED
  BY <1>1, <1>2

LEMMA TypesInvariant == Spec => []Types
<1>1. Types /\ [Next]_vars => Types'
  <2> SUFFICES ASSUME Types, [Next]_vars PROVE Types'
    OBVIOUS
  <2>1. ASSUME NEW a \in Attempts, Step(a) PROVE Types'
    <3>1. CASE EventArrives(a)
      BY <3>1, ArriveTypes DEF EventArrives
    <3>2. CASE SlackArrives(a)
      <4>1. PICK h \in Threads, d \in Ids : Arrive(a, "slack", ThreadTenant[h], d, h)
        BY <3>2 DEF SlackArrives, DispatchEvent
      <4>2. ThreadTenant[h] \in Tenants /\ d # NoId
        BY OwnersAssumption, AttemptsAssumption
      <4>3. QED
        BY <4>1, <4>2, ArriveTypes
    <3>3. CASE OnItsWay(a)
      BY <3>3, StepTypes
    <3>4. QED
      BY <2>1, <3>1, <3>2, <3>3 DEF Step, OnItsWay
  <2>2. CASE UNCHANGED vars
    BY <2>2 DEF vars, Types, TypeOK, Origins
  <2>3. QED
    BY <2>1, <2>2, EnvironmentTypes DEF Next
<1>2. QED
  BY <1>1, InitTypes, PTL DEF Spec

(***************************************************************************)
(* The books: recorded before anything runs, and recorded once.            *)
(***************************************************************************)
LEMMA RecordingStep ==
  ASSUME Types, NEW a \in Attempts, OnItsWay(a), NEW y \in AttemptRecords, Moves(a, y)
  PROVE  LET x == attempts[a] IN
         \/ /\ x.pc = "dedup" /\ x.id \notin recorded[x.tenant]
            /\ recorded' = [recorded EXCEPT ![x.tenant] = @ \cup {x.id}]
            /\ seen' = seen \cup {x.id} /\ y.verdict = "new" /\ y.life = crashes
         \/ /\ UNCHANGED <<seen, recorded>>
            /\ x.pc # "dedup" => y.verdict = x.verdict /\ y.life = x.life
            /\ x.pc = "dedup" => \/ y.verdict = "unchecked"
                                \/ /\ y.verdict = "duplicate" /\ y.pc = "duplicate" /\ y.life = crashes
                                   /\ x.id \in seen \/ x.id \in recorded[x.tenant]
<1>1. attempts[a] \in AttemptRecords /\ attempts'[a] = y
  BY DEF Types, TypeOK, Moves
<1>2. attempts \in [Attempts -> AttemptRecords]
  BY DEF Types, TypeOK
<1>3. CASE Record(a)
  BY <1>1, <1>2, <1>3 DEF Record, At, IsDuplicate, AttemptRecords
<1>4. CASE Duplicate(a)
  BY <1>1, <1>2, <1>4 DEF Duplicate, IsDuplicate, At, AttemptRecords
<1>5. CASE CheckFails(a)
  BY <1>1, <1>2, <1>5 DEF CheckFails, At, AttemptRecords
<1>6. ASSUME ~Record(a), ~Duplicate(a), ~CheckFails(a)
      PROVE  /\ UNCHANGED <<seen, recorded>> /\ attempts[a].pc # "dedup"
             /\ y.verdict = attempts[a].verdict /\ y.life = attempts[a].life
  <2>1. UNCHANGED <<seen, recorded>> /\ attempts[a].pc # "dedup"
    BY <1>6 DEF OnItsWay, ListSubs, RouteFails, Accept, SkipSub, StartSub, ConcludeSub, SubFails, LoadAgent,
       FindConversation, NoConversation, CreateConversation, Credentials, Answered, SlackFails, At
  <2>2. PICK z \in AttemptRecords : Moves(a, z) /\ Follows(a, z)
    BY StepMoves
  <2>3. z = y
    BY <1>1, <1>2, <2>2 DEF Moves
  <2>4. y.verdict = attempts[a].verdict /\ y.life = attempts[a].life
    BY <2>1, <2>2, <2>3 DEF Follows
  <2>5. QED
    BY <2>1, <2>4
<1>7. QED
  BY <1>3, <1>4, <1>5, <1>6

LEMMA StepTraces ==
  ASSUME Types, Bookkeeping, NEW a \in Attempts, OnItsWay(a), NEW y \in AttemptRecords, Moves(a, y), Follows(a, y)
  PROVE  Traced'
<1> DEFINE x == attempts[a]
<1>1. /\ x \in AttemptRecords /\ attempts'[a] = y
      /\ \A b \in Attempts : b # a => attempts'[b] = attempts[b]
      /\ x.tenant \in Tenants /\ recorded \in [Tenants -> SUBSET Ids]
      /\ y.tenant = x.tenant /\ y.id = x.id /\ Traced
      /\ x.pc = "dedup" => x.verdict = "none"
  BY DEF Types, TypeOK, Moves, Bookkeeping, Follows, Locals
<1>2. crashes' = crashes
  BY DEF OnItsWay, Record, Duplicate, CheckFails, ListSubs, RouteFails, Accept, SkipSub, StartSub, ConcludeSub,
     SubFails, LoadAgent, FindConversation, NoConversation, CreateConversation, Credentials, Answered, SlackFails
<1>3. \/ /\ x.pc = "dedup"
         /\ recorded' = [recorded EXCEPT ![x.tenant] = @ \cup {x.id}]
         /\ seen' = seen \cup {x.id} /\ y.verdict = "new" /\ y.life = crashes
      \/ /\ UNCHANGED <<seen, recorded>>
         /\ x.pc # "dedup" => y.verdict = x.verdict /\ y.life = x.life
         /\ x.pc = "dedup" => \/ y.verdict = "unchecked"
                             \/ /\ y.verdict = "duplicate" /\ y.life = crashes
                                /\ x.id \in seen \/ x.id \in recorded[x.tenant]
  BY RecordingStep
<1>4. \A b \in Attempts : attempts[b].verdict = "new" => /\ attempts'[b].verdict = "new"
        /\ attempts'[b].id = attempts[b].id /\ attempts'[b].tenant = attempts[b].tenant
        /\ attempts'[b].life = attempts[b].life
  BY <1>1, <1>3
<1> HIDE DEF x
<1>5. ASSUME NEW d \in seen' PROVE \E b \in Attempts : Recorded(b, d)' /\ attempts'[b].life = crashes'
  <2>1. CASE d \in seen
    BY <1>1, <1>2, <1>4, <2>1 DEF Traced, Recorded
  <2>2. CASE d \notin seen
    <3>1. d = x.id /\ y.verdict = "new" /\ y.life = crashes
      BY <1>3, <1>5, <2>2
    <3>2. QED
      BY <1>1, <1>2, <3>1 DEF Recorded
  <2>3. QED
    BY <2>1, <2>2
<1>6. ASSUME NEW t \in Tenants, NEW d \in recorded'[t]
      PROVE  \E b \in Attempts : Recorded(b, d)' /\ attempts'[b].tenant = t
  <2>1. CASE d \in recorded[t]
    BY <1>1, <1>4, <2>1 DEF Traced, Recorded
  <2>2. CASE d \notin recorded[t]
    <3>1. t = x.tenant /\ d = x.id /\ y.verdict = "new"
      BY <1>1, <1>3, <1>6, <2>2
    <3>2. QED
      BY <1>1, <3>1 DEF Recorded
  <2>3. QED
    BY <2>1, <2>2
<1>7. ASSUME NEW c \in Attempts, attempts'[c].verdict = "duplicate"
      PROVE  \E b \in Attempts :
               /\ attempts'[b].id = attempts'[c].id /\ attempts'[b].verdict = "new"
               /\ attempts'[b].tenant = attempts'[c].tenant \/ attempts'[b].life = attempts'[c].life
  <2>1. CASE /\ attempts[c].verdict = "duplicate" /\ attempts'[c].life = attempts[c].life
             /\ attempts'[c].id = attempts[c].id /\ attempts'[c].tenant = attempts[c].tenant
    <3>1. PICK b \in Attempts :
            /\ Recorded(b, attempts[c].id)
            /\ attempts[b].tenant = attempts[c].tenant \/ attempts[b].life = attempts[c].life
      BY <1>1, <2>1 DEF Traced, RefusedWasRecorded
    <3>2. QED
      BY <1>4, <2>1, <3>1 DEF Recorded
  <2>2. CASE c = a /\ y.life = crashes /\ (x.id \in seen \/ x.id \in recorded[x.tenant])
    <3>1. PICK b \in Attempts : Recorded(b, x.id) /\ (attempts[b].life = crashes \/ attempts[b].tenant = x.tenant)
      BY <1>1, <2>2 DEF Traced
    <3>2. QED
      BY <1>1, <1>4, <2>2, <3>1 DEF Recorded
  <2>3. QED
    BY <1>1, <1>3, <1>7, <2>1, <2>2 DEF x
<1>8. QED
  BY <1>5, <1>6, <1>7 DEF Traced, RefusedWasRecorded, Recorded

LEMMA StepBooks ==
  ASSUME Types, Bookkeeping, NEW a \in Attempts, OnItsWay(a)
  PROVE  Bookkeeping'
<1>1. PICK y \in AttemptRecords : Moves(a, y) /\ Follows(a, y)
  BY StepMoves
<1> DEFINE x == attempts[a]
<1>2. /\ x \in AttemptRecords /\ attempts'[a] = y
      /\ \A b \in Attempts : b # a => attempts'[b] = attempts[b]
      /\ Locals(x) /\ x.tenant \in Tenants /\ recorded \in [Tenants -> SUBSET Ids]
      /\ y.tenant = x.tenant /\ y.id = x.id
  BY <1>1 DEF Types, TypeOK, Moves, Bookkeeping, Follows, Locals
<1>3. \/ /\ x.pc = "dedup" /\ x.id \notin recorded[x.tenant]
         /\ recorded' = [recorded EXCEPT ![x.tenant] = @ \cup {x.id}]
         /\ seen' = seen \cup {x.id} /\ y.verdict = "new"
      \/ /\ UNCHANGED <<seen, recorded>>
         /\ x.pc # "dedup" => y.verdict = x.verdict
         /\ x.pc = "dedup" => y.verdict = "unchecked" \/ (y.verdict = "duplicate" /\ y.pc = "duplicate")
  BY <1>1, RecordingStep
<1>4. \A t \in Tenants : recorded[t] \subseteq recorded'[t]
  BY <1>2, <1>3
<1>5. y.verdict = "new" => x.id \in recorded'[x.tenant]
  BY <1>2, <1>3 DEF Locals
<1>6. Locals(y)'
  <2>1. CASE x.pc = "dedup"
    BY <1>1, <1>2, <1>3, <1>5, <2>1 DEF Locals, Follows, InProgress
  <2>2. CASE x.pc # "dedup"
    BY <1>1, <1>2, <1>3, <1>5, <2>2 DEF Locals, Follows, InProgress
  <2>3. QED
    BY <2>1, <2>2
<1>7. ASSUME NEW b \in Attempts, b # a PROVE Locals(attempts[b])'
  <2>1. Locals(attempts[b]) /\ attempts'[b] = attempts[b]
    BY <1>2, <1>7 DEF Bookkeeping
  <2>2. QED
    BY <1>4, <2>1 DEF Locals
<1>8. NewOnce'
  <2>1. SUFFICES ASSUME NEW b \in Attempts, b # a, attempts[b].tenant = x.tenant, attempts[b].id = x.id,
                        x.id # NoId, attempts[b].verdict = "new", y.verdict = "new"
                 PROVE  FALSE
    BY <1>2 DEF NewOnce, SameDelivery, Bookkeeping
  <2>2. x.id \in recorded[x.tenant]
    BY <2>1 DEF Bookkeeping, Locals
  <2>3. x.verdict = "new"
    BY <1>3, <2>1, <2>2
  <2>4. QED
    BY <2>1, <2>3 DEF Bookkeeping, NewOnce, SameDelivery
<1>9. Traced'
  BY <1>1, StepTraces
<1>10. QED
  BY <1>2, <1>6, <1>7, <1>8, <1>9 DEF Bookkeeping

LEMMA ArriveBooks ==
  ASSUME Types, Bookkeeping, NEW a \in Attempts, NEW kind \in {"event", "slack"}, NEW t \in Tenants,
         NEW d \in Ids \cup {NoId}, NEW h \in Threads \cup {"none"}, Arrive(a, kind, t, d, h)
  PROVE  Bookkeeping'
<1>0. TypeOK
  BY DEF Types
<1>1. PICK y \in AttemptRecords :
        /\ Moves(a, y) /\ y.pc = (IF d = NoId THEN "route" ELSE "dedup") /\ y.kind = kind
        /\ y.tenant = t /\ y.id = d /\ y.thread = h /\ Untouched(y)
  BY <1>0, ArriveMoves
<1>2. /\ attempts'[a] = y /\ UNCHANGED <<seen, recorded>>
      /\ \A b \in Attempts : b # a => attempts'[b] = attempts[b]
  BY <1>1 DEF Arrive, Types, TypeOK, Moves
<1>3. Locals(y)
  BY <1>1 DEF Locals, InProgress, Untouched
<1>4. Traced'
  <2>1. Traced /\ attempts[a].verdict = "none" /\ attempts[a].pc = "new"
    BY DEF Bookkeeping, Locals, Arrive, At
  <2>2. UNCHANGED crashes /\ y.verdict = "none"
    BY <1>1 DEF Arrive, Untouched
  <2>3. \A b \in Attempts : b # a => attempts'[b] = attempts[b]
    BY <1>2
  <2>4. QED
    BY <1>2, <2>1, <2>2, <2>3 DEF Traced, Recorded, RefusedWasRecorded
<1>5. QED
  BY <1>1, <1>2, <1>3, <1>4 DEF Bookkeeping, Locals, NewOnce, SameDelivery

LEMMA BooksInvariant == Spec => []Bookkeeping
<1>1. Init => Bookkeeping
  BY DEF Init, Bookkeeping, Locals, NewOnce, Traced, RefusedWasRecorded, NewAttempt, InProgress
<1>2. Types /\ Bookkeeping /\ [Next]_vars => Bookkeeping'
  <2> SUFFICES ASSUME Types, Bookkeeping, [Next]_vars PROVE Bookkeeping'
    OBVIOUS
  <2>1. ASSUME NEW a \in Attempts, Step(a) PROVE Bookkeeping'
    <3>1. CASE EventArrives(a)
      BY <3>1, ArriveBooks DEF EventArrives
    <3>2. CASE SlackArrives(a)
      <4>1. PICK h \in Threads, d \in Ids : Arrive(a, "slack", ThreadTenant[h], d, h)
        BY <3>2 DEF SlackArrives, DispatchEvent
      <4>2. ThreadTenant[h] \in Tenants
        BY OwnersAssumption
      <4>3. QED
        BY <4>1, <4>2, ArriveBooks
    <3>3. CASE OnItsWay(a)
      BY <3>3, StepBooks
    <3>4. QED
      BY <2>1, <3>1, <3>2, <3>3 DEF Step, OnItsWay
  <2>2. CASE \E s \in Subs : Admin(s)
    BY <2>2 DEF Admin, CreateSub, EnableSub, DisableSub, DeleteSub, SetSub, Bookkeeping, Locals, NewOnce,
       SameDelivery, Traced, Recorded, RefusedWasRecorded
  <2>3. CASE Restart
    <3>1. /\ recorded' = recorded /\ seen' = {}
          /\ \A a \in Attempts : attempts'[a] = attempts[a]
               \/ (attempts[a].pc # "new" /\ attempts'[a] = [attempts[a] EXCEPT !.pc = "lost"])
      BY <2>3 DEF Restart, Ended
    <3>2. ASSUME NEW a \in Attempts PROVE Locals(attempts[a])'
      <4>1. Locals(attempts[a]) /\ attempts[a] \in AttemptRecords
        BY DEF Bookkeeping, Types, TypeOK
      <4>2. CASE attempts'[a] = attempts[a]
        BY <3>1, <4>1, <4>2 DEF Locals
      <4>3. CASE attempts[a].pc # "new" /\ attempts'[a] = [attempts[a] EXCEPT !.pc = "lost"]
        BY <3>1, <4>1, <4>3 DEF Locals, InProgress, AttemptRecords
      <4>4. QED
        BY <3>1, <4>2, <4>3
    <3>3. \A a \in Attempts : /\ attempts'[a].tenant = attempts[a].tenant /\ attempts'[a].id = attempts[a].id
                              /\ attempts'[a].verdict = attempts[a].verdict
                              /\ attempts'[a].life = attempts[a].life
      <4> TAKE a \in Attempts
      <4>1. attempts[a] \in AttemptRecords
        BY DEF Types, TypeOK
      <4>2. QED
        BY <3>1, <4>1 DEF AttemptRecords
    <3>4. NewOnce' /\ Traced'
      BY <3>1, <3>3 DEF Bookkeeping, NewOnce, SameDelivery, Traced, Recorded, RefusedWasRecorded
    <3>5. QED
      BY <3>2, <3>4 DEF Bookkeeping
  <2>4. CASE UNCHANGED vars
    BY <2>4 DEF vars, Bookkeeping, Locals, NewOnce, SameDelivery, Traced, Recorded, RefusedWasRecorded
  <2>5. QED
    BY <2>1, <2>2, <2>3, <2>4 DEF Next
<1>3. QED
  BY <1>1, <1>2, TypesInvariant, PTL DEF Spec

(***************************************************************************)
(* Threads.                                                                *)
(***************************************************************************)
\* Steps that neither look for a conversation in vain nor insert one.
Elsewhere(a) ==
  \/ Record(a) \/ Duplicate(a) \/ CheckFails(a)
  \/ ListSubs(a) \/ RouteFails(a) \/ Accept(a)
  \/ \E s \in Subs : SkipSub(a, s) \/ StartSub(a, s)
  \/ ConcludeSub(a) \/ SubFails(a)
  \/ LoadAgent(a) \/ FindConversation(a)
  \/ Credentials(a) \/ Answered(a) \/ SlackFails(a)

LEMMA QuietStep ==
  ASSUME Types, ThreadInv, UNCHANGED <<conversations, clock>>,
         \A a \in Attempts : \/ attempts'[a] = attempts[a]
                             \/ attempts'[a].pc # "create"
  PROVE  ThreadInv'
<1>1. Stamps'
  BY DEF ThreadInv, Stamps, At, OfThread
<1>2. SplitsOnlyByRaces'
  BY DEF ThreadInv, SplitsOnlyByRaces
<1>3. QED
  BY <1>1, <1>2 DEF ThreadInv

LEMMA ElsewhereIsQuiet ==
  ASSUME Types, NEW a \in Attempts, Elsewhere(a)
  PROVE  /\ UNCHANGED <<conversations, clock>>
         /\ \A b \in Attempts : attempts'[b] = attempts[b] \/ attempts'[b].pc # "create"
<1>1. attempts \in [Attempts -> AttemptRecords] /\ attempts[a] \in AttemptRecords
  BY DEF Types, TypeOK
<1>2. CASE Record(a) \/ Duplicate(a) \/ CheckFails(a)
  BY <1>1, <1>2 DEF Record, Duplicate, CheckFails, Passed, store, AttemptRecords
<1>3. CASE ListSubs(a)
  BY <1>1, <1>3 DEF ListSubs, store, AttemptRecords
<1>4. CASE \E s \in Subs : SkipSub(a, s) \/ StartSub(a, s)
  BY <1>1, <1>4 DEF SkipSub, StartSub, At, store, AttemptRecords
<1>5. CASE RouteFails(a) \/ Accept(a) \/ ConcludeSub(a) \/ SubFails(a) \/ LoadAgent(a)
        \/ Answered(a) \/ SlackFails(a)
  BY <1>1, <1>5 DEF RouteFails, Accept, ConcludeSub, SubFails, LoadAgent, Answered, SlackFails, Goto, store,
     AttemptRecords
<1>6. CASE FindConversation(a) \/ Credentials(a)
  BY <1>1, <1>6 DEF FindConversation, Credentials, Goto, store, AttemptRecords
<1>7. QED
  BY <1>2, <1>3, <1>4, <1>5, <1>6 DEF Elsewhere

LEMMA ThreadStep ==
  ASSUME Types, ThreadInv, NEW a \in Attempts, NoConversation(a) \/ CreateConversation(a)
  PROVE  ThreadInv'
<1>1. /\ attempts \in [Attempts -> AttemptRecords] /\ attempts[a] \in AttemptRecords /\ clock \in Nat
      /\ conversations \subseteq [thread : Threads, stamp : Nat, at : Nat]
  BY DEF Types, TypeOK
<1>2. CASE NoConversation(a)
  <2>1. /\ UNCHANGED conversations /\ clock' = clock + 1 /\ OfThread(a) = {}
        /\ attempts'[a].stamp = clock + 1 /\ attempts'[a].thread = attempts[a].thread
        /\ \A b \in Attempts : b # a => attempts'[b] = attempts[b]
    BY <1>1, <1>2 DEF NoConversation, AttemptRecords
  <2>2. SplitsOnlyByRaces'
    BY <2>1 DEF ThreadInv, SplitsOnlyByRaces
  <2>3. \A c \in conversations : c.stamp \in Nat /\ c.at \in Nat
    BY <1>1
  <2>4. (\A c \in conversations : c.stamp <= clock /\ c.at <= clock)'
    BY <1>1, <2>1, <2>3 DEF ThreadInv, Stamps
  <2>5. ASSUME NEW b \in Attempts, At(b, "create")'
        PROVE  (attempts[b].stamp <= clock /\ \A c \in OfThread(b) : attempts[b].stamp < c.at)'
    <3>1. CASE b = a
      BY <1>1, <2>1, <3>1 DEF OfThread
    <3>2. CASE b # a
      <4>1. attempts'[b] = attempts[b] /\ attempts[b].stamp \in Nat
        BY <2>1, <3>2, <1>1 DEF AttemptRecords
      <4>2. QED
        BY <1>1, <2>1, <2>5, <4>1 DEF ThreadInv, Stamps, At, OfThread
    <3>3. QED
      BY <3>1, <3>2
  <2>6. QED
    BY <2>2, <2>4, <2>5 DEF ThreadInv, Stamps
<1>3. CASE CreateConversation(a)
  <2> DEFINE new == [thread |-> attempts[a].thread, stamp |-> attempts[a].stamp, at |-> clock + 1]
  <2>1. /\ At(a, "create") /\ conversations' = conversations \cup {new} /\ clock' = clock + 1
        /\ attempts'[a].pc = "credentials"
        /\ \A b \in Attempts : b # a => attempts'[b] = attempts[b]
    BY <1>1, <1>3 DEF CreateConversation, Goto, AttemptRecords
  <2>2. /\ new.thread = attempts[a].thread /\ new.stamp = attempts[a].stamp /\ new.at = clock + 1
        /\ new.stamp \in Nat /\ new.stamp <= clock
        /\ \A c \in conversations : c.thread = new.thread => new.stamp < c.at
    BY <1>1, <2>1 DEF ThreadInv, Stamps, OfThread, AttemptRecords
  <2> HIDE DEF new
  <2>3. \A c \in conversations : c.stamp \in Nat /\ c.at \in Nat /\ c.stamp <= clock /\ c.at <= clock
    BY <1>1 DEF ThreadInv, Stamps
  <2>4. SplitsOnlyByRaces'
    <3>1. SUFFICES ASSUME NEW c \in conversations', NEW d \in conversations', c # d, c.thread = d.thread
                   PROVE  c.stamp < d.at /\ d.stamp < c.at
      BY DEF SplitsOnlyByRaces
    <3>2. CASE c \in conversations /\ d \in conversations
      BY <3>1, <3>2 DEF ThreadInv, SplitsOnlyByRaces
    <3>3. CASE c = new \/ d = new
      BY <1>1, <2>1, <2>2, <2>3, <3>1, <3>3
    <3>4. QED
      BY <2>1, <3>2, <3>3
  <2>5. (\A c \in conversations : c.stamp <= clock /\ c.at <= clock)'
    BY <1>1, <2>1, <2>2, <2>3
  <2>6. ASSUME NEW b \in Attempts, At(b, "create")'
        PROVE  (attempts[b].stamp <= clock /\ \A c \in OfThread(b) : attempts[b].stamp < c.at)'
    <3>1. b # a /\ attempts'[b] = attempts[b] /\ At(b, "create") /\ attempts[b].stamp \in Nat
      BY <1>1, <2>1, <2>6 DEF At, AttemptRecords
    <3>2. attempts[b].stamp <= clock /\ \A c \in OfThread(b) : attempts[b].stamp < c.at
      BY <3>1 DEF ThreadInv, Stamps
    <3>3. \A c \in conversations' : c.thread = attempts[b].thread => attempts[b].stamp < c.at
      BY <1>1, <2>1, <2>2, <3>1, <3>2 DEF OfThread
    <3>4. QED
      BY <1>1, <2>1, <3>1, <3>2, <3>3 DEF OfThread
  <2>7. QED
    BY <2>4, <2>5, <2>6 DEF ThreadInv, Stamps
<1>4. QED
  BY <1>2, <1>3

LEMMA ThreadInvariant == Spec => []ThreadInv
<1>1. Init => ThreadInv
  BY DEF Init, ThreadInv, Stamps, SplitsOnlyByRaces, At, NewAttempt
<1>2. Types /\ ThreadInv /\ [Next]_vars => ThreadInv'
  <2> SUFFICES ASSUME Types, ThreadInv, [Next]_vars PROVE ThreadInv'
    OBVIOUS
  <2>1. ASSUME NEW a \in Attempts, Step(a) PROVE ThreadInv'
    <3>1. CASE EventArrives(a) \/ SlackArrives(a)
      <4>1. PICK kind \in {"event", "slack"}, t \in Tenants, d \in Ids \cup {NoId},
                 h \in Threads \cup {"none"} : Arrive(a, kind, t, d, h)
        <5>1. CASE EventArrives(a)
          BY <5>1 DEF EventArrives
        <5>2. CASE SlackArrives(a)
          BY <5>2, OwnersAssumption DEF SlackArrives, DispatchEvent
        <5>3. QED
          BY <3>1, <5>1, <5>2
      <4>2. TypeOK
        BY DEF Types
      <4>3. PICK y \in AttemptRecords : Moves(a, y) /\ y.pc = (IF d = NoId THEN "route" ELSE "dedup")
        BY <4>1, <4>2, ArriveMoves
      <4>4. /\ UNCHANGED <<conversations, clock>>
            /\ \A b \in Attempts : attempts'[b] = attempts[b] \/ attempts'[b].pc # "create"
        BY <4>1, <4>2, <4>3 DEF Arrive, store, Moves, TypeOK
      <4>5. QED
        BY <4>4, QuietStep
    <3>2. CASE Elsewhere(a)
      BY <3>2, ElsewhereIsQuiet, QuietStep
    <3>3. CASE NoConversation(a) \/ CreateConversation(a)
      BY <3>3, ThreadStep
    <3>4. QED
      BY <2>1, <3>1, <3>2, <3>3 DEF Step, Elsewhere
  <2>2. CASE \E s \in Subs : Admin(s)
    <3>1. UNCHANGED <<conversations, clock, attempts>>
      BY <2>2 DEF Admin, CreateSub, EnableSub, DisableSub, DeleteSub, SetSub
    <3>2. QED
      BY <3>1, QuietStep
  <2>3. CASE Restart
    <3>1. /\ UNCHANGED <<conversations, clock>>
          /\ \A a \in Attempts : attempts'[a] = attempts[a]
                                 \/ attempts'[a] = [attempts[a] EXCEPT !.pc = "lost"]
      BY <2>3 DEF Restart, store
    <3>2. \A a \in Attempts : attempts'[a] = attempts[a] \/ attempts'[a].pc # "create"
      <4> TAKE a \in Attempts
      <4>1. attempts[a] \in AttemptRecords
        BY DEF Types, TypeOK
      <4>2. QED
        BY <3>1, <4>1 DEF AttemptRecords
    <3>3. QED
      BY <3>1, <3>2, QuietStep
  <2>4. CASE UNCHANGED vars
    BY <2>4, QuietStep DEF vars
  <2>5. QED
    BY <2>1, <2>2, <2>3, <2>4 DEF Next
<1>3. QED
  BY <1>1, <1>2, TypesInvariant, PTL DEF Spec

(***************************************************************************)
(* Subscriptions.                                                          *)
(***************************************************************************)
LEMMA MoveRoutes ==
  ASSUME Types, Routing, NEW a \in Attempts, NEW y, Moves(a, y), Tried(y)
  PROVE  Routing'
<1>1. attempts'[a] = y /\ \A b \in Attempts : b # a => attempts'[b] = attempts[b]
  BY DEF Types, TypeOK, Moves
<1>2. QED
  BY <1>1 DEF Routing, Tried

LEMMA StepRoutes == ASSUME Types, Routing, NEW a \in Attempts, OnItsWay(a) PROVE Routing'
<1>1. attempts \in [Attempts -> AttemptRecords] /\ attempts[a] \in AttemptRecords /\ Tried(attempts[a])
  BY DEF Types, TypeOK, Routing
<1> DEFINE x == attempts[a]
<1>2. ASSUME NEW l, Goto(a, l), l \in {"error", "accepted", "subs", "find", "done", "credentials", "reply"},
             l = "subs" => x.pc = "running", l = "accepted" => x.pc = "subs" /\ x.todo = {}
      PROVE  Routing'
  <2> DEFINE y == [x EXCEPT !.pc = l]
  <2>1. Moves(a, y)
    BY <1>1, <1>2 DEF Goto, Moves
  <2>2. /\ y.pc = l /\ y.ran = x.ran /\ y.skipped = x.skipped /\ y.todo = x.todo /\ y.listed = x.listed
    BY <1>1 DEF AttemptRecords
  <2> HIDE DEF y
  <2>3. Tried(y)
    BY <1>1, <1>2, <2>2 DEF Tried
  <2>4. QED
    BY <2>1, <2>3, MoveRoutes
<1>3. CASE RouteFails(a) \/ Accept(a) \/ ConcludeSub(a) \/ SubFails(a) \/ LoadAgent(a)
        \/ CreateConversation(a) \/ Answered(a) \/ SlackFails(a)
  <2>1. \E l \in {"error", "accepted", "subs", "find", "done", "credentials", "reply"} :
          /\ Goto(a, l) /\ (l = "subs" => x.pc = "running")
          /\ l = "accepted" => x.pc = "subs" /\ x.todo = {}
    BY <1>3 DEF RouteFails, Accept, ConcludeSub, SubFails, LoadAgent, CreateConversation, Answered,
       SlackFails, At
  <2>2. QED
    BY <2>1, <1>2
<1>4. CASE Record(a) \/ Duplicate(a) \/ CheckFails(a)
  <2>1. PICK l \in {"route", "agent", "done", "duplicate"}, v \in {"new", "duplicate", "unchecked"} :
          attempts' = [attempts EXCEPT ![a].pc = l, ![a].verdict = v] /\ x.pc = "dedup"
    BY <1>4 DEF Record, Duplicate, CheckFails, Passed, At
  <2> DEFINE y == [x EXCEPT !.pc = l, !.verdict = v]
  <2>2. Moves(a, y)
    BY <1>1, <2>1 DEF Moves
  <2>3. y.pc = l /\ y.ran = x.ran /\ y.skipped = x.skipped
    BY <1>1 DEF AttemptRecords
  <2> HIDE DEF y
  <2>4. Tried(y)
    BY <1>1, <2>1, <2>3 DEF Tried
  <2>5. QED
    BY <2>2, <2>4, MoveRoutes
<1>5. CASE ListSubs(a)
  <2> DEFINE active == {s \in Subs : SubTenant[s] = attempts[a].tenant /\ subs[s] = "active"}
             y == [x EXCEPT !.pc = "subs", !.listed = active, !.todo = active]
  <2>1. Moves(a, y) /\ x.pc = "route"
    BY <1>1, <1>5 DEF ListSubs, Moves, At
  <2> HIDE DEF active
  <2>2. y.pc = "subs" /\ y.listed = active /\ y.todo = active /\ y.ran = x.ran /\ y.skipped = x.skipped
    BY <1>1 DEF AttemptRecords
  <2> HIDE DEF y
  <2>3. Tried(y)
    BY <1>1, <2>1, <2>2 DEF Tried
  <2>4. QED
    BY <2>1, <2>3, MoveRoutes
<1>6. ASSUME NEW s \in Subs, SkipSub(a, s) PROVE Routing'
  <2> DEFINE y == [x EXCEPT !.todo = @ \ {s}, !.skipped = @ \cup {s}]
  <2>1. Moves(a, y) /\ x.pc = "subs" /\ s \in x.todo
    BY <1>1, <1>6 DEF SkipSub, Moves, At
  <2>2. /\ y.pc = x.pc /\ y.listed = x.listed /\ y.ran = x.ran
        /\ y.todo = x.todo \ {s} /\ y.skipped = x.skipped \cup {s}
    BY <1>1 DEF AttemptRecords
  <2> HIDE DEF y
  <2>3. Tried(y)
    BY <1>1, <2>1, <2>2 DEF Tried
  <2>4. QED
    BY <2>1, <2>3, MoveRoutes
<1>7. ASSUME NEW s \in Subs, StartSub(a, s) PROVE Routing'
  <2> DEFINE y == [x EXCEPT !.pc = "running", !.todo = @ \ {s}, !.ran = @ \cup {s}]
  <2>1. Moves(a, y) /\ x.pc = "subs" /\ s \in x.todo
    BY <1>1, <1>7 DEF StartSub, Moves, At
  <2>2. /\ y.pc = "running" /\ y.listed = x.listed /\ y.skipped = x.skipped
        /\ y.todo = x.todo \ {s} /\ y.ran = x.ran \cup {s}
    BY <1>1 DEF AttemptRecords
  <2> HIDE DEF y
  <2>3. Tried(y)
    BY <1>1, <2>1, <2>2 DEF Tried
  <2>4. QED
    BY <2>1, <2>3, MoveRoutes
<1>8. CASE FindConversation(a) \/ NoConversation(a)
  <2>1. PICK l \in {"credentials", "create"} :
          \E n : attempts' = [attempts EXCEPT ![a].pc = l, ![a].stamp = n]
    BY <1>8 DEF FindConversation, NoConversation
  <2>2. PICK n : attempts' = [attempts EXCEPT ![a].pc = l, ![a].stamp = n]
    BY <2>1
  <2> DEFINE y == [x EXCEPT !.pc = l, !.stamp = n]
  <2>3. Moves(a, y)
    BY <1>1, <2>2 DEF Moves
  <2>4. Tried(y)
    BY <1>1, <2>1 DEF AttemptRecords, Tried
  <2>5. QED
    BY <2>3, <2>4, MoveRoutes
<1>9. CASE Credentials(a)
  <2>1. CASE Goto(a, "done")
    BY <1>2, <2>1
  <2>2. CASE attempts' = [attempts EXCEPT ![a].pc = "loop", ![a].ran = {attempts[a].thread}]
    <3> DEFINE y == [x EXCEPT !.pc = "loop", !.ran = {x.thread}]
    <3>1. Moves(a, y)
      BY <1>1, <2>2 DEF Moves
    <3>2. Tried(y)
      BY <1>1 DEF AttemptRecords, Tried
    <3>3. QED
      BY <3>1, <3>2, MoveRoutes
  <2>3. QED
    BY <1>9, <2>1, <2>2 DEF Credentials
<1>10. QED
  BY <1>3, <1>4, <1>5, <1>6, <1>7, <1>8, <1>9 DEF OnItsWay

\* A run that is over without a failure has concluded its conversation; nothing but
\* the run itself, a failure of it or a restart ends it.
LEMMA StepConcludes ==
  ASSUME Types, NothingLeftOpen, NEW a \in Attempts, OnItsWay(a)
  PROVE  NothingLeftOpen'
<1>1. attempts \in [Attempts -> AttemptRecords] /\ open \subseteq Attempts \X Subs
      /\ faults \in Nat /\ crashes \in Nat
  BY DEF Types, TypeOK
<1>2. SUFFICES ASSUME faults' = 0, crashes' = 0, NEW o \in open' PROVE At(o[1], "running")'
  BY DEF NothingLeftOpen
<1>3. PICK y \in AttemptRecords : Moves(a, y) /\ Follows(a, y)
  BY StepMoves
<1>4. attempts'[a] = y /\ \A b \in Attempts : b # a => attempts'[b] = attempts[b]
  BY <1>1, <1>3 DEF Moves
<1>5. crashes = 0
  BY <1>2 DEF OnItsWay, Record, Duplicate, CheckFails, ListSubs, RouteFails, Accept, SkipSub, StartSub,
     ConcludeSub, SubFails, LoadAgent, FindConversation, NoConversation, CreateConversation,
     Credentials, Answered, SlackFails, store
<1>6. CASE \E s \in Subs : StartSub(a, s)
  <2>1. PICK s \in Subs : StartSub(a, s)
    BY <1>6
  <2>2. /\ open' = open \cup {<<a, s>>} /\ faults = 0
        /\ attempts' = [attempts EXCEPT ![a].pc = "running", ![a].todo = @ \ {s}, ![a].ran = @ \cup {s}]
    BY <1>2, <2>1 DEF StartSub
  <2>3. attempts'[a].pc = "running"
    BY <1>1, <2>2 DEF AttemptRecords
  <2>4. o[1] = a \/ (o \in open /\ o[1] \in Attempts)
    BY <1>1, <2>2
  <2>5. QED
    BY <1>2, <1>4, <1>5, <2>2, <2>3, <2>4 DEF NothingLeftOpen, At
<1>7. CASE ConcludeSub(a)
  <2>1. open' = open \ OpenOf(a) /\ faults = 0
    BY <1>2, <1>7 DEF ConcludeSub
  <2>2. o \in open /\ o[1] # a /\ o[1] \in Attempts
    BY <1>1, <1>2, <2>1 DEF OpenOf
  <2>3. QED
    BY <1>4, <1>5, <2>1, <2>2 DEF NothingLeftOpen, At
<1>8. CASE ~ConcludeSub(a) /\ \A s \in Subs : ~StartSub(a, s)
  <2>1. open' = open /\ faults = 0 /\ ~At(a, "running")
    <3>1. faults' = faults + 1 => FALSE
      BY <1>1, <1>2
    <3>2. CASE Record(a) \/ Duplicate(a) \/ ListSubs(a) \/ Accept(a) \/ \E s \in Subs : SkipSub(a, s)
      BY <1>2, <3>2 DEF Record, Duplicate, ListSubs, Accept, SkipSub, store, At
    <3>3. CASE LoadAgent(a) \/ FindConversation(a) \/ NoConversation(a) \/ CreateConversation(a)
            \/ Credentials(a) \/ Answered(a)
      BY <1>2, <3>3 DEF LoadAgent, FindConversation, NoConversation, CreateConversation, Credentials,
         Answered, store, At
    <3>4. CASE CheckFails(a) \/ RouteFails(a) \/ SubFails(a) \/ SlackFails(a)
      BY <3>1, <3>4 DEF CheckFails, RouteFails, SubFails, SlackFails
    <3>5. QED
      BY <1>8, <3>2, <3>3, <3>4 DEF OnItsWay
  <2>2. o \in open /\ o[1] \in Attempts /\ At(o[1], "running")
    BY <1>1, <1>2, <1>5, <2>1 DEF NothingLeftOpen
  <2>3. QED
    BY <1>4, <2>1, <2>2 DEF At
<1>9. QED
  BY <1>6, <1>7, <1>8

LEMMA RoutingInvariant == Spec => [](Routing /\ NothingLeftOpen)
<1>1. Init => Routing /\ NothingLeftOpen
  BY DEF Init, Routing, Tried, NothingLeftOpen, NewAttempt
<1>2. Types /\ Routing /\ NothingLeftOpen /\ [Next]_vars => Routing' /\ NothingLeftOpen'
  <2> SUFFICES ASSUME Types, Routing, NothingLeftOpen, [Next]_vars PROVE Routing' /\ NothingLeftOpen'
    OBVIOUS
  <2>0. attempts \in [Attempts -> AttemptRecords] /\ open \subseteq Attempts \X Subs /\ crashes \in Nat
    BY DEF Types, TypeOK
  <2>1. ASSUME NEW a \in Attempts, Step(a) PROVE Routing' /\ NothingLeftOpen'
    <3>1. CASE EventArrives(a) \/ SlackArrives(a)
      <4>1. PICK kind \in {"event", "slack"}, t \in Tenants, d \in Ids \cup {NoId},
                 h \in Threads \cup {"none"} : Arrive(a, kind, t, d, h)
        <5>1. CASE EventArrives(a)
          BY <5>1 DEF EventArrives
        <5>2. CASE SlackArrives(a)
          BY <5>2, OwnersAssumption DEF SlackArrives, DispatchEvent
        <5>3. QED
          BY <3>1, <5>1, <5>2
      <4> DEFINE l == IF d = NoId THEN "route" ELSE "dedup"
                 y == [NewAttempt EXCEPT !.pc = l, !.kind = kind, !.tenant = t, !.id = d, !.thread = h]
      <4>2. /\ Moves(a, y) /\ At(a, "new") /\ UNCHANGED <<open, faults, crashes>>
            /\ y.pc \in {"route", "dedup"} /\ y.ran = {} /\ y.skipped = {}
        BY <4>1 DEF Arrive, Moves, NewAttempt, store
      <4> HIDE DEF y
      <4>3. Tried(y)
        BY <4>2 DEF Tried
      <4>4. \A b \in Attempts : b # a => attempts'[b] = attempts[b]
        BY <2>0, <4>2 DEF Moves
      <4>5. NothingLeftOpen'
        BY <2>0, <4>2, <4>4 DEF NothingLeftOpen, At
      <4>6. QED
        BY <4>2, <4>3, <4>5, MoveRoutes
    <3>2. CASE OnItsWay(a)
      BY <3>2, StepRoutes, StepConcludes
    <3>3. QED
      BY <2>1, <3>1, <3>2 DEF Step, OnItsWay
  <2>2. CASE \E s \in Subs : Admin(s)
    <3>1. UNCHANGED <<attempts, open, faults, crashes>>
      BY <2>2 DEF Admin, CreateSub, EnableSub, DisableSub, DeleteSub, SetSub
    <3>2. QED
      BY <3>1 DEF Routing, Tried, NothingLeftOpen, At
  <2>3. CASE Restart
    <3>1. crashes' # 0
      BY <2>0, <2>3 DEF Restart
    <3>2. ASSUME NEW a \in Attempts PROVE Tried(attempts[a])'
      <4>1. Tried(attempts[a]) /\ attempts[a] \in AttemptRecords
        BY <2>0 DEF Routing
      <4>2. \/ attempts'[a] = attempts[a]
            \/ attempts'[a] = [attempts[a] EXCEPT !.pc = "lost"]
        BY <2>3 DEF Restart
      <4>3. CASE attempts'[a] = [attempts[a] EXCEPT !.pc = "lost"]
        BY <4>1, <4>3 DEF Tried, AttemptRecords
      <4>4. QED
        BY <4>1, <4>2, <4>3 DEF Tried
    <3>3. QED
      BY <3>1, <3>2 DEF Routing, NothingLeftOpen
  <2>4. CASE UNCHANGED vars
    BY <2>4 DEF vars, Routing, Tried, NothingLeftOpen, At
  <2>5. QED
    BY <2>1, <2>2, <2>3, <2>4 DEF Next
<1>3. QED
  BY <1>1, <1>2, TypesInvariant, PTL DEF Spec

(***************************************************************************)
(* Theorems.                                                               *)
(***************************************************************************)
\* The types of the tables, the map and the attempts' locals.
THEOREM DeliveryTypes == Spec => []TypeOK
<1>1. Types => TypeOK
  BY DEF Types
<1>2. QED
  BY <1>1, TypesInvariant, PTL

\* A delivery that dedup.rs has let through is not let through again, however often it
\* is sent, at once or later, and across restarts, which empty the map in memory.
THEOREM DeliveredAtMostOnce == Spec => []AtMostOnce
<1>1. Types /\ Bookkeeping => AtMostOnce
  <2> SUFFICES ASSUME Types, Bookkeeping, NEW a \in Attempts, NEW b \in Attempts, a # b, SameDelivery(a, b),
                      attempts[a].ran # {}, attempts[b].ran # {}
               PROVE  "unchecked" \in {attempts[a].verdict, attempts[b].verdict}
    BY DEF AtMostOnce
  <2>1. attempts[a].verdict \in {"new", "unchecked"} /\ attempts[b].verdict \in {"new", "unchecked"}
    BY DEF Bookkeeping, Locals, SameDelivery
  <2>2. ~(attempts[a].verdict = "new" /\ attempts[b].verdict = "new")
    BY DEF Bookkeeping, NewOnce
  <2>3. QED
    BY <2>1, <2>2
<1>2. QED
  BY <1>1, TypesInvariant, BooksInvariant, PTL

\* check_and_record refuses only ids it has recorded: in the table of the attempt's
\* tenant, or, for any tenant, in the map since the last restart.  The map is written
\* after the row, so a failed INSERT keeps no retry out.
THEOREM OnlyRecordedAreRefused == Spec => []RefusedWasRecorded
<1>1. Bookkeeping => RefusedWasRecorded
  BY DEF Bookkeeping, Traced
<1>2. QED
  BY <1>1, BooksInvariant, PTL

\* dispatch_event gives a thread a second conversation only when it looked for one
\* before any was inserted: once a thread has a conversation, later messages find it.
THEOREM ThreadsSplitOnlyByRaces == Spec => []SplitsOnlyByRaces
<1>1. ThreadInv => SplitsOnlyByRaces
  BY DEF ThreadInv
<1>2. QED
  BY <1>1, ThreadInvariant, PTL
\* route_event tries every subscription it has listed before the event is accepted: one
\* that does not match, fails or comes after a failure does not keep it from the others.
THEOREM EverySubscriptionIsTried == Spec => []AcceptedMeansTried
<1>1. Routing => AcceptedMeansTried
  BY DEF Routing, Tried, AcceptedMeansTried, At
<1>2. QED
  BY <1>1, RoutingInvariant, PTL

\* run_subscription concludes the conversation it opened; only an error of the run or
\* the end of the process leaves it active.
THEOREM RunsConclude == Spec => []NothingLeftOpen
  BY RoutingInvariant, PTL
=============================================================================
