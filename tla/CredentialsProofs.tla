-------------------------- MODULE CredentialsProofs --------------------------
(***************************************************************************)
(* Theorems of Credentials, for any number of requests, agents and tools,  *)
(* however the requests overlap and wherever they stop.                    *)
(*                                                                         *)
(* The argument: a value, and the id of a row, is named by the request     *)
(* that wrote it, which writes once.  So a row is found by its value as    *)
(* well as by its id, a value that was replaced is in no row from then on, *)
(* and a row that is gone was deleted by somebody who was not done when    *)
(* the request that relied on it came.                                     *)
(***************************************************************************)
EXTENDS Credentials, TLAPS

Ops == {"none", "set", "rotate", "delete", "ask", "callback", "create", "update", "remove", "use"}
Labels ==
  {"new", "found", "cleaned", "granted", "looked", "stored", "completed", "resolved", "loaded",
   "read", "done"}

\* The row numbers are in T: what Max makes of them matters to nothing here.
EntryRecords(T) ==
  [id : Requests, row : T, name : Names, agent : Agents \cup {None}, value : Requests]
CapabilityRecords == [id : Requests, agent : Agents, name : Tools, uses : Names]
AskRecords ==
  [id : Requests, provider : {"slack", "oauth"}, by : Requests \cup {None}, expired : BOOLEAN]
RequestRecords ==
  [pc : Labels, op : Ops, ok : BOOLEAN, agent : Agents \cup {None},
   name : Names \cup Tools \cup {"none"}, kind : Kinds \cup {"delegated_user_token", "none"},
   ask : Nat, row : Nat, seen : Nat, before : SUBSET Requests]

TablesOK ==
  /\ \E T : entries \subseteq EntryRecords(T)
  /\ capabilities \subseteq CapabilityRecords
  /\ asks \subseteq AskRecords
  /\ waiting \subseteq Requests

\* What the program counter says of the other locals of a request.
Placed(x) ==
  /\ x.pc = "new" => x.op = "none"
  /\ x.ok => x.pc = "done"
  /\ x.pc = "found" => x.op \in {"rotate", "delete"}
  /\ x.pc = "cleaned" => x.op = "ask"
  /\ x.pc \in {"granted", "looked", "stored", "completed"} =>
       x.op = "callback" /\ x.name \in Names /\ x.ask # 0
  /\ x.op = "callback" /\ x.row = 0 /\ x.pc \in {"granted", "looked"} => x.seen = 0
  /\ x.pc = "granted" => x.row = 0
  /\ x.pc = "resolved" => x.op \in {"update", "remove"}
  /\ x.pc \in {"loaded", "read"} => x.op = "use"
  /\ x.pc = "loaded" => x.seen = 0 /\ x.name \in Names

TypeOK == TablesOK /\ requests \in [Requests -> RequestRecords]
Placements == \A r \in Requests : Placed(requests[r])
Typed == TypeOK /\ Placements

(***************************************************************************)
(* The invariant.                                                          *)
(***************************************************************************)
Op(op) == {r \in Requests : requests[r].op = op}

\* What a request saw as over when it came is over.
Past == \A r \in Requests : requests[r].before \subseteq Done

\* Requests that may have written.
Wrote ==
  {r \in Requests : \/ requests[r].pc = "done"
                    \/ requests[r].op = "callback" /\ requests[r].pc \in {"stored", "completed"}}

\* Somebody deleted a credential of that name who is not among those of before.
Deleted(name, before) == \E d \in Accepted("delete") : requests[d].name = name /\ d \notin before

RowsNamed ==
  /\ \A e \in entries : e.id \in Wrote /\ e.value \in Wrote
  /\ \A e, f \in entries : e.id = f.id \/ e.value = f.value => e = f
SeenWritten == \A r \in Requests : requests[r].seen # 0 => requests[r].seen \in Wrote

\* A request that holds a row: its id, and the value it had.
Holding(x) == x.pc = "found" \/ (x.pc = "looked" /\ x.row # 0)
Held(x) ==
  /\ x.row \in Wrote /\ x.seen # 0
  /\ \A e \in entries :
       /\ e.value = x.seen => e.id = x.row
       /\ e.id = x.row => e.name = x.name /\ e.agent = None
  /\ x.pc = "looked" => (\E e \in entries : e.id = x.row) \/ Deleted(x.name, x.before)
Holds == \A r \in Requests : Holding(requests[r]) => Held(requests[r])

\* Those who have replaced a value, or deleted it.
Replacing(x) ==
  \/ x.op \in {"rotate", "delete", "callback"} /\ x.ok
  \/ x.op = "callback" /\ x.pc \in {"stored", "completed"}
Replaced ==
  \A q \in Requests : Replacing(requests[q]) /\ requests[q].seen # 0 =>
    \A e \in entries : e.value # requests[q].seen

EntryInv == RowsNamed /\ SeenWritten /\ Holds /\ Replaced /\ RetiredStaysRetired

AsksNamed ==
  /\ \A x \in asks : x.id \in Accepted("ask") /\ (x.by # None => requests[x.by].pc # "new")
  /\ \A x, z \in asks : x.id = z.id => x = z
Answering ==
  \A r \in Op("callback") : requests[r].ask # 0 =>
    /\ requests[r].ask \in Accepted("ask")
    /\ requests[r].pc = "completed" \/ requests[r].ok =>
         \A x \in asks : x.id = requests[r].ask => x.by # None
AcceptedAsked == \A q \in Accepted("callback") : requests[q].ask # 0
OneAnswer ==
  \A r \in Op("callback"), q \in Accepted("callback") :
    q # r /\ requests[q].ask = requests[r].ask => q \notin requests[r].before
StoredStays ==
  \A r \in Requests : requests[r].pc = "stored" =>
    Level(requests[r].name, None) # {} \/ Deleted(requests[r].name, requests[r].before)

AskInv == AsksNamed /\ Answering /\ AcceptedAsked /\ OneAnswer /\ StoredStays /\ CompletedMeansStored

IInv == Typed /\ Past /\ EntryInv /\ AskInv

(***************************************************************************)
(* A request takes a step: its locals become y, those of the others stay.  *)
(***************************************************************************)
Moves(r, y) ==
  /\ requests[r].pc # "done" /\ y \in RequestRecords /\ Placed(y)
  /\ requests'[r] = y /\ \A q \in Requests \ {r} : requests'[q] = requests[q]
  /\ requests' \in [Requests -> RequestRecords] /\ Placements'

LEMMA MovesTyped ==
  ASSUME Typed, NEW r \in Requests, NEW y \in RequestRecords, Placed(y), requests[r].pc # "done",
         requests' = [requests EXCEPT ![r] = y]
  PROVE  Moves(r, y)
BY DEF Typed, TypeOK, Placements, Moves

LEMMA NewReqTyped == NewReq \in RequestRecords /\ Placed(NewReq)
<1>1. NewReq \in RequestRecords
  BY DEF NewReq, RequestRecords, Labels, Ops
<1>2. Placed(NewReq)
  BY DEF NewReq, Placed
<1>3. QED
  BY <1>1, <1>2

LEMMA InitIInv == Init => IInv
<1> SUFFICES ASSUME Init PROVE IInv
  OBVIOUS
<1>1. requests \in [Requests -> RequestRecords] /\ \A r \in Requests : requests[r] = NewReq
  BY NewReqTyped DEF Init
<1>2. Typed
  BY <1>1, NewReqTyped DEF Init, Typed, TypeOK, TablesOK, Placements
<1>3. \A r \in Requests : requests[r].pc = "new" /\ requests[r].op = "none"
      /\ requests[r].before = {} /\ requests[r].seen = 0 /\ ~requests[r].ok
  BY <1>1 DEF NewReq
<1>4. /\ Op("callback") = {} /\ Op("use") = {} /\ Done = {}
      /\ \A op : Accepted(op) = {}
  BY <1>3 DEF Op, Accepted, Done
<1>5. \A r \in Requests : ~Holding(requests[r]) /\ ~Replacing(requests[r])
  BY <1>3 DEF Holding, Replacing
<1>6. EntryInv
  BY <1>3, <1>4, <1>5 DEF Init, EntryInv, RowsNamed, SeenWritten, Holds, Replaced, RetiredStaysRetired
<1>7. AskInv
  BY <1>3, <1>4 DEF Init, AskInv, AsksNamed, Answering, AcceptedAsked, OneAnswer, StoredStays,
     CompletedMeansStored
<1>8. Past
  BY <1>3 DEF Past
<1>9. QED
  BY <1>2, <1>6, <1>7, <1>8 DEF IInv

\* The locals y with which r has come, those of x and what Begin adds.
Came(r, y, op, x) ==
  /\ Moves(r, y) /\ requests[r].pc = "new" /\ y.op = op /\ y.before \subseteq Done
  /\ y.pc = x.pc /\ y.ok = x.ok /\ y.name = x.name /\ y.ask = x.ask /\ y.row = x.row /\ y.seen = x.seen

LEMMA BeginCame ==
  ASSUME Typed, NEW r \in Requests, NEW op \in Ops \ {"none"}, NEW x \in RequestRecords, Begin(r, op, x),
         Placed([x EXCEPT !.op = op])
  PROVE  \E y : Came(r, y, op, x)
<1> DEFINE y == [x EXCEPT !.op = op, !.before = OverAt(op)]
<1>1. Done \subseteq Requests
  BY DEF Done
<1>0. OverAt(op) \in SUBSET Requests /\ OverAt(op) \subseteq Done
  BY <1>1 DEF OverAt
<1>2. y \in RequestRecords
  BY <1>0 DEF RequestRecords
<1>3. Placed(y)
  BY DEF Placed, RequestRecords
<1>4. requests[r].pc = "new" /\ requests' = [requests EXCEPT ![r] = y]
  BY DEF Begin, Fresh
<1>5. /\ y.op = op /\ y.before \subseteq Done
      /\ y.pc = x.pc /\ y.ok = x.ok /\ y.name = x.name /\ y.ask = x.ask /\ y.row = x.row /\ y.seen = x.seen
  BY <1>0 DEF RequestRecords
<1> HIDE DEF y
<1>6. Moves(r, y)
  BY <1>2, <1>3, <1>4, MovesTyped
<1>7. QED
  BY <1>4, <1>5, <1>6 DEF Came

\* What a step keeps of a request that is under way.
Keeps(y, x) == y.op = x.op /\ y.name = x.name /\ y.ask = x.ask /\ y.before = x.before

LEMMA GotoMoves ==
  ASSUME Typed, NEW r \in Requests, NEW l \in Labels, Goto(r, l), requests[r].pc \notin {"new", "done"},
         Placed([requests[r] EXCEPT !.pc = l])
  PROVE  \E y : /\ Moves(r, y) /\ Keeps(y, requests[r]) /\ y.pc = l /\ y.ok = requests[r].ok
                /\ y.row = requests[r].row /\ y.seen = requests[r].seen
<1> DEFINE y == [requests[r] EXCEPT !.pc = l]
<1>1. requests \in [Requests -> RequestRecords] /\ requests[r] \in RequestRecords
  BY DEF Typed, TypeOK
<1>2. y \in RequestRecords /\ requests' = [requests EXCEPT ![r] = y]
  BY <1>1 DEF RequestRecords, Goto
<1>3. /\ Keeps(y, requests[r]) /\ y.pc = l /\ y.ok = requests[r].ok
      /\ y.row = requests[r].row /\ y.seen = requests[r].seen
  BY <1>1 DEF RequestRecords, Keeps
<1> HIDE DEF y
<1>4. Moves(r, y)
  BY <1>2, MovesTyped DEF y
<1>5. QED
  BY <1>3, <1>4

LEMMA FinishMoves ==
  ASSUME Typed, NEW r \in Requests, Finish(r), requests[r].pc \notin {"new", "done"}
  PROVE  \E y : /\ Moves(r, y) /\ Keeps(y, requests[r]) /\ y.pc = "done" /\ y.ok
                /\ y.seen = requests[r].seen
<1> DEFINE y == [requests[r] EXCEPT !.pc = "done", !.ok = TRUE, !.row = 0]
<1>1. requests \in [Requests -> RequestRecords] /\ requests[r] \in RequestRecords
  BY DEF Typed, TypeOK
<1>2. y \in RequestRecords /\ requests' = [requests EXCEPT ![r] = y]
  BY <1>1 DEF RequestRecords, Labels, Finish
<1>3. Keeps(y, requests[r]) /\ y.pc = "done" /\ y.ok /\ y.seen = requests[r].seen
  BY <1>1 DEF RequestRecords, Keeps
<1>4. Placed(y)
  BY <1>3 DEF Placed
<1> HIDE DEF y
<1>5. Moves(r, y)
  BY <1>2, <1>4, MovesTyped
<1>6. QED
  BY <1>3, <1>5

LEMMA StopMoves ==
  ASSUME Typed, NEW r \in Requests, Stop(r)
  PROVE  \E y : /\ Moves(r, y) /\ y.op = requests[r].op /\ y.before = requests[r].before
                /\ y.name = requests[r].name
                /\ y.pc = "done" /\ ~y.ok /\ y.ask = 0 /\ y.seen = 0
<1> DEFINE y == [NewReq EXCEPT !.pc = "done", !.op = requests[r].op,
                   !.name = requests[r].name, !.before = requests[r].before]
<1>1. requests \in [Requests -> RequestRecords] /\ requests[r] \in RequestRecords
      /\ requests[r].pc # "done"
  BY DEF Typed, TypeOK, Stop, InFlight, Done
<1>2. y \in RequestRecords
  BY <1>1, NewReqTyped DEF RequestRecords, Labels
<1>3. requests' = [requests EXCEPT ![r] = y]
  BY DEF Stop
<1>4. /\ y.op = requests[r].op /\ y.before = requests[r].before /\ y.name = requests[r].name
      /\ y.pc = "done" /\ ~y.ok /\ y.ask = 0 /\ y.seen = 0
  BY DEF NewReq
<1>5. Placed(y)
  BY <1>4 DEF Placed
<1> HIDE DEF y
<1>6. Moves(r, y)
  BY <1>1, <1>2, <1>3, <1>5, MovesTyped
<1>7. QED
  BY <1>4, <1>6

(***************************************************************************)
(* What is over stays as it is; so does what requests saw as over.         *)
(***************************************************************************)
Writer(x) == x.pc = "done" \/ (x.op = "callback" /\ x.pc \in {"stored", "completed"})

LEMMA MovesDone ==
  ASSUME Typed, NEW r \in Requests, NEW y, Moves(r, y)
  PROVE  /\ r \notin Done /\ Done \subseteq Done' /\ \A q \in Done : requests'[q] = requests[q]
         /\ \A q \in Done' : q \in Done \/ (q = r /\ y.pc = "done")
         /\ \A op : /\ r \notin Accepted(op) /\ Accepted(op) \subseteq Accepted(op)' /\ Accepted(op) \subseteq Done
                    /\ \A q \in Accepted(op) : requests'[q] = requests[q]
                    /\ \A q \in Accepted(op)' : q \in Accepted(op) \/ (q = r /\ y.op = op /\ y.ok)
                    /\ y.op = op /\ y.ok => r \in Accepted(op)'
         /\ \A q \in Wrote' : q \in Wrote \/ (q = r /\ Writer(y))
         /\ Writer(y) => r \in Wrote'
         /\ r \in Wrote => requests[r].op = "callback"
<1>1. requests[r].pc # "done" /\ requests'[r] = y /\ \A q \in Requests \ {r} : requests'[q] = requests[q]
  BY DEF Moves
<1>2. /\ r \notin Done /\ Done \subseteq Done' /\ \A q \in Done : q \in Requests \ {r} /\ requests'[q] = requests[q]
      /\ \A q \in Done' : q \in Done \/ (q = r /\ y.pc = "done")
  BY <1>1 DEF Done
<1>3. ASSUME NEW op
      PROVE  /\ r \notin Accepted(op) /\ Accepted(op) \subseteq Accepted(op)' /\ Accepted(op) \subseteq Done
             /\ \A q \in Accepted(op) : requests'[q] = requests[q]
             /\ \A q \in Accepted(op)' : q \in Accepted(op) \/ (q = r /\ y.op = op /\ y.ok)
             /\ y.op = op /\ y.ok => r \in Accepted(op)'
  BY <1>1, <1>2 DEF Accepted, Done, Moves, Placed
<1>4. /\ \A q \in Wrote' : q \in Wrote \/ (q = r /\ Writer(y))
      /\ Writer(y) => r \in Wrote'
      /\ r \in Wrote => requests[r].op = "callback"
  BY <1>1 DEF Wrote, Writer
<1>5. QED
  BY <1>2, <1>3, <1>4

\* A writer stays one, since a callback that has stored goes on or is over.
LEMMA WroteStays ==
  ASSUME Typed, NEW r \in Requests, NEW y, Moves(r, y), Writer(requests[r]) => Writer(y)
  PROVE  Wrote \subseteq Wrote'
BY DEF Wrote, Writer, Moves

LEMMA PastKept ==
  ASSUME Typed, Past, NEW r \in Requests, NEW y, Moves(r, y),
         y.before = requests[r].before \/ y.before \subseteq Done
  PROVE  Past'
BY MovesDone DEF Past, Moves

\* A row that is held stays held while the entries are as they are.
LEMMA HeldStays ==
  ASSUME Typed, NEW r \in Requests, NEW y, Moves(r, y), Writer(requests[r]) => Writer(y),
         UNCHANGED entries, NEW x, Held(x)
  PROVE  Held(x)'
<1>1. Wrote \subseteq Wrote'
  BY WroteStays
<1>2. Deleted(x.name, x.before) => Deleted(x.name, x.before)'
  BY MovesDone DEF Deleted
<1>3. QED
  BY <1>1, <1>2 DEF Held

(***************************************************************************)
(* The entries.                                                            *)
(***************************************************************************)
\* The value x has seen was retired by nobody who was done when x came.
Current(x) ==
  \A q \in Accepted("rotate") \cup Accepted("delete") \cup Accepted("callback") :
    q \in x.before => requests[q].seen # x.seen

\* Steps that read the entries, or have nothing to do with them.
LEMMA EntryQuiet ==
  ASSUME Typed, Past, EntryInv, NEW r \in Requests, NEW y, Moves(r, y), UNCHANGED entries,
         Writer(requests[r]) => Writer(y),
         y.seen = 0 \/ y.seen \in Wrote,
         Holding(y) => Held(y),
         Replacing(y) => y.seen = 0 \/ (Replacing(requests[r]) /\ y.seen = requests[r].seen),
         y.op = "use" /\ y.seen # 0 => Current(y) /\ y.before \subseteq Done
  PROVE  EntryInv'
<1>1. Wrote \subseteq Wrote'
  BY WroteStays
<1>2. requests'[r] = y /\ \A q \in Requests \ {r} : requests'[q] = requests[q]
  BY DEF Moves
<1>3. RowsNamed' /\ SeenWritten'
  BY <1>1, <1>2 DEF EntryInv, RowsNamed, SeenWritten
<1>4. Holds'
  BY <1>2, HeldStays DEF EntryInv, Holds
<1>5. Replaced'
  BY <1>2 DEF EntryInv, Replaced
<1>6. RetiredStaysRetired'
  <2> SUFFICES ASSUME NEW u \in Requests, requests'[u].op = "use", requests'[u].seen # 0,
                      NEW op \in {"rotate", "delete", "callback"}, NEW q \in Accepted(op)',
                      q \in requests'[u].before
               PROVE  requests'[q].seen # requests'[u].seen
    BY DEF RetiredStaysRetired
  <2>1. requests'[u].before \subseteq Done
    BY <1>2 DEF Past
  <2>2. q \in Accepted(op) /\ requests'[q] = requests[q]
    BY <2>1, MovesDone
  <2>3. QED
    BY <1>2, <2>2 DEF EntryInv, RetiredStaysRetired, Current
<1>7. QED
  BY <1>3, <1>4, <1>5, <1>6 DEF EntryInv

\* Steps that write the entries; r wrote nothing before and holds nothing after.
LEMMA EntryWritten ==
  ASSUME Typed, Past, EntryInv, NEW r \in Requests, NEW y, Moves(r, y), r \notin Wrote,
         RowsNamed', y.seen = 0 \/ y.seen \in Wrote, ~Holding(y), y.op # "use",
         \A q \in Requests \ {r} : Holding(requests[q]) => Held(requests[q])',
         \A e \in entries' : e.value = r \/ \E f \in entries : e.value = f.value,
         Replacing(y) /\ y.seen # 0 => \A e \in entries' : e.value # y.seen
  PROVE  EntryInv'
<1>1. Wrote \subseteq Wrote' /\ r \in Requests
  BY DEF Moves, Wrote
<1>2. requests'[r] = y /\ \A q \in Requests \ {r} : requests'[q] = requests[q]
  BY DEF Moves
<1>3. SeenWritten'
  BY <1>1, <1>2 DEF EntryInv, SeenWritten
<1>4. Holds'
  BY <1>2 DEF Holds
<1>5. Replaced'
  <2> SUFFICES ASSUME NEW q \in Requests, Replacing(requests'[q]), requests'[q].seen # 0,
                      NEW e \in entries'
               PROVE  e.value # requests'[q].seen
    BY DEF Replaced
  <2>1. CASE q = r
    BY <2>1, <1>2
  <2>2. CASE q # r
    <3>1. requests'[q] = requests[q] /\ requests[q].seen \in Wrote
      BY <2>2, <1>2 DEF EntryInv, SeenWritten
    <3>2. \A f \in entries : f.value # requests[q].seen
      BY <3>1 DEF EntryInv, Replaced
    <3>3. QED
      BY <3>1, <3>2
  <2>3. QED
    BY <2>1, <2>2
<1>6. RetiredStaysRetired'
  <2> SUFFICES ASSUME NEW u \in Requests, requests'[u].op = "use", requests'[u].seen # 0,
                      NEW op \in {"rotate", "delete", "callback"}, NEW q \in Accepted(op)',
                      q \in requests'[u].before
               PROVE  requests'[q].seen # requests'[u].seen
    BY DEF RetiredStaysRetired
  <2>1. u # r /\ requests'[u] = requests[u]
    BY <1>2
  <2>2. requests[u].before \subseteq Done
    BY DEF Past
  <2>3. q \in Accepted(op) /\ requests'[q] = requests[q]
    BY <2>1, <2>2, MovesDone
  <2>4. QED
    BY <2>1, <2>3 DEF EntryInv, RetiredStaysRetired
<1>7. QED
  BY <1>3, <1>4, <1>5, <1>6 DEF EntryInv

\* What the authorizations need of a step: a credential that was there is there,
\* or its deleter is r.
Stays(y) ==
  \A name : Level(name, None) # {} =>
    Level(name, None)' # {} \/ (y.op = "delete" /\ y.ok /\ y.name = name)

LEMMA InsertWrites ==
  ASSUME Typed, Past, EntryInv, NEW r \in Requests, NEW y, Moves(r, y), r \notin Wrote, Writer(y),
         y.seen = 0, ~Holding(y), y.op # "use",
         NEW name \in Names, NEW agent \in Agents \cup {None}, Insert(r, name, agent)
  PROVE  /\ EntryInv' /\ Stays(y)
         /\ \E T : entries' \subseteq EntryRecords(T)
         /\ agent = None => Level(name, None)' # {}
<1> DEFINE m == Max({e.row : e \in entries} \cup {0}) + 1
           n == [id |-> r, row |-> m, name |-> name, agent |-> agent, value |-> r]
<1>1. entries' = entries \cup {n}
  BY DEF Insert
<1>2. n.id = r /\ n.value = r /\ n.name = name /\ n.agent = agent
  OBVIOUS
<1>3. \E T : entries' \subseteq EntryRecords(T)
  <2>1. PICK T : entries \subseteq EntryRecords(T)
    BY DEF Typed, TypeOK, TablesOK
  <2>2. n \in EntryRecords(T \cup {m})
    BY DEF EntryRecords
  <2> HIDE DEF n, m
  <2>3. EntryRecords(T) \subseteq EntryRecords(T \cup {m})
    BY DEF EntryRecords
  <2>4. entries' \subseteq EntryRecords(T \cup {m})
    BY <1>1, <2>1, <2>2, <2>3
  <2>5. QED
    BY <2>4
<1> HIDE DEF n, m
<1>4. Wrote \subseteq Wrote' /\ r \in Wrote'
  BY DEF Moves, Wrote, Writer
<1>5. RowsNamed'
  BY <1>1, <1>2, <1>4 DEF EntryInv, RowsNamed
<1>6. ASSUME NEW q \in Requests \ {r}, Holding(requests[q])
      PROVE  Held(requests[q])'
  <2>1. requests'[q] = requests[q] /\ Held(requests[q]) /\ requests[q].seen # 0
    BY <1>6 DEF EntryInv, Holds, Moves, Held
  <2>2. requests[q].seen \in Wrote
    BY <2>1 DEF EntryInv, SeenWritten
  <2>3. requests[q].seen # r /\ requests[q].row # r /\ requests[q].row \in Wrote'
    BY <2>1, <2>2, <1>4 DEF Held
  <2>4. \A d : d \in Accepted("delete") => d \in Accepted("delete")' /\ requests'[d] = requests[d]
    BY MovesDone
  <2>5. Deleted(requests[q].name, requests[q].before) => Deleted(requests[q].name, requests[q].before)'
    BY <2>1, <2>4 DEF Deleted
  <2>6. QED
    BY <1>1, <1>2, <2>1, <2>3, <2>5 DEF Held
<1>7. EntryInv'
  BY <1>1, <1>2, <1>5, <1>6, EntryWritten
<1>8. Stays(y)
  BY <1>1 DEF Stays, Level
<1>9. agent = None => Level(name, None)' # {}
  BY <1>1, <1>2 DEF Level
<1>10. QED
  BY <1>3, <1>7, <1>8, <1>9

LEMMA OverwriteWrites ==
  ASSUME Typed, Past, EntryInv, NEW r \in Requests, NEW y, Moves(r, y), r \notin Wrote, Writer(y),
         ~Holding(y), y.op # "use", Holding(requests[r]), y.seen = requests[r].seen, y.name = requests[r].name,
         entries' = Overwritten(requests[r].row, r)
  PROVE  /\ EntryInv' /\ Stays(y)
         /\ \E T : entries' \subseteq EntryRecords(T)
         /\ requests[r].pc = "looked" =>
              Level(y.name, None)' # {} \/ Deleted(requests[r].name, requests[r].before)
<1> DEFINE new(e) == [e EXCEPT !.value = r]
           row == requests[r].row
<1>1. PICK T : entries \subseteq EntryRecords(T)
  BY DEF Typed, TypeOK, TablesOK
<1>2. \A e \in entries : /\ new(e) \in EntryRecords(T) /\ new(e).value = r
                         /\ new(e).id = e.id /\ new(e).name = e.name /\ new(e).agent = e.agent
  BY <1>1 DEF EntryRecords
<1>3. entries' = {IF e.id = row THEN new(e) ELSE e : e \in entries}
  BY DEF Overwritten
<1> HIDE DEF new, row
<1>4. \A g \in entries' : \E e \in entries :
        /\ g.id = e.id /\ g.name = e.name /\ g.agent = e.agent /\ g \in EntryRecords(T)
        /\ e.id = row => g = new(e) /\ g.value = r
        /\ e.id # row => g = e
  BY <1>1, <1>2, <1>3
<1>5. \A e \in entries : \E g \in entries' : g.id = e.id /\ g.name = e.name /\ g.agent = e.agent
  BY <1>2, <1>3
<1>6. Wrote \subseteq Wrote' /\ r \in Wrote'
  BY DEF Moves, Wrote, Writer
<1>7. RowsNamed'
  <2>1. \A g \in entries' : g.id \in Wrote' /\ g.value \in Wrote'
    BY <1>4, <1>6 DEF EntryInv, RowsNamed
  <2>2. ASSUME NEW g \in entries', NEW h \in entries', g.id = h.id \/ g.value = h.value
        PROVE  g = h
    <3>1. PICK e \in entries : g.id = e.id /\ (e.id = row => g = new(e) /\ g.value = r) /\ (e.id # row => g = e)
      BY <1>4
    <3>2. PICK f \in entries : h.id = f.id /\ (f.id = row => h = new(f) /\ h.value = r) /\ (f.id # row => h = f)
      BY <1>4
    <3>3. e.value # r /\ f.value # r
      BY DEF EntryInv, RowsNamed
    <3>4. e.id = f.id \/ e.value = f.value
      BY <3>1, <3>2, <3>3, <2>2
    <3>5. e = f
      BY <3>4 DEF EntryInv, RowsNamed
    <3>6. QED
      BY <3>1, <3>2, <3>5
  <2>3. QED
    BY <2>1, <2>2 DEF RowsNamed
<1>8. ASSUME NEW q \in Requests \ {r}, Holding(requests[q])
      PROVE  Held(requests[q])'
  <2>1. requests'[q] = requests[q] /\ Held(requests[q]) /\ requests[q].seen # 0
    BY <1>8 DEF EntryInv, Holds, Moves, Held
  <2>2. requests[q].seen \in Wrote
    BY <2>1 DEF EntryInv, SeenWritten
  <2>3. requests[q].seen # r /\ requests[q].row \in Wrote'
    BY <2>1, <2>2, <1>6 DEF Held
  <2>4. \A d : d \in Accepted("delete") => d \in Accepted("delete")' /\ requests'[d] = requests[d]
    BY MovesDone
  <2>5. Deleted(requests[q].name, requests[q].before) => Deleted(requests[q].name, requests[q].before)'
    BY <2>1, <2>4 DEF Deleted
  <2>6. \A g \in entries' : /\ g.value = requests[q].seen => g.id = requests[q].row
                            /\ g.id = requests[q].row => g.name = requests[q].name /\ g.agent = None
    BY <1>4, <2>1, <2>3 DEF Held
  <2>7. (\E e \in entries : e.id = requests[q].row) => \E g \in entries' : g.id = requests[q].row
    BY <1>5
  <2>8. QED
    BY <2>1, <2>3, <2>5, <2>6, <2>7 DEF Held
<1>9. Held(requests[r]) /\ y.seen # 0 /\ y.seen \in Wrote
  BY DEF EntryInv, Holds, Held, SeenWritten
<1>10. \A g \in entries' : g.value # y.seen
  BY <1>4, <1>9 DEF Held, row
<1>11. \A g \in entries' : g.value = r \/ \E f \in entries : g.value = f.value
  BY <1>4
<1>12. EntryInv'
  BY <1>7, <1>8, <1>9, <1>10, <1>11, EntryWritten
<1>13. Stays(y)
  BY <1>5 DEF Stays, Level
<1>14. \E S : entries' \subseteq EntryRecords(S)
  BY <1>4
<1>15. requests[r].pc = "looked" =>
         Level(y.name, None)' # {} \/ Deleted(requests[r].name, requests[r].before)
  <2>1. ASSUME NEW e \in entries, e.id = row PROVE Level(y.name, None)' # {}
    <3>1. e.name = y.name /\ e.agent = None
      BY <2>1, <1>9 DEF Held, row
    <3>2. QED
      BY <3>1, <1>5 DEF Level
  <2>2. QED
    BY <2>1, <1>9 DEF Held, row
<1>16. QED
  BY <1>12, <1>13, <1>14, <1>15

LEMMA DeleteWrites ==
  ASSUME Typed, Past, EntryInv, NEW r \in Requests, NEW y, Moves(r, y), r \notin Wrote, Writer(y),
         ~Holding(y), y.op = "delete", y.ok, y.name = requests[r].name,
         Holding(requests[r]), y.seen = requests[r].seen,
         entries' = {e \in entries : e.id # requests[r].row}
  PROVE  EntryInv' /\ Stays(y) /\ \E T : entries' \subseteq EntryRecords(T)
<1>1. \E T : entries' \subseteq EntryRecords(T)
  BY DEF Typed, TypeOK, TablesOK
<1>2. Wrote \subseteq Wrote' /\ r \in Wrote'
  BY DEF Moves, Wrote, Writer
<1>3. RowsNamed'
  BY <1>2 DEF EntryInv, RowsNamed
<1>4. Held(requests[r]) /\ y.seen # 0 /\ y.seen \in Wrote
  BY DEF EntryInv, Holds, Held, SeenWritten
<1>5. r \in Accepted("delete")' /\ requests'[r] = y /\ r \notin Done
  BY MovesDone DEF Moves
<1>6. ASSUME NEW q \in Requests \ {r}, Holding(requests[q])
      PROVE  Held(requests[q])'
  <2>1. requests'[q] = requests[q] /\ Held(requests[q])
    BY <1>6 DEF EntryInv, Holds, Moves
  <2>2. requests[q].row \in Wrote'
    BY <2>1, <1>2 DEF Held
  <2>3. \A d : d \in Accepted("delete") => d \in Accepted("delete")' /\ requests'[d] = requests[d]
    BY MovesDone
  <2>4. Deleted(requests[q].name, requests[q].before) => Deleted(requests[q].name, requests[q].before)'
    BY <2>1, <2>3 DEF Deleted
  <2>5. ASSUME NEW e \in entries, e.id = requests[q].row, e \notin entries'
        PROVE  Deleted(requests[q].name, requests[q].before)'
    <3>1. e.id = requests[r].row
      BY <2>5
    <3>2. e.name = requests[q].name /\ e.name = requests[r].name
      BY <2>1, <2>5, <3>1, <1>4 DEF Held
    <3>3. r \notin requests[q].before
      BY <1>5 DEF Past
    <3>4. QED
      BY <1>5, <2>1, <3>2, <3>3 DEF Deleted
  <2>6. QED
    BY <2>1, <2>2, <2>4, <2>5 DEF Held
<1>7. \A e \in entries' : e.value # y.seen
  BY <1>4 DEF Held
<1>8. EntryInv'
  BY <1>3, <1>4, <1>6, <1>7, EntryWritten
<1>9. Stays(y)
  BY <1>4 DEF Stays, Level, Held
<1>10. QED
  BY <1>1, <1>8, <1>9

(***************************************************************************)
(* The authorizations.                                                     *)
(***************************************************************************)
\* What is deleted by somebody who was not over is so later on.
LEMMA DeletedStays ==
  ASSUME Typed, Past, NEW r \in Requests, NEW y, Moves(r, y), Stays(y), NEW name,
         NEW before \in SUBSET Done, Level(name, None) # {} \/ Deleted(name, before)
  PROVE  Level(name, None)' # {} \/ (Deleted(name, before))'
<1>1. \A d \in Accepted("delete") : d \in Accepted("delete")' /\ requests'[d] = requests[d]
  BY MovesDone
<1>2. r \notin before /\ requests'[r] = y /\ (y.op = "delete" /\ y.ok => r \in Accepted("delete")')
  BY MovesDone DEF Moves
<1>3. before' = before => (Deleted(name, before) => (Deleted(name, before))')
  BY <1>1 DEF Deleted
<1>4. QED
  BY <1>1, <1>2 DEF Deleted, Stays

\* What becomes of an ask: it is new, or as it was, or r has completed it, having
\* stored a credential.
Followed(x, r, y) ==
  \/ x.id = r /\ x.by = None /\ y.op = "ask" /\ y.ok
  \/ \E z \in asks : /\ x.id = z.id
                     /\ \/ x.by = z.by
                        \/ x.by = r /\ (Level(y.name, None) # {} \/ Deleted(y.name, y.before))

LEMMA AskStep ==
  ASSUME Typed, Past, AskInv, NEW r \in Requests, NEW y, Moves(r, y), Stays(y), y.pc # "new",
         \A x \in asks' : Followed(x, r, y),
         \A x, z \in asks' : x.id = z.id => x = z,
         requests[r].pc # "new" => y.before = requests[r].before /\ y.name = requests[r].name,
         y.before \subseteq Done,
         y.op = "callback" /\ y.ask # 0 =>
           /\ y.ask \in Accepted("ask")
           /\ y.pc = "completed" \/ y.ok => \A x \in asks' : x.id = y.ask => x.by # None,
         y.op = "callback" /\ y.ok => y.ask # 0,
         y.op = "callback" =>
           \A q \in Accepted("callback") : requests[q].ask = y.ask => q \notin y.before,
         y.pc = "stored" => Level(y.name, None)' # {} \/ (Deleted(y.name, y.before))'
  PROVE  AskInv'
<1>1. requests'[r] = y /\ (\A q \in Requests \ {r} : requests'[q] = requests[q]) /\ requests[r].pc # "done"
  BY DEF Moves
<1>2. /\ r \notin Done /\ r \notin Accepted("ask") /\ r \notin Accepted("callback")
      /\ Accepted("ask") \subseteq Accepted("ask")'
      /\ \A q \in Accepted("callback")' : q \in Accepted("callback") \/ (q = r /\ y.op = "callback" /\ y.ok)
      /\ Accepted("callback") \subseteq Done /\ Accepted("callback") \subseteq Requests
      /\ y.op = "ask" /\ y.ok => r \in Accepted("ask")'
  <2>1. Accepted("callback") \subseteq Requests
    BY DEF Accepted, Done
  <2>2. QED
    BY <2>1, MovesDone
<1>3. None \notin Requests
  BY NoneAssumption
<1>4. \A z \in asks : /\ z.id \in Accepted("ask")
                      /\ z.by # None => z.by \in Requests /\ requests[z.by].pc # "new"
  BY DEF AskInv, AsksNamed, Typed, TypeOK, TablesOK, AskRecords
<1>5. AsksNamed'
  <2>1. ASSUME NEW x \in asks' PROVE x.id \in Accepted("ask")' /\ (x.by # None => requests'[x.by].pc # "new")
    BY <1>1, <1>2, <1>4 DEF Followed
  <2>2. QED
    BY <2>1 DEF AsksNamed
<1>6. Answering'
  <2> SUFFICES ASSUME NEW q \in Requests, requests'[q].op = "callback", requests'[q].ask # 0
               PROVE  /\ requests'[q].ask \in Accepted("ask")'
                      /\ requests'[q].pc = "completed" \/ requests'[q].ok =>
                           \A x \in asks' : x.id = requests'[q].ask => x.by # None
    BY DEF Answering, Op
  <2>1. CASE q = r
    BY <2>1, <1>1, <1>2
  <2>2. CASE q # r
    <3>1. requests'[q] = requests[q]
      BY <2>2, <1>1
    <3>2. /\ requests[q].ask \in Accepted("ask")
          /\ requests[q].pc = "completed" \/ requests[q].ok =>
               \A x \in asks : x.id = requests[q].ask => x.by # None
      BY <3>1 DEF AskInv, Answering, Op
    <3>3. ASSUME NEW x \in asks', x.id = requests[q].ask
          PROVE  \E z \in asks : z.id = x.id /\ (x.by = z.by \/ x.by = r)
      BY <3>2, <3>3, <1>2 DEF Followed
    <3>4. QED
      BY <3>1, <3>2, <3>3, <1>2, <1>3
  <2>3. QED
    BY <2>1, <2>2
<1>7. AcceptedAsked'
  <2> SUFFICES ASSUME NEW q \in Accepted("callback")' PROVE requests'[q].ask # 0
    BY DEF AcceptedAsked
  <2>1. CASE q \in Accepted("callback")
    BY <2>1, <1>1, <1>2 DEF AskInv, AcceptedAsked
  <2>2. QED
    BY <2>1, <1>1, <1>2
<1>8. OneAnswer'
  <2> SUFFICES ASSUME NEW s \in Requests, requests'[s].op = "callback", NEW q \in Accepted("callback")',
                      q # s, requests'[q].ask = requests'[s].ask, q \in requests'[s].before
               PROVE  FALSE
    BY DEF OneAnswer, Op
  <2>1. CASE s = r
    BY <2>1, <1>1, <1>2
  <2>2. CASE s # r
    <3>1. requests'[s] = requests[s] /\ requests[s].before \subseteq Done
      BY <2>2, <1>1 DEF Past
    <3>2. q \in Accepted("callback") /\ requests'[q] = requests[q]
      BY <3>1, <1>1, <1>2
    <3>3. QED
      BY <3>1, <3>2 DEF AskInv, OneAnswer, Op
  <2>3. QED
    BY <2>1, <2>2
<1>9. StoredStays'
  <2> SUFFICES ASSUME NEW q \in Requests, requests'[q].pc = "stored"
               PROVE  Level(requests[q].name, None)' # {} \/ \E d \in Accepted("delete")' :
                        requests'[d].name = requests'[q].name /\ d \notin requests'[q].before
    BY DEF StoredStays, Deleted
  <2>1. CASE q = r
    BY <2>1, <1>1 DEF Deleted, Level
  <2>2. CASE q # r
    <3>1. requests'[q] = requests[q] /\ requests[q].before \in SUBSET Done
      BY <2>2, <1>1 DEF Past
    <3>2. PICK m, b : m = requests[q].name /\ b = requests[q].before
      OBVIOUS
    <3>3. b \in SUBSET Done /\ (Level(m, None) # {} \/ Deleted(m, b))
      BY <3>1, <3>2 DEF AskInv, StoredStays
    <3>4. Level(m, None)' # {} \/ \E d \in Accepted("delete")' : requests'[d].name = m /\ d \notin b
      BY <3>3, DeletedStays DEF Deleted
    <3>5. m = requests'[q].name /\ b = requests'[q].before
      BY <3>1, <3>2
    <3>6. Level(m, None)' = Level(requests[q].name, None)'
      BY <3>5 DEF Level
    <3>7. QED
      BY <3>4, <3>5, <3>6
  <2>3. QED
    BY <2>1, <2>2
<1>10. CompletedMeansStored'
  <2> SUFFICES ASSUME NEW x \in asks', x.by # None
               PROVE  \/ \E e \in entries' : e.name = requests'[x.by].name /\ e.agent = None
                      \/ \E d \in Accepted("delete")' :
                        requests'[d].name = requests'[x.by].name /\ d \notin requests'[x.by].before
    BY DEF CompletedMeansStored, Level
  <2>1. \E m, b : /\ b \in SUBSET Done /\ b = requests'[x.by].before /\ m = requests'[x.by].name
                  /\ Level(m, None) # {} \/ Deleted(m, b)
    <3>1. CASE x.by = r /\ (Level(y.name, None) # {} \/ Deleted(y.name, y.before))
      BY <3>1, <1>1
    <3>2. ASSUME NEW z \in asks, x.by = z.by
          PROVE  /\ requests'[z.by].before \in SUBSET Done
                 /\ \/ Level(requests'[z.by].name, None) # {}
                    \/ Deleted(requests'[z.by].name, requests'[z.by].before)
      <4>1. z.by \in Requests /\ requests[z.by].pc # "new"
        BY <3>2, <1>4
      <4>2. /\ requests'[z.by].before = requests[z.by].before /\ requests[z.by].before \in SUBSET Done
            /\ requests'[z.by].name = requests[z.by].name
        BY <4>1, <3>2, <1>1 DEF Past
      <4>3. \/ Level(requests[z.by].name, None) # {}
            \/ Deleted(requests[z.by].name, requests[z.by].before)
        BY <3>2 DEF AskInv, CompletedMeansStored, Deleted
      <4>4. QED
        BY <4>2, <4>3
    <3>3. QED
      BY <3>1, <3>2 DEF Followed
  <2>2. PICK m, b : /\ b \in SUBSET Done /\ b = requests'[x.by].before /\ m = requests'[x.by].name
                    /\ Level(m, None) # {} \/ Deleted(m, b)
    BY <2>1
  <2>3. Level(m, None)' # {} \/ \E d \in Accepted("delete")' : requests'[d].name = m /\ d \notin b
    BY <2>2, DeletedStays DEF Deleted
  <2>4. Level(m, None)' # {} => \E e \in entries' : e.name = m /\ e.agent = None
    BY DEF Level
  <2>5. QED
    BY <2>2, <2>3, <2>4
<1>11. QED
  BY <1>5, <1>6, <1>7, <1>8, <1>9, <1>10 DEF AskInv

\* What r has of the state token it answers, while the asks are as they were.
Answers(y, x) ==
  \/ y.ask = 0 /\ ~y.ok /\ y.pc = "done"
  \/ /\ y.ask = x.ask /\ x.op = "callback" /\ x.pc # "new"
     /\ y.pc = "completed" \/ y.ok => x.pc = "completed"

\* Steps after which every ask is as it was, or new, or gone.
LEMMA AskQuiet ==
  ASSUME Typed, Past, AskInv, NEW r \in Requests, NEW y, Moves(r, y), Stays(y), y.pc # "new",
         NEW provider,
         \A x \in asks' : x \in asks \/ (x = NewAsk(r, provider) /\ y.op = "ask" /\ y.ok),
         \/ y.before = requests[r].before /\ y.name = requests[r].name
         \/ requests[r].pc = "new" /\ y.before \subseteq Done,
         y.op = "callback" => Answers(y, requests[r]),
         y.pc = "stored" => Level(y.name, None)' # {} \/ (Deleted(y.name, y.before))'
  PROVE  AskInv'
<1> DEFINE n == NewAsk(r, provider)
<1>1. n.id = r /\ n.by = None
  BY DEF NewAsk
<1> HIDE DEF n
<1>2. /\ \A x \in asks' : x \in asks \/ (x = n /\ y.op = "ask" /\ y.ok)
      /\ r \notin Accepted("ask")
  BY MovesDone DEF n
<1>3. \A x \in asks' : Followed(x, r, y)
  BY <1>1, <1>2 DEF Followed
<1>4. \A x, z \in asks' : x.id = z.id => x = z
  BY <1>1, <1>2 DEF AskInv, AsksNamed
<1>5. y.before \subseteq Done /\ Placed(requests[r]) /\ requests[r].pc # "done"
  BY DEF Past, Typed, Placements, Moves
<1>6. y.op = "callback" /\ y.ask # 0 =>
        /\ y.ask \in Accepted("ask")
        /\ y.pc = "completed" \/ y.ok => \A x \in asks' : x.id = y.ask => x.by # None
  <2> SUFFICES ASSUME y.op = "callback", y.ask # 0
               PROVE  /\ y.ask \in Accepted("ask")
                      /\ y.pc = "completed" \/ y.ok => \A x \in asks' : x.id = y.ask => x.by # None
    OBVIOUS
  <2>1. /\ y.ask = requests[r].ask /\ requests[r].op = "callback"
        /\ y.pc = "completed" \/ y.ok => requests[r].pc = "completed"
    BY DEF Answers
  <2>2. \A x \in asks' : x \in asks
    BY <1>2
  <2>3. QED
    BY <2>1, <2>2, <1>5 DEF AskInv, Answering, Op
<1>7. y.op = "callback" /\ y.ok => y.ask # 0
  BY <1>5 DEF Answers, Placed
<1>8. ASSUME y.op = "callback", NEW q \in Accepted("callback"), requests[q].ask = y.ask
      PROVE  q \notin y.before
  <2>1. requests[q].ask # 0 /\ q # r
    BY MovesDone DEF AskInv, AcceptedAsked
  <2>2. requests[r].op = "callback" /\ y.ask = requests[r].ask /\ y.before = requests[r].before
    BY <1>8, <2>1 DEF Answers
  <2>3. QED
    BY <1>8, <2>1, <2>2 DEF AskInv, OneAnswer, Op
<1>9. requests[r].pc # "new" => y.before = requests[r].before /\ y.name = requests[r].name
  OBVIOUS
<1>10. QED
  BY <1>3, <1>4, <1>5, <1>6, <1>7, <1>8, <1>9, AskStep

(***************************************************************************)
(* Each action.                                                            *)
(***************************************************************************)
LEMMA StepIInv ==
  ASSUME IInv, NEW r \in Requests, NEW y, Moves(r, y), TablesOK', EntryInv', AskInv',
         y.before = requests[r].before \/ y.before \subseteq Done
  PROVE  IInv'
BY PastKept DEF IInv, Typed, TypeOK, Moves

LEMMA QuietStep ==
  ASSUME IInv, NEW r \in Requests, NEW y, Moves(r, y), UNCHANGED entries, TablesOK',
         NEW provider,
         \A x \in asks' : x \in asks \/ (x = NewAsk(r, provider) /\ y.op = "ask" /\ y.ok),
         y.pc \notin {"new", "stored"}, Writer(requests[r]) => Writer(y),
         \/ y.before = requests[r].before /\ y.name = requests[r].name
         \/ requests[r].pc = "new" /\ y.before \subseteq Done,
         y.op = "callback" => Answers(y, requests[r]),
         y.seen = 0 \/ y.seen \in Wrote,
         Holding(y) => Held(y),
         Replacing(y) => y.seen = 0 \/ (Replacing(requests[r]) /\ y.seen = requests[r].seen),
         y.op = "use" /\ y.seen # 0 => Current(y)
  PROVE  IInv'
<1>1. requests[r].before \subseteq Done
  BY DEF IInv, Past
<1>2. EntryInv'
  BY <1>1, EntryQuiet DEF IInv
<1>3. Stays(y)
  BY DEF Stays, Level
<1>4. AskInv'
  BY <1>3, AskQuiet DEF IInv
<1>5. QED
  BY <1>2, <1>4, StepIInv

\* A row that is read.
LEMMA RowRead ==
  ASSUME Typed, EntryInv, NEW e \in entries, NEW x, x.seen = e.value
  PROVE  /\ x.seen # 0 /\ x.seen \in Wrote /\ Current(x)
         /\ x.row = e.id /\ x.name = e.name /\ e.agent = None => Held(x)
<1>1. e.id \in Wrote /\ e.value \in Wrote /\ e.value # 0
  BY RequestsAssumption DEF EntryInv, RowsNamed, Wrote
<1>2. \A f \in entries : f.id = e.id \/ f.value = e.value => f = e
  BY DEF EntryInv, RowsNamed
<1>3. Current(x)
  <2> SUFFICES ASSUME NEW op \in {"rotate", "delete", "callback"}, NEW q \in Accepted(op)
               PROVE  requests[q].seen # e.value
    BY DEF Current
  <2>1. q \in Requests /\ Replacing(requests[q])
    BY DEF Accepted, Done, Replacing
  <2>2. QED
    BY <2>1, <1>1 DEF EntryInv, Replaced
<1>4. QED
  BY <1>1, <1>2, <1>3 DEF Held

LEMMA ByNameRows ==
  ASSUME NEW name, NEW agent, NEW e \in ByName(name, agent)
  PROVE  e \in entries /\ e.name = name /\ (agent = None => e.agent = None)
<1>1. e \in Level(name, agent) \/ e \in Level(name, None)
  BY DEF ByName, First
<1>2. QED
  BY <1>1 DEF Level

LEMMA EntryIds ==
  ASSUME Typed, NEW e \in entries
  PROVE  e.id \in Nat /\ e.value \in Nat /\ e.id # 0 /\ e.value # 0 /\ e.name \in Names
<1>1. e.id \in Requests /\ e.value \in Requests /\ e.name \in Names
  BY DEF Typed, TypeOK, TablesOK, EntryRecords
<1>2. QED
  BY <1>1, RequestsAssumption

\* A request that comes and writes nothing but the other tables.
LEMMA CameQuiet ==
  ASSUME IInv, NEW r \in Requests, NEW y, NEW op, NEW x, Came(r, y, op, x), UNCHANGED entries, TablesOK',
         NEW provider,
         \A z \in asks' : z \in asks \/ (z = NewAsk(r, provider) /\ y.op = "ask" /\ y.ok),
         x.pc \notin {"new", "stored"}, op # "callback",
         x.ok => x.seen = 0, Holding(x) => x.seen # 0,
         x.seen = 0 \/ \E e \in entries :
           x.seen = e.value /\ (Holding(x) => x.row = e.id /\ x.name = e.name /\ e.agent = None)
  PROVE  IInv'
<1>1. /\ Moves(r, y) /\ y.before \subseteq Done /\ requests[r].pc = "new" /\ requests[r].op = "none"
      /\ y.op = op /\ y.pc = x.pc /\ y.ok = x.ok /\ y.seen = x.seen /\ y.row = x.row /\ y.name = x.name
  BY DEF Came, IInv, Typed, Placements, Placed
<1>2. ~Writer(requests[r]) /\ ~Replacing(requests[r]) /\ (Holding(y) <=> Holding(x))
      /\ (Replacing(y) => y.seen = 0)
  BY <1>1 DEF Writer, Replacing, Holding
<1>3. y.seen = 0 \/ (y.seen \in Wrote /\ Current(y))
  BY <1>1, RowRead DEF IInv
<1>4. Holding(y) => Held(y)
  BY <1>1, <1>2, RowRead DEF IInv
<1>5. QED
  BY <1>1, <1>2, <1>3, <1>4, QuietStep

LEMMA FindKeeps == ASSUME IInv, NEW r \in Requests, FindCredential(r) PROVE IInv'
<1>0. PICK name \in Names, op \in {"rotate", "delete"} : \E e \in ByName(name, None) :
        Begin(r, op, [NewReq EXCEPT !.pc = "found", !.name = name, !.row = e.id, !.seen = e.value])
  BY DEF FindCredential
<1>1. PICK e \in ByName(name, None) :
        Begin(r, op, [NewReq EXCEPT !.pc = "found", !.name = name, !.row = e.id, !.seen = e.value])
  BY <1>0
<1> DEFINE x == [NewReq EXCEPT !.pc = "found", !.name = name, !.row = e.id, !.seen = e.value]
<1>2. e \in entries /\ e.name = name /\ e.agent = None /\ e.id \in Nat /\ e.value \in Nat /\ e.value # 0
  BY ByNameRows, EntryIds DEF IInv
<1>3. x \in RequestRecords /\ Placed([x EXCEPT !.op = op])
  <2>1. x \in RequestRecords
    BY <1>2, NewReqTyped DEF RequestRecords, Labels
  <2>2. QED
    BY <1>2, <2>1 DEF NewReq, RequestRecords, Placed
<1>4. /\ x.pc = "found" /\ x.name = e.name /\ x.row = e.id /\ x.seen = e.value /\ ~x.ok
  BY <1>2 DEF NewReq
<1>5. Begin(r, op, x)
  BY <1>1
<1>6. op \in Ops \ {"none"} /\ Typed
  BY DEF Ops, IInv
<1> HIDE DEF x
<1>7. PICK y : Came(r, y, op, x)
  BY <1>3, <1>5, <1>6, BeginCame
<1>8. UNCHANGED stores /\ TablesOK'
  BY <1>6 DEF FindCredential, stores, Typed, TypeOK, TablesOK
<1>9. \E n \in Names : TRUE
  BY DEF Names
<1>10. QED
  BY <1>2, <1>4, <1>7, <1>8, <1>9, CameQuiet DEF stores

LEMMA CleanKeeps == ASSUME IInv, NEW r \in Requests, CleanUp(r) PROVE IInv'
<1>1. Begin(r, "ask", [NewReq EXCEPT !.pc = "cleaned"])
  BY DEF CleanUp
<1> DEFINE x == [NewReq EXCEPT !.pc = "cleaned"]
<1>3. x \in RequestRecords /\ Placed([x EXCEPT !.op = "ask"])
  <2>1. x \in RequestRecords
    BY NewReqTyped DEF RequestRecords, Labels, Names
  <2>2. QED
    BY <2>1 DEF NewReq, RequestRecords, Placed
<1>4. x.pc = "cleaned" /\ x.seen = 0 /\ ~x.ok /\ ~Holding(x)
  BY DEF NewReq, Holding
<1>5. Begin(r, "ask", x)
  BY <1>1
<1>6. "ask" \in Ops \ {"none"} /\ Typed
  BY DEF Ops, IInv
<1> HIDE DEF x
<1>7. PICK y : Came(r, y, "ask", x)
  BY <1>3, <1>5, <1>6, BeginCame
<1>8. asks' \subseteq asks /\ UNCHANGED <<entries, capabilities, waiting>> /\ "slack" \in Names
  BY DEF CleanUp, Pruned, Names
<1>9. TablesOK'
  BY <1>6, <1>8 DEF Typed, TypeOK, TablesOK
<1>10. QED
  BY <1>4, <1>7, <1>8, <1>9, CameQuiet

LEMMA AskUserKeeps == ASSUME IInv, NEW r \in Requests, AskUser(r) PROVE IInv'
<1>1. Begin(r, "ask", [NewReq EXCEPT !.pc = "done", !.ok = TRUE])
  BY DEF AskUser
<1> DEFINE x == [NewReq EXCEPT !.pc = "done", !.ok = TRUE]
<1>3. x \in RequestRecords /\ Placed([x EXCEPT !.op = "ask"])
  <2>1. x \in RequestRecords
    BY NewReqTyped DEF RequestRecords, Labels, Names
  <2>2. QED
    BY <2>1 DEF NewReq, RequestRecords, Placed
<1>4. x.pc = "done" /\ x.seen = 0 /\ x.ok /\ ~Holding(x)
  BY DEF NewReq, Holding
<1>5. Begin(r, "ask", x)
  BY <1>1
<1>6. "ask" \in Ops \ {"none"} /\ Typed
  BY DEF Ops, IInv
<1> HIDE DEF x
<1>7. PICK y : Came(r, y, "ask", x)
  BY <1>3, <1>5, <1>6, BeginCame
<1>8. asks' = asks \cup {NewAsk(r, "oauth")} /\ waiting' = waiting \cup {r}
      /\ UNCHANGED <<entries, capabilities>> /\ "oauth" \in Names
  BY DEF AskUser, Names
<1>9. TablesOK'
  <2>1. NewAsk(r, "oauth") \in AskRecords
    BY <1>8 DEF NewAsk, AskRecords
  <2>2. QED
    BY <1>6, <1>8, <2>1 DEF Typed, TypeOK, TablesOK
<1>10. y.op = "ask" /\ y.ok
  BY <1>4, <1>7 DEF Came
<1>11. QED
  BY <1>4, <1>7, <1>8, <1>9, <1>10, CameQuiet

LEMMA CreateKeeps == ASSUME IInv, NEW r \in Requests, CreateCapability(r) PROVE IInv'
<1>1. PICK agent \in Agents, tool \in Tools, name \in Names :
        /\ Begin(r, "create", [NewReq EXCEPT !.pc = "done", !.ok = ~Taken(agent, tool, r)])
        /\ capabilities' = capabilities \cup {c \in {NewCapability(r, agent, tool, name)} : ~Taken(agent, tool, r)}
  BY DEF CreateCapability
<1> DEFINE x == [NewReq EXCEPT !.pc = "done", !.ok = ~Taken(agent, tool, r)]
<1>2. Taken(agent, tool, r) \in BOOLEAN
  BY DEF Taken
<1>3. x \in RequestRecords /\ Placed([x EXCEPT !.op = "create"])
  <2>1. x \in RequestRecords
    BY <1>2, NewReqTyped DEF RequestRecords, Labels
  <2>2. QED
    BY <1>2, <2>1 DEF NewReq, RequestRecords, Placed
<1>4. x.pc = "done" /\ x.seen = 0 /\ ~Holding(x)
  BY DEF NewReq, Holding
<1>5. Begin(r, "create", x)
  BY <1>1
<1>6. "create" \in Ops \ {"none"} /\ Typed
  BY DEF Ops, IInv
<1> HIDE DEF x
<1>7. PICK y : Came(r, y, "create", x)
  BY <1>3, <1>5, <1>6, BeginCame
<1>8. UNCHANGED <<entries, asks, waiting>> /\ "oauth" \in Names
  BY DEF CreateCapability, Names
<1>9. TablesOK'
  <2>1. NewCapability(r, agent, tool, name) \in CapabilityRecords
    BY DEF NewCapability, CapabilityRecords
  <2>2. capabilities' \subseteq CapabilityRecords
    BY <1>1, <1>6, <2>1 DEF Typed, TypeOK, TablesOK
  <2>3. QED
    BY <1>6, <1>8, <2>2 DEF Typed, TypeOK, TablesOK
<1>10. QED
  BY <1>4, <1>7, <1>8, <1>9, CameQuiet

LEMMA ResolveKeeps == ASSUME IInv, NEW r \in Requests, ResolveCapability(r) PROVE IInv'
<1>1. PICK c \in capabilities, op \in {"update", "remove"} :
        Begin(r, op, [NewReq EXCEPT !.pc = "resolved", !.name = c.name, !.row = c.id])
  BY DEF ResolveCapability
<1> DEFINE x == [NewReq EXCEPT !.pc = "resolved", !.name = c.name, !.row = c.id]
<1>2. c.id \in Nat /\ c.name \in Tools
  BY RequestsAssumption DEF IInv, Typed, TypeOK, TablesOK, CapabilityRecords
<1>3. x \in RequestRecords /\ Placed([x EXCEPT !.op = op])
  <2>1. x \in RequestRecords
    BY <1>2, NewReqTyped DEF RequestRecords, Labels
  <2>2. QED
    BY <1>2, <2>1 DEF NewReq, RequestRecords, Placed
<1>4. x.pc = "resolved" /\ x.seen = 0 /\ ~x.ok /\ ~Holding(x)
  BY DEF NewReq, Holding
<1>5. Begin(r, op, x)
  BY <1>1
<1>6. op \in Ops \ {"none"} /\ Typed
  BY DEF Ops, IInv
<1> HIDE DEF x
<1>7. PICK y : Came(r, y, op, x)
  BY <1>3, <1>5, <1>6, BeginCame
<1>8. UNCHANGED stores /\ "oauth" \in Names
  BY DEF ResolveCapability, Names
<1>9. TablesOK'
  BY <1>6, <1>8 DEF stores, Typed, TypeOK, TablesOK
<1>10. op # "callback"
  OBVIOUS
<1>11. QED
  BY <1>4, <1>7, <1>8, <1>9, <1>10, CameQuiet DEF stores

LEMMA LoadKeeps == ASSUME IInv, NEW r \in Requests, LoadCapability(r) PROVE IInv'
<1>1. PICK c \in capabilities :
        Begin(r, "use", [NewReq EXCEPT !.pc = "loaded", !.agent = c.agent, !.name = c.uses])
  BY DEF LoadCapability
<1> DEFINE x == [NewReq EXCEPT !.pc = "loaded", !.agent = c.agent, !.name = c.uses]
<1>2. c.agent \in Agents /\ c.uses \in Names
  BY DEF IInv, Typed, TypeOK, TablesOK, CapabilityRecords
<1>3. x \in RequestRecords /\ Placed([x EXCEPT !.op = "use"])
  <2>1. x \in RequestRecords
    BY <1>2, NewReqTyped DEF RequestRecords, Labels
  <2>2. QED
    BY <1>2, <2>1 DEF NewReq, RequestRecords, Placed
<1>4. x.pc = "loaded" /\ x.seen = 0 /\ ~x.ok /\ ~Holding(x)
  BY DEF NewReq, Holding
<1>5. Begin(r, "use", x)
  BY <1>1
<1>6. "use" \in Ops \ {"none"} /\ Typed
  BY DEF Ops, IInv
<1> HIDE DEF x
<1>7. PICK y : Came(r, y, "use", x)
  BY <1>3, <1>5, <1>6, BeginCame
<1>8. UNCHANGED stores /\ "oauth" \in Names
  BY DEF LoadCapability, Names
<1>9. TablesOK'
  BY <1>6, <1>8 DEF stores, Typed, TypeOK, TablesOK
<1>10. QED
  BY <1>4, <1>7, <1>8, <1>9, CameQuiet DEF stores

LEMMA ReadValueKeeps == ASSUME IInv, NEW r \in Requests, ReadValue(r) PROVE IInv'
<1>0. PICK name \in Names : \E e \in ByName(name, None) :
        Begin(r, "use", [NewReq EXCEPT !.pc = "read", !.name = name, !.seen = e.value])
  BY DEF ReadValue
<1>1. PICK e \in ByName(name, None) :
        Begin(r, "use", [NewReq EXCEPT !.pc = "read", !.name = name, !.seen = e.value])
  BY <1>0
<1> DEFINE x == [NewReq EXCEPT !.pc = "read", !.name = name, !.seen = e.value]
<1>2. e \in entries /\ e.value \in Nat
  BY ByNameRows, EntryIds DEF IInv
<1>3. x \in RequestRecords /\ Placed([x EXCEPT !.op = "use"])
  <2>1. x \in RequestRecords
    BY <1>2, NewReqTyped DEF RequestRecords, Labels
  <2>2. QED
    BY <1>2, <2>1 DEF NewReq, RequestRecords, Placed
<1>4. x.pc = "read" /\ x.seen = e.value /\ ~x.ok /\ ~Holding(x)
  BY DEF NewReq, Holding
<1>5. Begin(r, "use", x)
  BY <1>1
<1>6. "use" \in Ops \ {"none"} /\ Typed
  BY DEF Ops, IInv
<1> HIDE DEF x
<1>7. PICK y : Came(r, y, "use", x)
  BY <1>3, <1>5, <1>6, BeginCame
<1>8. UNCHANGED stores
  BY DEF ReadValue
<1>9. TablesOK'
  BY <1>6, <1>8 DEF stores, Typed, TypeOK, TablesOK
<1>10. QED
  BY <1>2, <1>4, <1>7, <1>8, <1>9, CameQuiet DEF stores

\* A request under way that writes nothing but the other tables.
LEMMA UnderWayQuiet ==
  ASSUME IInv, NEW r \in Requests, NEW y, Moves(r, y), Keeps(y, requests[r]), UNCHANGED entries, TablesOK',
         \A x \in asks' : x \in asks \/ (x = NewAsk(r, "slack") /\ y.op = "ask" /\ y.ok),
         requests[r].pc # "new", y.pc \notin {"new", "stored"}, Writer(requests[r]) => Writer(y),
         y.op = "callback" =>
           y.pc \in {"looked", "done"} /\ (y.ok => requests[r].pc = "completed"),
         \/ y.seen = requests[r].seen /\ ~Holding(y)
            /\ (y.op \in {"rotate", "delete"} => ~y.ok)
         \/ y.seen # 0 /\ Current(y) /\ y.seen \in Wrote /\ (Holding(y) => Held(y)) /\ ~Replacing(y)
  PROVE  IInv'
<1>1. y.before = requests[r].before /\ y.name = requests[r].name /\ y.op = requests[r].op
  BY DEF Keeps
<1>2. y.op = "callback" => Answers(y, requests[r])
  BY DEF Keeps, Answers
<1>3. y.seen = 0 \/ y.seen \in Wrote
  BY DEF IInv, EntryInv, SeenWritten
<1>4. Replacing(y) => y.seen = 0 \/ (Replacing(requests[r]) /\ y.seen = requests[r].seen)
  BY <1>1 DEF Replacing, IInv, Typed, Placements, Placed
<1>5. y.op = "use" /\ y.seen # 0 => Current(y)
  BY <1>1 DEF IInv, EntryInv, RetiredStaysRetired, Current
<1>6. "slack" \in Names
  BY DEF Names
<1>7. QED
  BY <1>1, <1>2, <1>3, <1>4, <1>5, <1>6, QuietStep

\* What is known of a request that is at a point of its program.
LEMMA Under ==
  ASSUME IInv, NEW r \in Requests
  PROVE  /\ Typed /\ TablesOK /\ requests[r] \in RequestRecords /\ Placed(requests[r])
         /\ UNCHANGED stores => TablesOK'
BY DEF IInv, Typed, TypeOK, Placements, TablesOK, stores

LEMMA StopKeeps == ASSUME IInv, NEW r \in Requests, Stop(r) PROVE IInv'
<1>1. PICK y : /\ Moves(r, y) /\ y.op = requests[r].op /\ y.before = requests[r].before
               /\ y.name = requests[r].name
               /\ y.pc = "done" /\ ~y.ok /\ y.ask = 0 /\ y.seen = 0
  BY Under, StopMoves
<1>2. UNCHANGED stores /\ TablesOK' /\ "slack" \in Names
  BY Under DEF Stop, Names
<1>3. ~Holding(y) /\ ~Replacing(y) /\ Writer(y) /\ Answers(y, requests[r])
  BY <1>1 DEF Holding, Replacing, Writer, Answers
<1>4. QED
  BY <1>1, <1>2, <1>3, QuietStep DEF stores

LEMMA InstallKeeps == ASSUME IInv, NEW r \in Requests, StartInstall(r) PROVE IInv'
<1>1. requests[r].op = "ask" /\ requests[r].pc = "cleaned" /\ Finish(r)
      /\ asks' = asks \cup {NewAsk(r, "slack")} /\ UNCHANGED <<entries, capabilities, waiting>>
  BY DEF StartInstall, At
<1>2. PICK y : /\ Moves(r, y) /\ Keeps(y, requests[r]) /\ y.pc = "done" /\ y.ok
               /\ y.seen = requests[r].seen
  BY <1>1, Under, FinishMoves
<1>3. TablesOK'
  <2>1. NewAsk(r, "slack") \in AskRecords
    BY DEF NewAsk, AskRecords, Names
  <2>2. QED
    BY <1>1, <2>1, Under DEF TablesOK
<1>4. y.op = "ask" /\ ~Holding(y) /\ Writer(y)
  BY <1>1, <1>2 DEF Holding, Keeps, Writer
<1>5. QED
  BY <1>1, <1>2, <1>3, <1>4, UnderWayQuiet

LEMMA LookupKeeps == ASSUME IInv, NEW r \in Requests, LookupExisting(r) PROVE IInv'
<1>1. /\ requests[r].op = "callback" /\ requests[r].pc = "granted" /\ requests[r].name \in Names
      /\ requests[r].row = 0 /\ ~Writer(requests[r]) /\ ~requests[r].ok
  BY Under DEF LookupExisting, At, Placed, Writer
<1>2. UNCHANGED stores /\ TablesOK'
  BY Under DEF LookupExisting
<1>3. CASE Goto(r, "looked")
  <2>1. Placed([requests[r] EXCEPT !.pc = "looked"])
    BY <1>1, Under DEF Placed, RequestRecords
  <2>2. PICK y : /\ Moves(r, y) /\ Keeps(y, requests[r]) /\ y.pc = "looked" /\ y.ok = requests[r].ok
                 /\ y.row = requests[r].row /\ y.seen = requests[r].seen
    BY <1>1, <1>3, <2>1, Under, GotoMoves DEF Labels
  <2>3. ~Holding(y) /\ y.op = "callback"
    BY <1>1, <2>2 DEF Holding, Keeps
  <2>4. QED
    BY <1>1, <1>2, <2>2, <2>3, UnderWayQuiet DEF stores
<1>4. ASSUME NEW e \in Existing(requests[r].name),
             requests' = [requests EXCEPT ![r].pc = "looked", ![r].row = e.id, ![r].seen = e.value]
      PROVE  IInv'
  <2> DEFINE y == [requests[r] EXCEPT !.pc = "looked", !.row = e.id, !.seen = e.value]
  <2>1. e \in entries /\ e.name = requests[r].name /\ e.agent = None
    BY ByNameRows DEF Existing
  <2>2. e.id \in Nat /\ e.value \in Nat /\ e.id # 0
    BY <2>1, EntryIds, Under
  <2>3. y \in RequestRecords /\ requests' = [requests EXCEPT ![r] = y]
    BY <1>4, <2>2, Under DEF RequestRecords, Labels, Typed, TypeOK
  <2>4. Keeps(y, requests[r]) /\ y.pc = "looked" /\ y.ok = requests[r].ok
        /\ y.row = e.id /\ y.seen = e.value /\ y.name = requests[r].name /\ y.op = "callback"
    BY <1>1, Under DEF RequestRecords, Keeps
  <2>5. Placed(y)
    BY <1>1, <2>2, <2>4, Under DEF Placed, Keeps
  <2> HIDE DEF y
  <2>6. Moves(r, y)
    BY <1>1, <2>3, <2>5, Under, MovesTyped
  <2>7. y.seen # 0 /\ Current(y) /\ y.seen \in Wrote /\ Held(y)
    BY <2>1, <2>4, RowRead DEF IInv
  <2>8. ~Replacing(y) /\ ~y.ok
    BY <1>1, <2>4 DEF Replacing
  <2>9. QED
    BY <1>1, <1>2, <2>4, <2>6, <2>7, <2>8, UnderWayQuiet DEF stores
<1>5. QED
  BY <1>3, <1>4 DEF LookupExisting

LEMMA ResumeKeeps == ASSUME IInv, NEW r \in Requests, ResumeRun(r) PROVE IInv'
<1>1. /\ requests[r].op = "callback" /\ requests[r].pc = "completed" /\ Finish(r)
      /\ waiting' \subseteq waiting /\ UNCHANGED <<entries, capabilities, asks>>
  BY DEF ResumeRun, At
<1>2. PICK y : /\ Moves(r, y) /\ Keeps(y, requests[r]) /\ y.pc = "done" /\ y.ok
               /\ y.seen = requests[r].seen
  BY <1>1, Under, FinishMoves
<1>3. TablesOK'
  BY <1>1, Under DEF TablesOK
<1>4. y.op = "callback" /\ ~Holding(y) /\ Writer(y)
  BY <1>1, <1>2 DEF Holding, Keeps, Writer
<1>5. QED
  BY <1>1, <1>2, <1>3, <1>4, UnderWayQuiet

LEMMA UpdateKeeps == ASSUME IInv, NEW r \in Requests, UpdateCapability(r) PROVE IInv'
<1>1. PICK tool \in Tools, name \in Names :
        LET left == {c \in capabilities : c.id = requests[r].row /\ ~Taken(c.agent, tool, c.id)}
        IN  /\ capabilities' = (capabilities \ left) \cup
                 {[c EXCEPT !.name = tool, !.uses = name] : c \in left}
            /\ requests' = [requests EXCEPT ![r].pc = "done", ![r].ok = left # {}]
  BY DEF UpdateCapability
<1> DEFINE left == {c \in capabilities : c.id = requests[r].row /\ ~Taken(c.agent, tool, c.id)}
           y == [requests[r] EXCEPT !.pc = "done", !.ok = left # {}]
           named(c) == [c EXCEPT !.name = tool, !.uses = name]
<1>2. requests[r].op = "update" /\ requests[r].pc = "resolved" /\ UNCHANGED <<entries, asks, waiting>>
  BY DEF UpdateCapability, At
<1>3. TablesOK'
  <2>1. left \subseteq capabilities /\ capabilities \subseteq CapabilityRecords
    BY Under DEF TablesOK
  <2>2. \A c \in CapabilityRecords : named(c) \in CapabilityRecords
    BY DEF CapabilityRecords
  <2>3. capabilities' = (capabilities \ left) \cup {named(c) : c \in left}
    BY <1>1
  <2> HIDE DEF left, named
  <2>4. capabilities' \subseteq CapabilityRecords
    BY <2>1, <2>2, <2>3
  <2>5. QED
    BY <1>2, <2>4, Under DEF TablesOK
<1>4. requests' = [requests EXCEPT ![r] = y]
  BY <1>1
<1> HIDE DEF left
<1>5. y \in RequestRecords /\ Keeps(y, requests[r]) /\ y.pc = "done" /\ y.seen = requests[r].seen
  <2>1. requests[r] \in RequestRecords /\ (left # {}) \in BOOLEAN
    BY Under
  <2>2. y \in RequestRecords
    BY <2>1 DEF RequestRecords, Labels
  <2>3. QED
    BY <2>1, <2>2 DEF RequestRecords, Keeps
<1> HIDE DEF y
<1>6. Placed(y) /\ ~Holding(y) /\ Writer(y) /\ y.op = "update"
  BY <1>2, <1>5 DEF Placed, Holding, Writer, Keeps
<1>7. Moves(r, y)
  BY <1>2, <1>4, <1>5, <1>6, Under, MovesTyped
<1>8. QED
  BY <1>2, <1>3, <1>5, <1>6, <1>7, UnderWayQuiet

LEMMA RemoveKeeps == ASSUME IInv, NEW r \in Requests, RemoveCapability(r) PROVE IInv'
<1> DEFINE y == [requests[r] EXCEPT !.pc = "done", !.ok = TRUE]
<1>1. /\ requests[r].op = "remove" /\ requests[r].pc = "resolved" /\ UNCHANGED <<entries, asks, waiting>>
      /\ capabilities' \subseteq capabilities /\ requests' = [requests EXCEPT ![r] = y]
  BY DEF RemoveCapability, At
<1>2. TablesOK'
  BY <1>1, Under DEF TablesOK
<1>3. y \in RequestRecords /\ Keeps(y, requests[r]) /\ y.pc = "done" /\ y.seen = requests[r].seen
  <2>1. requests[r] \in RequestRecords
    BY Under
  <2>2. y \in RequestRecords
    BY <2>1 DEF RequestRecords, Labels
  <2>3. QED
    BY <2>1, <2>2 DEF RequestRecords, Keeps
<1> HIDE DEF y
<1>4. Placed(y) /\ ~Holding(y) /\ Writer(y) /\ y.op = "remove"
  BY <1>1, <1>3 DEF Placed, Holding, Writer, Keeps
<1>5. Moves(r, y)
  BY <1>1, <1>3, <1>4, Under, MovesTyped
<1>6. QED
  BY <1>1, <1>2, <1>3, <1>4, <1>5, UnderWayQuiet

LEMMA FetchKeeps == ASSUME IInv, NEW r \in Requests, FetchCredential(r) PROVE IInv'
<1>1. /\ requests[r].op = "use" /\ requests[r].pc = "loaded" /\ requests[r].seen = 0 /\ ~requests[r].ok
      /\ requests[r].name \in Names /\ ~Writer(requests[r])
  BY Under DEF FetchCredential, At, Placed, Writer
<1>2. UNCHANGED stores /\ TablesOK'
  BY Under DEF FetchCredential
<1>3. CASE requests' = [requests EXCEPT ![r].pc = "done"]
  <2>1. Placed([requests[r] EXCEPT !.pc = "done"])
    BY <1>1, Under DEF Placed, RequestRecords
  <2>2. PICK y : /\ Moves(r, y) /\ Keeps(y, requests[r]) /\ y.pc = "done" /\ y.ok = requests[r].ok
                 /\ y.row = requests[r].row /\ y.seen = requests[r].seen
    BY <1>1, <1>3, <2>1, Under, GotoMoves DEF Labels, Goto
  <2>3. ~Holding(y) /\ y.op = "use"
    BY <1>1, <2>2 DEF Holding, Keeps
  <2>4. QED
    BY <1>1, <1>2, <2>2, <2>3, UnderWayQuiet DEF stores
<1>4. ASSUME NEW e \in ByName(requests[r].name, requests[r].agent),
             requests' = [requests EXCEPT ![r].pc = "read", ![r].seen = e.value]
      PROVE  IInv'
  <2> DEFINE y == [requests[r] EXCEPT !.pc = "read", !.seen = e.value]
  <2>1. e \in entries /\ e.value \in Nat
    BY ByNameRows, EntryIds, Under
  <2>2. y \in RequestRecords /\ requests' = [requests EXCEPT ![r] = y]
    BY <1>4, <2>1, Under DEF RequestRecords, Labels, Typed, TypeOK
  <2>3. Keeps(y, requests[r]) /\ y.pc = "read" /\ y.seen = e.value /\ y.op = "use" /\ y.ok = requests[r].ok
    BY <1>1, Under DEF RequestRecords, Keeps
  <2> HIDE DEF y
  <2>4. Placed(y) /\ ~Holding(y) /\ ~Replacing(y)
    BY <1>1, <2>3 DEF Placed, Holding, Replacing
  <2>5. Moves(r, y)
    BY <1>1, <2>2, <2>4, Under, MovesTyped
  <2>6. y.seen # 0 /\ Current(y) /\ y.seen \in Wrote
    BY <2>1, <2>3, RowRead DEF IInv
  <2>7. QED
    BY <1>1, <1>2, <2>3, <2>4, <2>5, <2>6, UnderWayQuiet DEF stores
<1>5. QED
  BY <1>3, <1>4 DEF FetchCredential

LEMMA SendKeeps == ASSUME IInv, NEW r \in Requests, SendRequest(r) PROVE IInv'
<1>1. requests[r].op = "use" /\ requests[r].pc = "read" /\ Finish(r) /\ UNCHANGED stores /\ TablesOK'
  BY Under DEF SendRequest, At
<1>2. PICK y : /\ Moves(r, y) /\ Keeps(y, requests[r]) /\ y.pc = "done" /\ y.ok
               /\ y.seen = requests[r].seen
  BY <1>1, Under, FinishMoves
<1>3. y.op = "use" /\ ~Holding(y) /\ Writer(y)
  BY <1>1, <1>2 DEF Holding, Keeps, Writer
<1>4. QED
  BY <1>1, <1>2, <1>3, UnderWayQuiet DEF stores

\* Steps that write the entries.
LEMMA WriteStep ==
  ASSUME IInv, NEW r \in Requests, NEW y, Moves(r, y), EntryInv', Stays(y),
         \E T : entries' \subseteq EntryRecords(T), UNCHANGED <<capabilities, asks, waiting>>,
         y.pc # "new",
         \/ y.before = requests[r].before /\ y.name = requests[r].name
         \/ requests[r].pc = "new" /\ y.before \subseteq Done,
         y.op = "callback" => Answers(y, requests[r]),
         y.pc = "stored" => Level(y.name, None)' # {} \/ (Deleted(y.name, y.before))'
  PROVE  IInv'
<1>1. TablesOK'
  BY Under DEF TablesOK
<1>2. "slack" \in Names
  BY DEF Names
<1>3. AskInv'
  BY <1>2, AskQuiet DEF IInv
<1>4. QED
  BY <1>1, <1>3, StepIInv

LEMMA SetKeeps == ASSUME IInv, NEW r \in Requests, SetCredential(r) PROVE IInv'
<1>1. PICK name \in Names, kind \in Kinds, agent \in Agents \cup {None} :
        /\ Begin(r, "set", [NewReq EXCEPT !.pc = "done", !.ok = Allowed(kind)])
        /\ IF Allowed(kind) THEN Insert(r, name, agent) ELSE UNCHANGED entries
        /\ UNCHANGED <<capabilities, asks, waiting>>
  BY DEF SetCredential
<1> DEFINE x == [NewReq EXCEPT !.pc = "done", !.ok = Allowed(kind)]
<1>2. x \in RequestRecords /\ Placed([x EXCEPT !.op = "set"])
  <2>1. Allowed(kind) \in BOOLEAN
    BY DEF Allowed
  <2>2. x \in RequestRecords
    BY <2>1, NewReqTyped DEF RequestRecords, Labels
  <2>3. QED
    BY <2>2 DEF NewReq, RequestRecords, Placed
<1>3. x.pc = "done" /\ x.seen = 0 /\ ~Holding(x)
  BY DEF NewReq, Holding
<1>4. Begin(r, "set", x)
  BY <1>1
<1>5. "set" \in Ops \ {"none"} /\ Typed
  BY DEF Ops, IInv
<1> HIDE DEF x
<1>6. PICK y : Came(r, y, "set", x)
  BY <1>2, <1>4, <1>5, BeginCame
<1>7. CASE Allowed(kind)
  <2>1. /\ Moves(r, y) /\ y.seen = 0 /\ y.op = "set" /\ ~Holding(y) /\ Writer(y) /\ y.pc = "done"
        /\ y.before \subseteq Done /\ requests[r].pc = "new"
    BY <1>3, <1>6 DEF Came, Holding, Writer
  <2>2. r \notin Wrote
    BY <2>1, Under DEF Wrote, Placed
  <2>3. EntryInv' /\ Stays(y) /\ \E T : entries' \subseteq EntryRecords(T)
    BY <1>1, <1>7, <2>1, <2>2, InsertWrites DEF IInv
  <2>4. QED
    BY <1>1, <2>1, <2>3, WriteStep
<1>8. CASE ~Allowed(kind)
  <2>1. UNCHANGED entries /\ TablesOK'
    BY <1>1, <1>8, Under DEF TablesOK
  <2>2. QED
    BY <1>1, <1>3, <1>6, <2>1, CameQuiet
<1>9. QED
  BY <1>7, <1>8

LEMMA RotateKeeps == ASSUME IInv, NEW r \in Requests, Rotate(r) PROVE IInv'
<1>1. /\ requests[r].op = "rotate" /\ requests[r].pc = "found" /\ Finish(r)
      /\ entries' = Overwritten(requests[r].row, r) /\ UNCHANGED <<capabilities, asks, waiting>>
  BY DEF Rotate, At
<1>2. PICK y : /\ Moves(r, y) /\ Keeps(y, requests[r]) /\ y.pc = "done" /\ y.ok
               /\ y.seen = requests[r].seen
  BY <1>1, Under, FinishMoves
<1>3. y.op = "rotate" /\ ~Holding(y) /\ Writer(y) /\ Holding(requests[r]) /\ r \notin Wrote
      /\ y.name = requests[r].name /\ y.before = requests[r].before
  BY <1>1, <1>2 DEF Holding, Keeps, Writer, Wrote
<1>4. EntryInv' /\ Stays(y) /\ \E T : entries' \subseteq EntryRecords(T)
  BY <1>1, <1>2, <1>3, OverwriteWrites DEF IInv
<1>5. QED
  BY <1>1, <1>2, <1>3, <1>4, WriteStep

LEMMA DeleteKeeps == ASSUME IInv, NEW r \in Requests, Delete(r) PROVE IInv'
<1>1. /\ requests[r].op = "delete" /\ requests[r].pc = "found" /\ Finish(r)
      /\ entries' = {e \in entries : e.id # requests[r].row} /\ UNCHANGED <<capabilities, asks, waiting>>
  BY DEF Delete, At
<1>2. PICK y : /\ Moves(r, y) /\ Keeps(y, requests[r]) /\ y.pc = "done" /\ y.ok
               /\ y.seen = requests[r].seen
  BY <1>1, Under, FinishMoves
<1>3. y.op = "delete" /\ ~Holding(y) /\ Writer(y) /\ Holding(requests[r]) /\ r \notin Wrote
      /\ y.name = requests[r].name /\ y.before = requests[r].before
  BY <1>1, <1>2 DEF Holding, Keeps, Writer, Wrote
<1>4. EntryInv' /\ Stays(y) /\ \E T : entries' \subseteq EntryRecords(T)
  BY <1>1, <1>2, <1>3, DeleteWrites DEF IInv
<1>5. QED
  BY <1>1, <1>2, <1>3, <1>4, WriteStep

LEMMA StoreKeeps == ASSUME IInv, NEW r \in Requests, StoreToken(r) PROVE IInv'
<1>1. /\ requests[r].op = "callback" /\ requests[r].pc = "looked" /\ UNCHANGED <<capabilities, asks, waiting>>
      /\ requests[r].name \in Names /\ ~requests[r].ok /\ (requests[r].row = 0 => requests[r].seen = 0)
      /\ requests[r].ask # 0
  BY Under DEF StoreToken, At, Placed
<1>2. r \notin Wrote /\ ~Writer(requests[r])
  BY <1>1 DEF Wrote, Writer
<1>3. ASSUME Goto(r, "stored")
      PROVE  \E y : /\ Moves(r, y) /\ y.op = "callback" /\ y.pc = "stored" /\ ~y.ok /\ Writer(y)
                    /\ ~Holding(y) /\ y.seen = requests[r].seen /\ y.name = requests[r].name
                    /\ y.before = requests[r].before /\ Answers(y, requests[r])
  <2>1. Placed([requests[r] EXCEPT !.pc = "stored"])
    BY <1>1, Under DEF Placed, RequestRecords
  <2>2. PICK y : /\ Moves(r, y) /\ Keeps(y, requests[r]) /\ y.pc = "stored" /\ y.ok = requests[r].ok
                 /\ y.row = requests[r].row /\ y.seen = requests[r].seen
    BY <1>1, <1>3, <2>1, Under, GotoMoves DEF Labels
  <2>3. QED
    BY <1>1, <2>2 DEF Keeps, Writer, Holding, Answers
<1>4. CASE requests[r].row # 0 /\ entries' = Overwritten(requests[r].row, r) /\ Goto(r, "stored")
  <2>1. PICK y : /\ Moves(r, y) /\ y.op = "callback" /\ y.pc = "stored" /\ ~y.ok /\ Writer(y)
                 /\ ~Holding(y) /\ y.seen = requests[r].seen /\ y.name = requests[r].name
                 /\ y.before = requests[r].before /\ Answers(y, requests[r])
    BY <1>3, <1>4
  <2>2. Holding(requests[r])
    BY <1>1, <1>4 DEF Holding
  <2>3. /\ EntryInv' /\ Stays(y) /\ \E T : entries' \subseteq EntryRecords(T)
        /\ Level(y.name, None)' # {} \/ Deleted(requests[r].name, requests[r].before)
    BY <1>1, <1>2, <1>4, <2>1, <2>2, OverwriteWrites DEF IInv
  <2>4. Level(y.name, None)' # {} \/ (Deleted(y.name, y.before))'
    <3>1. y.before \in SUBSET Done
      BY <2>1 DEF IInv, Past
    <3>2. Deleted(y.name, y.before) => Level(y.name, None)' # {} \/ (Deleted(y.name, y.before))'
      BY <2>1, <2>3, <3>1, DeletedStays DEF IInv
    <3>3. QED
      BY <2>1, <2>3, <3>2
  <2>5. QED
    BY <1>1, <2>1, <2>3, <2>4, WriteStep
<1>5. CASE requests[r].row = 0 /\ Insert(r, requests[r].name, None) /\ Goto(r, "stored")
  <2>1. PICK y : /\ Moves(r, y) /\ y.op = "callback" /\ y.pc = "stored" /\ ~y.ok /\ Writer(y)
                 /\ ~Holding(y) /\ y.seen = requests[r].seen /\ y.name = requests[r].name
                 /\ y.before = requests[r].before /\ Answers(y, requests[r])
    BY <1>3, <1>5
  <2>2. Insert(r, y.name, None) /\ y.name \in Names /\ y.seen = 0
    BY <1>1, <1>5, <2>1
  <2>3. /\ EntryInv' /\ Stays(y) /\ \E T : entries' \subseteq EntryRecords(T)
        /\ Level(y.name, None)' # {}
    BY <1>2, <2>1, <2>2, InsertWrites DEF IInv
  <2>4. QED
    BY <1>1, <2>1, <2>3, WriteStep
<1>6. CASE requests' = [requests EXCEPT ![r].pc = "done"] /\ UNCHANGED entries
  <2>1. Placed([requests[r] EXCEPT !.pc = "done"])
    BY <1>1, Under DEF Placed, RequestRecords
  <2>2. PICK y : /\ Moves(r, y) /\ Keeps(y, requests[r]) /\ y.pc = "done" /\ y.ok = requests[r].ok
                 /\ y.row = requests[r].row /\ y.seen = requests[r].seen
    BY <1>1, <1>6, <2>1, Under, GotoMoves DEF Labels, Goto
  <2>3. ~Holding(y) /\ y.op = "callback"
    BY <1>1, <2>2 DEF Holding, Keeps
  <2>4. TablesOK'
    BY <1>1, <1>6, Under DEF TablesOK
  <2>5. QED
    BY <1>1, <1>2, <1>6, <2>2, <2>3, <2>4, UnderWayQuiet
<1>7. QED
  BY <1>4, <1>5, <1>6 DEF StoreToken

LEMMA ReadAskKeeps == ASSUME IInv, NEW r \in Requests, ReadAsk(r) PROVE IInv'
<1>1. PICK a \in asks, slack \in BOOLEAN :
        /\ Answerable(a)
        /\ Begin(r, "callback",
                 [NewReq EXCEPT !.pc = "granted", !.ask = a.id,
                    !.name = IF slack THEN "slack" ELSE NameFor(a),
                    !.kind = IF slack THEN "oauth2" ELSE "delegated_user_token"])
  BY DEF ReadAsk
<1> DEFINE k == IF slack THEN "oauth2" ELSE "delegated_user_token"
           m == IF slack THEN "slack" ELSE NameFor(a)
           x == [NewReq EXCEPT !.pc = "granted", !.ask = a.id, !.name = m, !.kind = k]
<1>2. UNCHANGED stores /\ TablesOK'
  BY Under DEF ReadAsk
<1>3. a.by = None /\ m \in Names /\ a.id \in Nat /\ a.id # 0 /\ a.id \in Accepted("ask")
  <2>1. a.id \in Requests
    BY DEF IInv, Typed, TypeOK, TablesOK, AskRecords
  <2>2. m \in Names
    BY DEF Names, NameFor
  <2>3. QED
    BY <1>1, <2>1, <2>2, RequestsAssumption DEF Answerable, Open, IInv, AskInv, AsksNamed
<1>4. x \in RequestRecords /\ Placed([x EXCEPT !.op = "callback"])
  <2>1. k \in {"oauth2", "delegated_user_token"}
    OBVIOUS
  <2> HIDE DEF k, m
  <2>2. x \in RequestRecords
    BY <1>3, <2>1, NewReqTyped DEF RequestRecords, Labels, Kinds
  <2>3. QED
    BY <1>3, <2>2 DEF NewReq, RequestRecords, Placed
<1>5. x.pc = "granted" /\ x.seen = 0 /\ ~x.ok /\ x.ask = a.id
  BY DEF NewReq
<1>6. Begin(r, "callback", x)
  BY <1>1
<1>7. "callback" \in Ops \ {"none"} /\ Typed
  BY DEF Ops, IInv
<1> HIDE DEF x
<1>8. PICK y : Came(r, y, "callback", x)
  BY <1>4, <1>6, <1>7, BeginCame
<1>9. /\ Moves(r, y) /\ requests[r].pc = "new" /\ y.op = "callback" /\ y.before \subseteq Done
      /\ y.pc = "granted" /\ ~y.ok /\ y.ask = a.id /\ y.seen = 0
  BY <1>5, <1>8 DEF Came
<1>10. ~Writer(requests[r]) /\ ~Holding(y)
  BY <1>9, Under DEF Writer, Holding, Placed
<1>11. EntryInv'
  BY <1>2, <1>9, <1>10, EntryQuiet DEF IInv, stores
<1>12. AskInv'
  <2>1. \A z \in asks' : z \in asks
    BY <1>2 DEF stores
  <2>2. \A z \in asks : \A w \in asks : z.id = w.id => z = w
    BY DEF IInv, AskInv, AsksNamed
  <2>3. \A z \in asks' : Followed(z, r, y)
    BY <2>1 DEF Followed
  <2>4. ASSUME NEW q \in Accepted("callback"), requests[q].ask = y.ask PROVE FALSE
    <3>1. q \in Requests /\ requests[q].op = "callback" /\ requests[q].ok
      BY DEF Accepted, Done
    <3>2. QED
      BY <1>3, <1>9, <2>4, <3>1 DEF IInv, AskInv, Answering, Op
  <2>5. Stays(y)
    BY <1>2 DEF stores, Stays, Level
  <2>7. \A z, w \in asks' : z.id = w.id => z = w
    BY <2>1, <2>2
  <2>8. QED
    BY <1>3, <1>9, <2>3, <2>4, <2>5, <2>7, AskStep DEF IInv
<1>13. QED
  BY <1>2, <1>9, <1>11, <1>12, StepIInv

LEMMA MarkKeeps == ASSUME IInv, NEW r \in Requests, MarkCompleted(r) PROVE IInv'
<1>1. /\ requests[r].op = "callback" /\ requests[r].pc = "stored"
      /\ (Goto(r, "completed") \/ Finish(r)) /\ UNCHANGED <<entries, capabilities, waiting>>
      /\ requests[r].name \in Names /\ ~requests[r].ok /\ requests[r].ask # 0
  BY Under DEF MarkCompleted, At, Placed
<1>2. UNCHANGED <<entries, capabilities, waiting>>
      /\ asks' = {IF x.id = requests[r].ask THEN [x EXCEPT !.by = r] ELSE x : x \in asks}
  BY DEF MarkCompleted
<1>3. \E y : /\ Moves(r, y) /\ Keeps(y, requests[r]) /\ y.seen = requests[r].seen
             /\ y.pc \in {"completed", "done"}
  <2>1. CASE Goto(r, "completed")
    <3>1. Placed([requests[r] EXCEPT !.pc = "completed"])
      BY <1>1, Under DEF Placed, RequestRecords
    <3>2. "completed" \in Labels /\ requests[r].pc \notin {"new", "done"} /\ Typed
      BY <1>1, Under DEF Labels
    <3>3. PICK y : /\ Moves(r, y) /\ Keeps(y, requests[r]) /\ y.pc = "completed" /\ y.ok = requests[r].ok
                   /\ y.row = requests[r].row /\ y.seen = requests[r].seen
      BY <2>1, <3>1, <3>2, GotoMoves
    <3>4. QED
      BY <3>3
  <2>2. CASE Finish(r)
    BY <1>1, <2>2, Under, FinishMoves
  <2>3. QED
    BY <1>1, <2>1, <2>2
<1>4. PICK y : /\ Moves(r, y) /\ Keeps(y, requests[r]) /\ y.seen = requests[r].seen
               /\ y.pc \in {"completed", "done"}
  BY <1>3
<1>5. /\ y.op = "callback" /\ y.ask = requests[r].ask /\ y.name = requests[r].name
      /\ y.before = requests[r].before /\ ~Holding(y) /\ Writer(y) /\ Replacing(requests[r])
  BY <1>1, <1>4 DEF Keeps, Holding, Writer, Replacing
<1> DEFINE by(x) == [x EXCEPT !.by = r]
<1>6. \A x \in asks : /\ by(x) \in AskRecords /\ by(x).by = r
                      /\ by(x).id = x.id
  BY DEF IInv, Typed, TypeOK, TablesOK, AskRecords
<1>7. asks' = {IF x.id = requests[r].ask THEN by(x) ELSE x : x \in asks}
  BY <1>2
<1> HIDE DEF by
<1>8. \A x \in asks' : \E z \in asks :
        /\ x.id = z.id
        /\ z.id = y.ask => x = by(z) /\ x.by = r /\ x \in AskRecords
        /\ z.id # y.ask => x = z
  BY <1>5, <1>6, <1>7
<1>9. TablesOK'
  BY <1>2, <1>8, Under DEF TablesOK
<1>10. EntryInv'
  BY <1>2, <1>4, <1>5, EntryQuiet DEF IInv, EntryInv, SeenWritten
<1>11. AskInv'
  <2>1. \A x \in asks' : Followed(x, r, y)
    <3>1. Level(y.name, None) # {} \/ Deleted(y.name, y.before)
      BY <1>1, <1>5 DEF IInv, AskInv, StoredStays
    <3>2. QED
      BY <1>8, <3>1 DEF Followed
  <2>2. \A x, z \in asks' : x.id = z.id => x = z
    BY <1>8 DEF IInv, AskInv, AsksNamed
  <2>3. /\ y.ask \in Accepted("ask")
        /\ \A x \in asks' : x.id = y.ask => x.by # None
    BY <1>1, <1>5, <1>8, NoneAssumption DEF IInv, AskInv, Answering, Op
  <2>4. \A q \in Accepted("callback") : requests[q].ask = y.ask => q \notin y.before
    <3>1. r \notin Accepted("callback")
      BY <1>4, Under, MovesDone
    <3>2. QED
      BY <1>1, <1>5, <3>1 DEF IInv, AskInv, OneAnswer, Op
  <2>5. Stays(y) /\ y.before \subseteq Done
    BY <1>2, <1>5 DEF Stays, Level, IInv, Past
  <2>6. QED
    BY <1>1, <1>4, <1>5, <2>1, <2>2, <2>3, <2>4, <2>5, AskStep DEF IInv
<1>12. QED
  BY <1>4, <1>5, <1>9, <1>10, <1>11, StepIInv

LEMMA ExpireKeeps == ASSUME IInv, Expire PROVE IInv'
<1>1. PICK a \in asks : asks' = (asks \ {a}) \cup {[a EXCEPT !.expired = TRUE]}
  BY DEF Expire
<1> DEFINE n == [a EXCEPT !.expired = TRUE]
<1>2. a \in AskRecords /\ UNCHANGED <<entries, capabilities, waiting, requests>>
  BY DEF Expire, IInv, Typed, TypeOK, TablesOK
<1>3. n \in AskRecords /\ n.id = a.id /\ n.by = a.by
  BY <1>2 DEF AskRecords
<1>4. asks' = (asks \ {a}) \cup {n}
  BY <1>1
<1> HIDE DEF n
<1>5. /\ \A x \in asks' : \E z \in asks : x.id = z.id /\ x.by = z.by
      /\ \A x, z \in asks' : x.id = z.id => x = z
  BY <1>3, <1>4 DEF IInv, AskInv, AsksNamed
<1>6. Typed'
  BY <1>2, <1>3, <1>4 DEF IInv, Typed, TypeOK, TablesOK, Placements
<1>7. /\ Done' = Done /\ Wrote' = Wrote /\ \A op : Accepted(op)' = Accepted(op) /\ Op(op)' = Op(op)
      /\ \A name : Level(name, None)' = Level(name, None)
  BY <1>2 DEF Done, Wrote, Accepted, Op, Level
<1>8. \A name, before : (Deleted(name, before))' = Deleted(name, before)
  BY <1>2, <1>7 DEF Deleted
<1>9. Past' /\ EntryInv'
  <2>1. \A x : Held(x)' = Held(x)
    BY <1>2, <1>7, <1>8 DEF Held
  <2>2. QED
    BY <1>2, <1>7, <2>1 DEF IInv, Past, EntryInv, RowsNamed, SeenWritten, Holds, Replaced,
       RetiredStaysRetired
<1>10. AskInv'
  <2>1. AsksNamed' /\ Answering' /\ AcceptedAsked' /\ OneAnswer'
    BY <1>2, <1>5, <1>7 DEF IInv, AskInv, AsksNamed, Answering, AcceptedAsked, OneAnswer
  <2>2. StoredStays'
    BY <1>2, <1>7 DEF IInv, AskInv, StoredStays, Deleted, Level
  <2>3. CompletedMeansStored'
    BY <1>2, <1>5, <1>7 DEF IInv, AskInv, CompletedMeansStored
  <2>4. QED
    BY <2>1, <2>2, <2>3 DEF AskInv
<1>11. QED
  BY <1>6, <1>9, <1>10 DEF IInv

LEMMA StepKeeps == IInv /\ [Next]_vars => IInv'
<1> SUFFICES ASSUME IInv, [Next]_vars PROVE IInv'
  OBVIOUS
<1>1. CASE Expire
  BY <1>1, ExpireKeeps
<1>2. ASSUME NEW r \in Requests,
             \/ Stop(r)
             \/ SetCredential(r) \/ FindCredential(r) \/ Rotate(r) \/ Delete(r)
             \/ CleanUp(r) \/ StartInstall(r) \/ AskUser(r)
             \/ ReadAsk(r) \/ LookupExisting(r) \/ StoreToken(r) \/ MarkCompleted(r) \/ ResumeRun(r)
             \/ CreateCapability(r) \/ ResolveCapability(r) \/ UpdateCapability(r) \/ RemoveCapability(r)
             \/ LoadCapability(r) \/ FetchCredential(r) \/ ReadValue(r) \/ SendRequest(r)
      PROVE  IInv'
  BY <1>2, StopKeeps, SetKeeps, FindKeeps, RotateKeeps, DeleteKeeps, CleanKeeps, InstallKeeps,
     AskUserKeeps, ReadAskKeeps, LookupKeeps, StoreKeeps, MarkKeeps, ResumeKeeps, CreateKeeps,
     ResolveKeeps, UpdateKeeps, RemoveKeeps, LoadKeeps, FetchKeeps, ReadValueKeeps, SendKeeps
<1>3. CASE UNCHANGED vars
  <2>1. UNCHANGED <<entries, capabilities, asks, waiting, requests>>
    BY <1>3 DEF vars
  <2>2. Typed' /\ Past'
    BY <2>1 DEF IInv, Typed, TypeOK, TablesOK, Placements, Past, Done
  <2>3. EntryInv'
    BY <2>1 DEF IInv, EntryInv, RowsNamed, SeenWritten, Holds, Held, Holding, Replaced, Replacing,
       RetiredStaysRetired, Wrote, Deleted, Accepted, Done
  <2>4. AskInv'
    BY <2>1 DEF IInv, AskInv, AsksNamed, Answering, AcceptedAsked, OneAnswer, StoredStays,
       CompletedMeansStored, Op, Accepted, Done, Level, Deleted
  <2>5. QED
    BY <2>2, <2>3, <2>4 DEF IInv
<1>4. QED
  BY <1>1, <1>2, <1>3 DEF Next

(***************************************************************************)
(* The theorems.                                                           *)
(***************************************************************************)
\* What credential.rs, admin_api/credentials.rs and the two OAuth callbacks
\* maintain between them: rows are told apart by id and by value, a request that
\* holds a row's id knows whose row it is, and a callback's authorization is open,
\* stored or completed as far as the callback has come.
THEOREM CredentialsInvariant == Spec => []IInv
<1>1. Init => IInv
  BY InitIInv
<1>2. IInv /\ [Next]_vars => IInv'
  BY StepKeeps
<1>3. QED
  BY <1>1, <1>2, PTL DEF Spec

\* Every table and every request's locals have their types.
THEOREM CredentialTypes == Spec => []TypeOK
<1>1. IInv => TypeOK
  BY DEF IInv, Typed
<1>2. QED
  BY <1>1, CredentialsInvariant, PTL

\* Whatever rows of one name there are, and whoever rotates, deletes or replaces
\* them at the same time: what execute_capability or a client decrypts is never
\* a value retired before it came.
THEOREM RetiredValuesStayRetired == Spec => []RetiredStaysRetired
<1>1. IInv => RetiredStaysRetired
  BY DEF IInv, EntryInv
<1>2. QED
  BY <1>1, CredentialsInvariant, PTL

\* A callback that marks its request completed has stored the token, wherever
\* it or another callback or an admin's request stops.
THEOREM CompletedAuthorizationsAreStored == Spec => []CompletedMeansStored
<1>1. IInv => CompletedMeansStored
  BY DEF IInv, AskInv
<1>2. QED
  BY <1>1, CredentialsInvariant, PTL

\* Two callbacks that answer one state token were both under way at one time:
\* get_by_state_token finds nothing open for the second once the first has marked it.
THEOREM AuthorizationsAnsweredOnce == Spec => []AnsweredOnce
<1>1. IInv => AnsweredOnce
  BY DEF IInv, AskInv, OneAnswer, AnsweredOnce, Op, Accepted, Done
<1>2. QED
  BY <1>1, CredentialsInvariant, PTL
=============================================================================
