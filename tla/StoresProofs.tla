---------------------------- MODULE StoresProofs ----------------------------
(***************************************************************************)
(* Theorems of Stores, for any number of requests, tenants, migrations and *)
(* restarts, however the requests overlap and wherever they stop.          *)
(*                                                                         *)
(* The argument: commits only add to what a store holds, so that what an   *)
(* opener has checked stays checked and a row acknowledged stays; a copy   *)
(* in two steps between which the database did not change is the state at  *)
(* one of them; and only a restore that nobody came across writes a store  *)
(* back, file by file, to what an archive holds.                           *)
(***************************************************************************)
EXTENDS Stores, TLAPS

Ops == {"none", "write", "create", "update", "delete", "backup", "restore"}
Labels ==
  {"new", "opened", "missing", "ready", "written", "resolved", "copying", "reading", "archived", "indexing",
   "emptied", "unpacked", "recorded", "filling", "copied", "done"}

RequestRecords ==
  [pc : Labels, op : Ops, ok : BOOLEAN, tenant : Tenants \cup Int, slug : Slugs, status : Statuses,
   mig : Nat, left : SUBSET Files, file : Files \cup {"none"}, got : FileRecords, calm : BOOLEAN,
   archive : Int, seen : SUBSET (CommitRecords \cup Nat), before : SUBSET Requests]

TablesOK ==
  /\ tenants \subseteq [id : Tenants \cup Int, slug : Slugs, status : Statuses]
  /\ store \in [Tenants -> FileRecords] /\ whole \in [Tenants -> BOOLEAN]
  /\ archives \subseteq ArchiveRecords /\ Found \subseteq archives
  /\ index \subseteq Nat

\* What the program counter says of the other locals of a request.
Placed(x) ==
  /\ x.pc = "new" => x.op = "none"
  /\ x.ok => x.pc = "done"
  /\ x.pc \in {"opened", "missing", "ready", "written"} => x.op = "write" /\ x.tenant \in Tenants
  /\ x.pc \in {"opened", "missing"} => x.mig >= 1
  /\ x.pc = "missing" => x.mig <= Migrations
  /\ x.pc = "resolved" => x.op \in {"update", "delete"}
  /\ x.pc \in {"copying", "reading", "archived", "indexing", "emptied"} => x.op = "backup" /\ x.tenant \in Tenants
  /\ x.pc \in {"unpacked", "recorded", "filling", "copied"} => x.op = "restore"
  /\ x.op = "restore" => x.tenant \in Tenants
  /\ x.pc = "recorded" => x.left # {}
  /\ x.pc \in {"reading", "filling"} => x.file \in x.left

TypeOK == TablesOK /\ requests \in [Requests -> RequestRecords]
Placements == \A r \in Requests : Placed(requests[r])
Typed == TypeOK /\ Placements

(***************************************************************************)
(* The invariant.                                                          *)
(***************************************************************************)
\* What a request saw as over when it came is over.
Past == \A r \in Requests : requests[r].before \subseteq Done

Copying == {"copying", "reading"}
Copiers == {"new"} \cup Copying
USE DEF Copying, Copiers

ArchivesNamed ==
  /\ \A a, b \in archives : a.by = b.by => a = b
  /\ \A a \in archives \ Found :
       /\ a.by \in Requests /\ requests[a.by].op = "backup" /\ requests[a.by].pc \notin Copiers
       /\ requests[a.by].tenant = a.row.id
  /\ \A r \in Requests : requests[r].op = "restore" =>
       \E a \in archives : a.by = requests[r].archive /\ a.row.id = requests[r].tenant

Has(commits, k) == \E c \in commits : c.mig = k

\* What an opener of the store has checked.
Checked(x, commits) ==
  /\ x.pc \in {"opened", "missing"} => \A k \in 1 .. x.mig - 1 : Has(commits, k)
  /\ x.pc = "ready" => \A k \in 1 .. Migrations : Has(commits, k)

\* The rows are those of requests here.
Named(commits) ==
  \A c \in commits : c.mig = 0 => c.by \in Requests /\ requests[c.by].op = "write"

Acknowledged(w, t) ==
  requests[w].op = "write" /\ requests[w].tenant = t /\ (requests[w].pc = "written" \/ requests[w].ok)

StoreSound(t) ==
  /\ whole[t] => /\ Migrated(Content(store[t]))
                 /\ \A r \in Connected(t) : Checked(requests[r], Content(store[t]))
  /\ RestoresOf(t) = {} => /\ Named(Content(store[t]))
                           /\ \A w \in Requests : Acknowledged(w, t) => w \in Writers(Content(store[t]))

\* commits have what was acknowledged before b, and before what they have.
Closed(commits, b) ==
  \A w \in Accepted("write") :
    /\ requests[w].tenant = requests[b].tenant
    /\ w \in requests[b].before \/ \E v \in Writers(commits) : w \in requests[v].before
    => w \in Writers(commits)

Snapshot(commits, b) ==
  /\ Migrated(commits)
  /\ RestoresOf(requests[b].tenant) = {} => Named(commits) /\ Closed(commits, b)

\* The files x has yet to open.
Unopened(x) == IF x.pc = "reading" THEN x.left \ {x.file} ELSE x.left

\* The files a calm backup has copied so far, and the database as it was then.
CopySound(b) ==
  requests[b].pc \in Copying /\ requests[b].calm =>
    /\ Unopened(requests[b]) = {} => Snapshot(Content(requests[b].got), b)
    /\ Unopened(requests[b]) = {"db"} => Snapshot(requests[b].seen \cup requests[b].got.wal, b)
    /\ Unopened(requests[b]) = {"wal"} => requests[b].got.db = requests[b].seen

ArchiveSound(a) ==
  a.calm =>
    /\ Migrated(Content(a.files))
    /\ a \notin Found /\ (\A q \in RestoresOf(a.row.id) : a.by \in requests[q].before) =>
         Named(Content(a.files)) /\ Closed(Content(a.files), a.by)

\* A restore no other one came across has given the archive back.
Alone(q, others) == \A p \in others \ {q} : p \in requests[q].before
GivenBack(q) ==
  /\ requests[q].op = "restore" /\ requests[q].calm /\ (requests[q].pc = "copied" \/ requests[q].ok)
  /\ Alone(q, RestoresOf(requests[q].tenant))
  => \A a \in archives : a.by = requests[q].archive =>
       LET now  == Writers(Content(store[requests[q].tenant]))
           then == Writers(Content(a.files))
       IN  then \subseteq now /\ now \cap requests[q].before \subseteq then

\* b is in a list, or a backup came across.
Listed(b, list) ==
  \/ b \in list
  \/ \E c \in Requests : /\ requests[c].op = "backup" /\ c # b
                         /\ c \notin requests[b].before /\ b \notin requests[c].before
Listing ==
  /\ index # Torn => \A b \in Accepted("backup") : Listed(b, index)
  /\ \A r \in Requests : requests[r].pc \in {"indexing", "emptied"} =>
       /\ requests[r].seen \subseteq Nat
       /\ \A b \in Accepted("backup") : Listed(b, requests[r].seen)

IInv ==
  /\ Typed /\ Past /\ ArchivesNamed
  /\ \A t \in Tenants : StoreSound(t)
  /\ \A b \in Requests : CopySound(b)
  /\ \A a \in archives : ArchiveSound(a)
  /\ \A q \in Requests : GivenBack(q)
  /\ Listing

(***************************************************************************)
(* Requests take steps.                                                    *)
(***************************************************************************)
\* What a step may make of a request.
Continues(y, x) ==
  /\ y \in RequestRecords /\ Placed(y)
  /\ x.pc = "done" => y = x
  /\ x.pc # "new" => y.pc # "new" /\ y.op = x.op
  /\ x.pc # "new" /\ x.op \notin {"update", "delete"} =>
       y.tenant = x.tenant /\ y.archive = x.archive /\ y.before = x.before
  /\ x.pc \notin Copiers => y.pc \notin Copiers
  /\ y.before \in {{}, Done, x.before}
  /\ x.pc = "new" => y = x \/ (y.pc # "new" /\ y.before = Done)

Steps ==
  /\ requests' \in [Requests -> RequestRecords]
  /\ \A q \in Requests : Continues(requests'[q], requests[q])

\* A request takes a step: its locals become y, those of the others stay.
Moves(r, y) ==
  /\ requests[r].pc # "done" /\ Continues(y, requests[r])
  /\ requests'[r] = y /\ \A q \in Requests \ {r} : requests'[q] = requests[q]
  /\ Steps

LEMMA MovesTyped ==
  ASSUME Typed, NEW r \in Requests, NEW y, Continues(y, requests[r]), requests[r].pc # "done",
         requests' = [requests EXCEPT ![r] = y]
  PROVE  Moves(r, y)
<1>1. requests \in [Requests -> RequestRecords] /\ y \in RequestRecords
  BY DEF Typed, TypeOK, Continues
<1>2. /\ requests' \in [Requests -> RequestRecords] /\ requests'[r] = y
      /\ \A q \in Requests \ {r} : requests'[q] = requests[q]
  BY <1>1
<1>3. ASSUME NEW q \in Requests \ {r} PROVE Continues(requests[q], requests[q])
  <2>1. requests[q] \in RequestRecords /\ Placed(requests[q])
    BY <1>1 DEF Typed, Placements
  <2>2. QED
    BY <2>1 DEF Continues
<1>4. Steps
  BY <1>2, <1>3 DEF Steps
<1>5. QED
  BY <1>2, <1>4 DEF Moves

LEMMA StepsFacts ==
  ASSUME Typed, Past, Steps
  PROVE  /\ Placements' /\ Past' /\ Done \subseteq Done'
         /\ \A q \in Done : requests'[q] = requests[q]
         /\ \A op : Accepted(op) \subseteq Accepted(op)'
         /\ \A t : RestoresOf(t) \subseteq RestoresOf(t)'
<1>1. Placements'
  BY DEF Steps, Continues, Placements
<1>2. Done \subseteq Done' /\ \A q \in Done : requests'[q] = requests[q]
  BY DEF Steps, Continues, Done
<1>3. Past'
  <2>1. ASSUME NEW q \in Requests PROVE requests'[q].before \subseteq Done
    BY DEF Past, Steps, Continues
  <2>2. QED
    BY <1>2, <2>1 DEF Past
<1>4. \A op : Accepted(op) \subseteq Accepted(op)'
  BY <1>2 DEF Accepted
<1>5. ASSUME NEW t, NEW q \in RestoresOf(t) PROVE q \in RestoresOf(t)'
  <2>1. requests[q].op = "restore" /\ requests[q].tenant = t /\ requests[q].pc # "new"
    BY DEF RestoresOf, Typed, Placements, Placed
  <2>2. QED
    BY <2>1 DEF RestoresOf, Steps, Continues
<1>6. QED
  BY <1>1, <1>2, <1>3, <1>4, <1>5

LEMMA NewReqTyped == NewReq \in RequestRecords /\ Placed(NewReq)
<1>1. NoFiles \in FileRecords
  BY DEF NoFiles, FileRecords
<1>2. NewReq \in RequestRecords
  BY <1>1, StoresAssumption DEF NewReq, RequestRecords, Labels, Ops, Statuses
<1>3. Placed(NewReq)
  BY DEF NewReq, Placed
<1>4. QED
  BY <1>2, <1>3

\* r has come with the locals of x.
Came(r, y, op, x) ==
  /\ Moves(r, y) /\ requests[r].pc = "new" /\ y.op = op /\ y.before = Done
  /\ y.pc = x.pc /\ y.ok = x.ok /\ y.tenant = x.tenant /\ y.mig = x.mig /\ y.left = x.left
  /\ y.archive = x.archive /\ y.calm = x.calm

LEMMA BeginCame ==
  ASSUME Typed, NEW r \in Requests, NEW op \in Ops \ {"none"}, NEW x \in RequestRecords, Begin(r, op, x),
         x.pc # "new", Placed([x EXCEPT !.op = op])
  PROVE  \E y : Came(r, y, op, x)
<1> DEFINE y == [x EXCEPT !.op = op, !.before = Done]
<1>1. Done \subseteq Requests
  BY DEF Done
<1>2. y \in RequestRecords
  BY <1>1 DEF RequestRecords
<1>3. Placed(y)
  BY DEF Placed, RequestRecords
<1>4. requests[r].pc = "new" /\ requests' = [requests EXCEPT ![r] = y]
  BY DEF Begin, Fresh
<1>5. /\ y.op = op /\ y.before = Done
      /\ y.pc = x.pc /\ y.ok = x.ok /\ y.tenant = x.tenant /\ y.mig = x.mig /\ y.left = x.left
      /\ y.archive = x.archive /\ y.calm = x.calm
  BY DEF RequestRecords
<1> HIDE DEF y
<1>6. Continues(y, requests[r])
  BY <1>2, <1>3, <1>4, <1>5 DEF Continues
<1>7. Moves(r, y)
  BY <1>4, <1>6, MovesTyped
<1>8. QED
  BY <1>4, <1>5, <1>7 DEF Came

\* r goes on: all but its pc, and what the action says, stays.
Goes(r, y) ==
  LET x == requests[r]
  IN  /\ Moves(r, y) /\ x.pc # "new" /\ y.op = x.op /\ y.tenant = x.tenant /\ y.archive = x.archive
      /\ y.before = x.before

LEMMA ChangeGoes ==
  ASSUME Typed, NEW r \in Requests, NEW y \in RequestRecords, requests[r].pc \notin {"new", "done"},
         requests' = [requests EXCEPT ![r] = y], Placed(y), y.pc # "new",
         y.pc \in Copying => requests[r].pc \in Copying,
         y.op = requests[r].op, y.tenant = requests[r].tenant, y.archive = requests[r].archive,
         y.before = requests[r].before
  PROVE  Goes(r, y)
<1>1. Continues(y, requests[r])
  BY DEF Continues
<1>2. QED
  BY <1>1, MovesTyped DEF Goes

LEMMA GotoGoes ==
  ASSUME Typed, NEW r \in Requests, NEW l \in Labels \ Copiers, Goto(r, l), requests[r].pc \notin {"new", "done"},
         Placed([requests[r] EXCEPT !.pc = l])
  PROVE  \E y : /\ Goes(r, y) /\ y.pc = l /\ y.ok = requests[r].ok /\ y.mig = requests[r].mig
                /\ y.seen = requests[r].seen /\ y.calm = requests[r].calm
<1> DEFINE y == [requests[r] EXCEPT !.pc = l]
<1>1. requests[r] \in RequestRecords
  BY DEF Typed, TypeOK
<1>2. y \in RequestRecords /\ requests' = [requests EXCEPT ![r] = y]
  BY <1>1 DEF RequestRecords, Goto, Typed, TypeOK
<1>3. /\ y.pc = l /\ y.ok = requests[r].ok /\ y.mig = requests[r].mig /\ y.seen = requests[r].seen
      /\ y.op = requests[r].op /\ y.tenant = requests[r].tenant /\ y.archive = requests[r].archive
      /\ y.before = requests[r].before /\ y.calm = requests[r].calm
  BY <1>1 DEF RequestRecords
<1>4. Placed(y)
  OBVIOUS
<1> HIDE DEF y
<1>5. Goes(r, y)
  BY <1>2, <1>3, <1>4, ChangeGoes
<1>6. QED
  BY <1>3, <1>5

\* What is left of a request in flight that ends.
LEMMA OverIs ==
  ASSUME NEW x \in RequestRecords, Placed(x), x.pc \notin {"new", "done"}, NEW ok \in BOOLEAN,
         NEW y, y = Over(x, ok)
  PROVE  /\ Continues(y, x) /\ y.pc = "done" /\ y.op = x.op
         /\ y.ok => ok /\ x.op \notin {"update", "delete"}
         /\ x.op = "restore" => y.calm = x.calm
         /\ ok /\ x.op \notin {"update", "delete"} => y.ok
<1>1. NewReq \in RequestRecords
  BY NewReqTyped
<1>2. CASE x.op \in {"update", "delete"}
  <2>1. y = [NewReq EXCEPT !.pc = "done", !.op = x.op]
    BY <1>2 DEF Over
  <2>2. y \in RequestRecords /\ y.pc = "done" /\ y.op = x.op /\ y.ok = FALSE /\ y.before = {}
    BY <1>1, <2>1 DEF RequestRecords, Labels, NewReq
  <2>3. Placed(y)
    BY <1>2, <2>2 DEF Placed
  <2>4. QED
    BY <1>2, <2>2, <2>3 DEF Continues
<1>3. CASE x.op \notin {"update", "delete"}
  <2>1. y = [NewReq EXCEPT !.pc = "done", !.op = x.op, !.ok = ok, !.tenant = x.tenant,
                           !.archive = x.archive, !.before = x.before, !.calm = x.op # "restore" \/ x.calm]
    BY <1>3 DEF Over
  <2>2. y \in RequestRecords
    BY <1>1, <2>1 DEF RequestRecords, Labels
  <2>3. y.pc = "done" /\ y.op = x.op /\ y.ok = ok
    BY <1>1, <2>1 DEF RequestRecords, NewReq
  <2>4. y.before = x.before /\ y.tenant = x.tenant /\ y.archive = x.archive
    BY <1>1, <2>1 DEF RequestRecords, NewReq
  <2>5. x.op = "restore" => y.calm = x.calm
    BY <1>1, <2>1 DEF RequestRecords, NewReq
  <2>6. Placed(y)
    BY <1>3, <2>3, <2>4 DEF Placed
  <2>7. QED
    BY <1>3, <2>2, <2>3, <2>4, <2>5, <2>6 DEF Continues
<1>4. QED
  BY <1>2, <1>3

LEMMA FinishMoves ==
  ASSUME Typed, NEW r \in Requests, NEW ok \in BOOLEAN, Finish(r, ok), requests[r].pc \notin {"new", "done"}
  PROVE  \E y : /\ Moves(r, y) /\ y.pc = "done" /\ y.op = requests[r].op
                /\ y.ok => ok /\ requests[r].op \notin {"update", "delete"}
                /\ ok /\ requests[r].op \notin {"update", "delete"} => y.ok
                /\ requests[r].op = "restore" => y.calm = requests[r].calm
<1> DEFINE y == Over(requests[r], ok)
<1>1. requests[r] \in RequestRecords /\ Placed(requests[r])
  BY DEF Typed, TypeOK, Placements
<1>2. requests' = [requests EXCEPT ![r] = y]
  BY <1>1 DEF Finish, Typed, TypeOK
<1> HIDE DEF y
<1>3. PICK z : z = y
  OBVIOUS
<1>4. /\ Continues(z, requests[r]) /\ z.pc = "done" /\ z.op = requests[r].op
      /\ z.ok => ok /\ requests[r].op \notin {"update", "delete"}
      /\ requests[r].op = "restore" => z.calm = requests[r].calm
      /\ ok /\ requests[r].op \notin {"update", "delete"} => z.ok
  BY <1>1, <1>3, OverIs DEF y
<1>5. Moves(r, z)
  BY <1>2, <1>3, <1>4, MovesTyped
<1>6. QED
  BY <1>4, <1>5

(***************************************************************************)
(* What stays when requests go on.                                         *)
(***************************************************************************)
LEMMA NamedStays ==
  ASSUME Typed, Steps, NEW C, Named(C)
  PROVE  Named(C)'
<1>1. ASSUME NEW q \in Requests, requests[q].op = "write" PROVE requests'[q].op = "write"
  <2>1. requests[q].pc # "new"
    BY <1>1 DEF Typed, Placements, Placed
  <2>2. QED
    BY <1>1, <2>1 DEF Steps, Continues
<1>2. QED
  BY <1>1 DEF Named

LEMMA ClosedStays ==
  ASSUME Typed, Past, Steps, NEW C, NEW b \in Requests, requests[b].op = "backup", Named(C), Closed(C, b)
  PROVE  Closed(C, b)'
<1>1. Done \subseteq Done' /\ \A q \in Done : requests'[q] = requests[q]
  BY StepsFacts
<1>2. ASSUME NEW q \in Requests, requests[q].op \in {"write", "backup"}
      PROVE  requests'[q].tenant = requests[q].tenant /\ requests'[q].before = requests[q].before
             /\ requests[q].before \subseteq Done
  <2>1. requests[q].pc # "new"
    BY <1>2 DEF Typed, Placements, Placed
  <2>2. QED
    BY <1>2, <2>1 DEF Steps, Continues, Past
<1>3. SUFFICES ASSUME NEW w \in Accepted("write")', requests'[w].tenant = requests'[b].tenant,
                      w \in requests'[b].before \/ \E v \in Writers(C) : w \in requests'[v].before
               PROVE  w \in Writers(C)
  BY DEF Closed
<1>4. \A v \in Writers(C) : v \in Requests /\ requests[v].op = "write"
  BY DEF Writers, Named
<1>5. w \in requests[b].before \/ \E v \in Writers(C) : w \in requests[v].before
  BY <1>2, <1>3, <1>4
<1>6. w \in Done /\ requests'[w] = requests[w]
  BY <1>1, <1>2, <1>4, <1>5
<1>7. w \in Accepted("write") /\ requests[w].tenant = requests[b].tenant
  BY <1>2, <1>3, <1>6 DEF Accepted
<1>8. QED
  BY <1>5, <1>7 DEF Closed

LEMMA SnapshotStays ==
  ASSUME Typed, Past, Steps, NEW C, NEW b \in Requests, requests[b].op = "backup", Snapshot(C, b)
  PROVE  Snapshot(C, b)'
<1>1. PICK t : t = requests[b].tenant
  OBVIOUS
<1>2. requests'[b].tenant = t
  BY <1>1 DEF Typed, Placements, Placed, Steps, Continues
<1>3. Migrated(C)'
  BY DEF Snapshot, Migrated
<1>4. ASSUME RestoresOf(t)' = {} PROVE Named(C)' /\ Closed(C, b)'
  <2>1. RestoresOf(t) = {}
    BY <1>4, StepsFacts
  <2>2. Named(C) /\ Closed(C, b)
    BY <1>1, <2>1 DEF Snapshot
  <2>3. QED
    BY <2>2, NamedStays, ClosedStays
<1>5. QED
  BY <1>2, <1>3, <1>4 DEF Snapshot

Opening == {"opened", "missing", "ready"}

\* A store holds what it held, and its openers have checked what they say.
LEMMA StoreStays ==
  ASSUME IInv, Steps, NEW t \in Tenants, whole'[t] = whole[t], Content(store'[t]) = Content(store[t]),
         \A r \in Requests :
           requests'[r].op = "write" /\ requests'[r].pc \in Opening /\ requests'[r].tenant = t /\ whole[t] =>
             Checked(requests'[r], Content(store[t])),
         \A w \in Requests :
           requests'[w].op = "write" /\ (requests'[w].pc = "written" \/ requests'[w].ok) =>
             requests[w].op = "write" /\ (requests[w].pc = "written" \/ requests[w].ok)
  PROVE  StoreSound(t)'
<1>1. PICK C : C = Content(store[t]) /\ C = Content(store'[t])
  OBVIOUS
<1>2. StoreSound(t)
  BY DEF IInv
<1>3. ASSUME whole'[t]
      PROVE  Migrated(C) /\ \A r \in Connected(t)' : Checked(requests'[r], C)
  <2>1. Migrated(C)
    BY <1>1, <1>2, <1>3 DEF StoreSound
  <2>2. ASSUME NEW r \in Connected(t)' PROVE Checked(requests'[r], C)
    <3>1. r \in Requests /\ requests'[r].op = "write" /\ requests'[r].tenant = t
      BY DEF Connected, InFlight
    <3>2. CASE requests'[r].pc \in Opening
      BY <1>1, <1>3, <3>1, <3>2
    <3>3. CASE requests'[r].pc \notin Opening
      BY <3>3 DEF Checked, Opening
    <3>4. QED
      BY <3>2, <3>3
  <2>3. QED
    BY <2>1, <2>2
<1>4. ASSUME RestoresOf(t)' = {}
      PROVE  Named(C)' /\ \A w \in Requests : Acknowledged(w, t)' => w \in Writers(C)
  <2>1. RestoresOf(t) = {}
    BY <1>4, StepsFacts DEF IInv
  <2>2. Named(C) /\ \A w \in Requests : Acknowledged(w, t) => w \in Writers(C)
    BY <1>1, <1>2, <2>1 DEF StoreSound
  <2>3. Named(C)'
    BY <2>2, NamedStays DEF IInv
  <2>4. ASSUME NEW w \in Requests, Acknowledged(w, t)' PROVE Acknowledged(w, t)
    <3>1. requests[w].op = "write" /\ (requests[w].pc = "written" \/ requests[w].ok) /\ requests'[w].tenant = t
      BY <2>4 DEF Acknowledged
    <3>2. requests[w].pc # "new"
      BY <3>1 DEF IInv, Typed, Placements, Placed
    <3>3. requests[w].tenant = t
      BY <3>1, <3>2 DEF Steps, Continues
    <3>4. QED
      BY <3>1, <3>3 DEF Acknowledged
  <2>5. QED
    BY <2>2, <2>3, <2>4
<1>5. whole'[t] => Migrated(Content(store[t]))' /\ \A r \in Connected(t)' : Checked(requests[r], Content(store[t]))'
  BY <1>1, <1>3 DEF Migrated, Checked, Has
<1>6. RestoresOf(t)' = {} =>
        Named(Content(store[t]))' /\ \A w \in Requests : Acknowledged(w, t)' => w \in Writers(Content(store[t]))'
  BY <1>1, <1>4 DEF Named, Writers
<1>7. QED
  BY <1>5, <1>6 DEF StoreSound

LEMMA StoresStay ==
  ASSUME IInv, Steps, UNCHANGED whole,
         \A t \in Tenants : Content(store'[t]) = Content(store[t]),
         \A r \in Requests :
           requests'[r].op = "write" /\ requests'[r].pc \in Opening /\ whole[requests'[r].tenant] =>
             Checked(requests'[r], Content(store[requests'[r].tenant])),
         \A w \in Requests :
           requests'[w].op = "write" /\ (requests'[w].pc = "written" \/ requests'[w].ok) =>
             requests[w].op = "write" /\ (requests[w].pc = "written" \/ requests[w].ok)
  PROVE  \A t \in Tenants : StoreSound(t)'
<1>1. ASSUME NEW t \in Tenants PROVE StoreSound(t)'
  <2>1. \A r \in Requests :
          requests'[r].op = "write" /\ requests'[r].pc \in Opening /\ requests'[r].tenant = t /\ whole[t] =>
            Checked(requests'[r], Content(store[t]))
    OBVIOUS
  <2>2. QED
    BY <2>1, StoreStays
<1>2. QED
  BY <1>1

LEMMA CopiesStay ==
  ASSUME IInv, Steps, NEW b \in Requests,
         requests'[b].pc \in Copying =>
           requests'[b] = requests[b] \/ (requests'[b].pc = "copying" /\ requests'[b].left = Files)
  PROVE  CopySound(b)'
<1>1. CASE requests'[b].pc \notin Copying \/ (requests'[b].pc = "copying" /\ requests'[b].left = Files)
  BY <1>1 DEF CopySound, Unopened, Files
<1>2. CASE requests'[b].pc \in Copying /\ requests'[b] = requests[b]
  <2>1. Typed /\ Past /\ CopySound(b) /\ requests[b].op = "backup"
    BY <1>2 DEF IInv, Typed, Placements, Placed
  <2>2. PICK C, D, U : /\ C = Content(requests[b].got) /\ D = requests[b].seen \cup requests[b].got.wal
                       /\ U = Unopened(requests[b])
    OBVIOUS
  <2>3. Snapshot(C, b) => Snapshot(C, b)'
    BY <2>1, SnapshotStays
  <2>4. Snapshot(D, b) => Snapshot(D, b)'
    BY <2>1, SnapshotStays
  <2>5. /\ C = Content(requests'[b].got) /\ D = requests'[b].seen \cup requests'[b].got.wal
        /\ U = Unopened(requests'[b])
    BY <1>2, <2>2
  <2>6. CopySound(b) <=>
          (requests[b].pc \in Copying /\ requests[b].calm =>
             /\ U = {} => Snapshot(C, b)
             /\ U = {"db"} => Snapshot(D, b)
             /\ U = {"wal"} => requests[b].got.db = requests[b].seen)
    BY <2>2 DEF CopySound
  <2>7. CopySound(b)' <=>
          (requests'[b].pc \in Copying /\ requests'[b].calm =>
             /\ U = {} => Snapshot(C, b)'
             /\ U = {"db"} => Snapshot(D, b)'
             /\ U = {"wal"} => requests'[b].got.db = requests'[b].seen)
    BY <2>5 DEF CopySound, Unopened, Snapshot, Migrated, Named, Closed, Writers
  <2>8. QED
    BY <1>2, <2>1, <2>3, <2>4, <2>6, <2>7
<1>3. QED
  BY <1>1, <1>2

LEMMA ArchivesStay ==
  ASSUME IInv, Steps, NEW a \in archives
  PROVE  ArchiveSound(a)'
<1>1. Typed /\ Past /\ ArchiveSound(a)
  BY DEF IInv
<1>2. PICK C : C = Content(a.files)
  OBVIOUS
<1>3. SUFFICES ASSUME a.calm, a \notin Found, \A q \in RestoresOf(a.row.id)' : a.by \in requests'[q].before
               PROVE  Named(C)' /\ Closed(C, a.by)'
  BY <1>1, <1>2 DEF ArchiveSound, Migrated
<1>4. a.by \in Requests /\ requests[a.by].op = "backup"
  BY <1>3 DEF IInv, ArchivesNamed
<1>5. ASSUME NEW q \in RestoresOf(a.row.id) PROVE a.by \in requests[q].before
  <2>1. q \in Requests /\ requests[q].op = "restore" /\ requests[q].pc # "new"
    BY <1>1 DEF RestoresOf, Typed, Placements, Placed
  <2>2. q \in RestoresOf(a.row.id)' /\ requests'[q].before = requests[q].before
    BY <1>1, <2>1, StepsFacts DEF Steps, Continues
  <2>3. QED
    BY <1>3, <2>2
<1>6. Named(C) /\ Closed(C, a.by)
  BY <1>1, <1>2, <1>3, <1>5 DEF ArchiveSound
<1>7. QED
  BY <1>1, <1>4, <1>6, NamedStays, ClosedStays

LEMMA NamesStay ==
  ASSUME IInv, Steps, UNCHANGED archives,
         \A r \in Requests : requests'[r].op = "restore" => requests[r].op = "restore"
  PROVE  ArchivesNamed'
<1>1. Typed /\ ArchivesNamed
  BY DEF IInv
<1>2. ASSUME NEW a \in archives \ Found
      PROVE  /\ a.by \in Requests /\ requests'[a.by].op = "backup" /\ requests'[a.by].pc \notin Copiers
             /\ requests'[a.by].tenant = a.row.id
  <2>1. /\ a.by \in Requests /\ requests[a.by].op = "backup" /\ requests[a.by].pc \notin Copiers
        /\ requests[a.by].tenant = a.row.id
    BY <1>1, <1>2 DEF ArchivesNamed
  <2>2. QED
    BY <2>1 DEF Steps, Continues
<1>3. ASSUME NEW r \in Requests, requests'[r].op = "restore"
      PROVE  \E a \in archives : a.by = requests'[r].archive /\ a.row.id = requests'[r].tenant
  <2>1. requests[r].op = "restore" /\ requests[r].pc # "new"
    BY <1>1, <1>3 DEF Typed, Placements, Placed
  <2>2. requests'[r].archive = requests[r].archive /\ requests'[r].tenant = requests[r].tenant
    BY <2>1 DEF Steps, Continues
  <2>3. QED
    BY <1>1, <2>1, <2>2 DEF ArchivesNamed
<1>4. QED
  BY <1>1, <1>2, <1>3 DEF ArchivesNamed

\* The rows of a store stay, and no request that was over writes another.
Keeps(t) ==
  /\ Writers(Content(store[t])) \subseteq Writers(Content(store'[t]))
  /\ Writers(Content(store'[t])) \cap Done \subseteq Writers(Content(store[t]))

LEMMA GivenStays ==
  ASSUME IInv, Steps, NEW q \in Requests,
         requests'[q].op = "restore" /\ (requests'[q].pc = "copied" \/ requests'[q].ok) =>
           /\ requests[q].op = "restore" /\ (requests[q].pc = "copied" \/ requests[q].ok)
           /\ requests'[q].calm = requests[q].calm,
         requests[q].op = "restore" => \A a \in archives' : a.by = requests[q].archive => a \in archives,
         requests[q].op = "restore" =>
           Keeps(requests[q].tenant) \/ \E p \in RestoresOf(requests[q].tenant) \ {q} : p \notin Done
  PROVE  GivenBack(q)'
<1>1. PICK t : t = requests[q].tenant
  OBVIOUS
<1> DEFINE given == /\ requests'[q].op = "restore" /\ requests'[q].calm
                    /\ (requests'[q].pc = "copied" \/ requests'[q].ok)
<1>2. ASSUME given
      PROVE  /\ requests[q].op = "restore" /\ requests[q].calm /\ (requests[q].pc = "copied" \/ requests[q].ok)
             /\ requests'[q].tenant = t /\ requests'[q].archive = requests[q].archive
             /\ requests'[q].before = requests[q].before /\ requests[q].before \subseteq Done
  <2>1. requests[q].op = "restore" /\ requests[q].pc # "new"
    BY <1>2 DEF IInv, Typed, Placements, Placed
  <2>2. QED
    BY <1>1, <1>2, <2>1 DEF Steps, Continues, IInv, Past
<1>3. ASSUME given, Alone(q, RestoresOf(t))', NEW a \in archives', a.by = requests'[q].archive
      PROVE  LET now  == Writers(Content(store'[t]))
                 then == Writers(Content(a.files))
             IN  then \subseteq now /\ now \cap requests'[q].before \subseteq then
  <2>1. a \in archives /\ a.by = requests[q].archive
    BY <1>2, <1>3
  <2>2. Alone(q, RestoresOf(t))
    BY <1>2, <1>3, StepsFacts DEF Alone, IInv
  <2> DEFINE W == Writers(Content(store[t]))
             V == Writers(Content(store'[t]))
             A == Writers(Content(a.files))
  <2>3. requests[q].tenant = t
    BY <1>1
  <2>4. A \subseteq W /\ W \cap requests[q].before \subseteq A
    <3>1. GivenBack(q)
      BY DEF IInv
    <3>2. Alone(q, RestoresOf(requests[q].tenant))
      BY <2>2, <2>3
    <3>3. /\ Writers(Content(a.files)) \subseteq Writers(Content(store[requests[q].tenant]))
          /\ Writers(Content(store[requests[q].tenant])) \cap requests[q].before
                \subseteq Writers(Content(a.files))
      BY <1>2, <1>3, <2>1, <3>1, <3>2 DEF GivenBack
    <3>4. QED
      BY <2>3, <3>3
  <2>5. ~ \E p \in RestoresOf(t) \ {q} : p \notin Done
    BY <1>2, <1>3, <2>2 DEF Alone
  <2>6. Keeps(t)
    BY <1>1, <1>2, <1>3, <2>3, <2>5
  <2>7. W \subseteq V /\ V \cap Done \subseteq W
    BY <2>6 DEF Keeps
  <2>8. requests'[q].before = requests[q].before /\ requests[q].before \subseteq Done
    BY <1>2, <1>3
  <2> HIDE DEF W, V, A
  <2>9. A \subseteq V /\ V \cap requests'[q].before \subseteq A
    BY <2>4, <2>7, <2>8
  <2>10. QED
    BY <2>9 DEF V, A
<1>4. CASE given
  BY <1>2, <1>3, <1>4 DEF GivenBack, Writers, Content, Alone
<1>5. CASE ~given
  BY <1>5 DEF GivenBack
<1>6. QED
  BY <1>4, <1>5

LEMMA ListedStays ==
  ASSUME Typed, Steps, NEW b \in Requests, requests[b].op = "backup", NEW list, Listed(b, list)
  PROVE  Listed(b, list)'
<1>1. \A c \in Requests : requests[c].op = "backup" =>
        requests'[c].op = "backup" /\ requests'[c].before = requests[c].before
  BY DEF Typed, Placements, Placed, Steps, Continues
<1>2. QED
  BY <1>1 DEF Listed

LEMMA ListingStays ==
  ASSUME IInv, Steps, index' \in {index, Torn},
         \A b \in Requests : requests'[b].op = "backup" /\ requests'[b].ok => requests[b].ok,
         \A r \in Requests : requests'[r].pc \in {"indexing", "emptied"} =>
           \/ requests[r].pc \in {"indexing", "emptied"} /\ requests'[r].seen = requests[r].seen
           \/ requests'[r].seen = index /\ index # Torn
  PROVE  Listing'
<1>1. ASSUME NEW b \in Accepted("backup")' PROVE b \in Accepted("backup")
  <2>1. requests[b].ok /\ requests[b].pc = "done"
    BY DEF Accepted, Done, IInv, Typed, Placements, Placed
  <2>2. QED
    BY <2>1 DEF Accepted, Done, Steps, Continues
<1>2. PICK I : I = index
  OBVIOUS
<1>3. ASSUME I # Torn, NEW b \in Accepted("backup")' PROVE Listed(b, I)'
  <2>1. b \in Requests /\ requests[b].op = "backup" /\ Listed(b, I)
    BY <1>1, <1>2, <1>3 DEF IInv, Listing, Accepted, Done
  <2>2. QED
    BY <2>1, ListedStays DEF IInv
<1>4. ASSUME NEW r \in Requests, requests'[r].pc \in {"indexing", "emptied"}
      PROVE  requests'[r].seen \subseteq Nat
             /\ \A b \in Accepted("backup")' : Listed(b, requests[r].seen)'
  <2>1. PICK S : S = requests'[r].seen
    OBVIOUS
  <2>2. CASE S = I /\ I # Torn
    <3>1. S \subseteq Nat
      BY <1>2, <2>2 DEF IInv, Typed, TypeOK, TablesOK
    <3>2. \A b \in Accepted("backup")' : Listed(b, S)'
      BY <1>3, <2>2
    <3>3. QED
      BY <2>1, <3>1, <3>2 DEF Listed
  <2>3. CASE requests[r].pc \in {"indexing", "emptied"} /\ S = requests[r].seen
    <3>1. S \subseteq Nat /\ \A b \in Accepted("backup") : Listed(b, S)
      BY <2>3 DEF IInv, Listing
    <3>2. ASSUME NEW b \in Accepted("backup")' PROVE Listed(b, S)'
      <4>1. b \in Requests /\ requests[b].op = "backup" /\ Listed(b, S)
        BY <1>1, <3>1 DEF Accepted, Done
      <4>2. QED
        BY <4>1, ListedStays DEF IInv
    <3>3. QED
      BY <2>1, <3>1, <3>2 DEF Listed
  <2>4. QED
    BY <1>2, <1>4, <2>1, <2>2, <2>3
<1>5. QED
  BY <1>2, <1>3, <1>4 DEF Listing, Listed

(***************************************************************************)
(* Steps that write no store, archive or list, and acknowledge nothing     *)
(* but what has been written or restored.                                  *)
(***************************************************************************)
Quiet(y, x) ==
  /\ y.op = "write" => /\ y.pc \in Opening => x.op = "write" /\ y.pc = x.pc /\ y.mig = x.mig
                       /\ y.pc = "written" \/ y.ok => x.op = "write" /\ (x.pc = "written" \/ x.ok)
  /\ y.pc \in Copying => y = x \/ (y.pc = "copying" /\ y.left = Files)
  /\ y.op = "restore" => /\ x.op = "restore"
                         /\ y.pc = "copied" => x.pc = "copied" /\ y.calm = x.calm
                         /\ y.ok => (x.pc = "copied" \/ x.ok) /\ y.calm = x.calm
  /\ y.op = "backup" /\ y.ok => x.ok
  /\ y.pc \in {"indexing", "emptied"} => x.pc \in {"indexing", "emptied"} /\ y.seen = x.seen

LEMMA SelfQuiet == ASSUME NEW x PROVE Quiet(x, x)
BY DEF Quiet

LEMMA QuietStep ==
  ASSUME IInv, TablesOK', Steps, \A q \in Requests : Quiet(requests'[q], requests[q]),
         UNCHANGED <<whole, archives, index>>,
         \A t \in Tenants : Content(store'[t]) = Content(store[t])
  PROVE  IInv'
<1>1. Typed' /\ Past'
  BY StepsFacts DEF IInv, Typed, TypeOK, Steps
<1>2. ArchivesNamed'
  BY NamesStay DEF Quiet
<1>3. \A t \in Tenants : StoreSound(t)'
  <2>1. ASSUME NEW r \in Requests, requests'[r].op = "write", requests'[r].pc \in Opening, whole[requests'[r].tenant]
        PROVE  Checked(requests'[r], Content(store[requests'[r].tenant]))
    <3>1. requests[r].op = "write" /\ requests'[r].pc = requests[r].pc /\ requests'[r].mig = requests[r].mig
      BY <2>1 DEF Quiet
    <3>2. requests[r].pc \in Opening /\ requests[r].tenant \in Tenants /\ requests'[r].tenant = requests[r].tenant
      BY <2>1, <3>1 DEF Opening, IInv, Typed, Placements, Placed, Steps, Continues
    <3>3. r \in Connected(requests[r].tenant)
      BY <3>1, <3>2 DEF Connected, InFlight, Done, Fresh, Opening
    <3>4. Checked(requests[r], Content(store[requests[r].tenant]))
      BY <2>1, <3>2, <3>3 DEF IInv, StoreSound
    <3>5. QED
      BY <3>1, <3>2, <3>4 DEF Checked
  <2>2. QED
    BY <2>1, StoresStay DEF Quiet
<1>4. \A b \in Requests : CopySound(b)'
  BY CopiesStay DEF Quiet
<1>5. \A a \in archives' : ArchiveSound(a)'
  BY ArchivesStay
<1>6. \A t \in Tenants : Keeps(t)
  BY DEF Keeps
<1>7. ASSUME NEW q \in Requests PROVE GivenBack(q)'
  <2>1. requests[q].op = "restore" => requests[q].tenant \in Tenants
    BY DEF IInv, Typed, Placements, Placed
  <2>2. GivenBack(q)'
    BY <1>6, <2>1, GivenStays DEF Quiet
  <2>3. QED
    BY <2>2
<1>8. Listing'
  BY ListingStays DEF Quiet
<1>9. QED
  BY <1>1, <1>2, <1>3, <1>4, <1>5, <1>7, <1>8 DEF IInv

LEMMA QuietMove ==
  ASSUME IInv, TablesOK', NEW r \in Requests, NEW y, Moves(r, y), Quiet(y, requests[r]),
         UNCHANGED <<whole, archives, index>>,
         \A t \in Tenants : Content(store'[t]) = Content(store[t])
  PROVE  IInv'
<1>1. \A q \in Requests : Quiet(requests'[q], requests[q])
  BY SelfQuiet DEF Moves
<1>2. QED
  BY <1>1, QuietStep DEF Moves

LEMMA CommitAdds ==
  ASSUME TablesOK, NEW t \in Tenants, NEW c \in CommitRecords, Commit(t, c)
  PROVE  /\ store' \in [Tenants -> FileRecords]
         /\ Content(store'[t]) = Content(store[t]) \cup {c}
         /\ \A u \in Tenants \ {t} : store'[u] = store[u]
<1>1. store \in [Tenants -> FileRecords] /\ store[t] \in FileRecords
  BY DEF TablesOK
<1>2. PICK wal \in Logs(store[t], c), moved \in BOOLEAN :
        store' = [store EXCEPT ![t] = [db |-> IF moved THEN store[t].db \cup wal ELSE store[t].db, wal |-> wal]]
  BY <1>1 DEF Commit
<1>3. PICK db : db = IF moved THEN store[t].db \cup wal ELSE store[t].db
  OBVIOUS
<1>4. store' = [store EXCEPT ![t] = [db |-> db, wal |-> wal]]
  BY <1>2, <1>3
<1>5. wal = store[t].wal \cup {c} \/ (wal = {c} /\ store[t].wal \subseteq store[t].db)
  BY <1>2 DEF Logs
<1>6. [db |-> db, wal |-> wal] \in FileRecords
  BY <1>1, <1>3, <1>5 DEF FileRecords
<1>7. store'[t] = [db |-> db, wal |-> wal]
  BY <1>1, <1>4
<1>8. db \cup wal = store[t].db \cup store[t].wal \cup {c}
  BY <1>3, <1>5
<1>9. QED
  BY <1>1, <1>4, <1>6, <1>7, <1>8 DEF Content

LEMMA DropKeeps ==
  ASSUME TablesOK, NEW r, requests[r].tenant \in Tenants, Drop(r)
  PROVE  store' \in [Tenants -> FileRecords] /\ \A t \in Tenants : Content(store'[t]) = Content(store[t])
<1>1. PICK t \in Tenants : t = requests[r].tenant
  OBVIOUS
<1>2. store \in [Tenants -> FileRecords] /\ store[t] \in FileRecords
  BY DEF TablesOK
<1>3. \/ store' = store
      \/ store' = [store EXCEPT ![t] = [db |-> Content(store[t]), wal |-> {}]]
  BY <1>1, <1>2 DEF Drop
<1>4. CASE store' = store
  BY <1>2, <1>4
<1>5. CASE store' = [store EXCEPT ![t] = [db |-> Content(store[t]), wal |-> {}]]
  <2>1. [db |-> Content(store[t]), wal |-> {}] \in FileRecords
    BY <1>2 DEF FileRecords, Content
  <2>2. Content([db |-> Content(store[t]), wal |-> {}]) = Content(store[t])
    BY DEF Content
  <2>3. QED
    BY <1>2, <1>5, <2>1, <2>2
<1>6. QED
  BY <1>3, <1>4, <1>5

LEMMA FailKeeps == ASSUME IInv, NEW r \in Requests, Fail(r) PROVE IInv'
<1>1. /\ requests[r].pc \notin {"new", "done"} /\ Finish(r, FALSE)
      /\ UNCHANGED <<tenants, whole, archives, index>>
      /\ Typed /\ TablesOK /\ Placed(requests[r])
  BY DEF Fail, InFlight, Done, Fresh, IInv, Typed, TypeOK, Placements
<1>2. PICK y : Moves(r, y) /\ y.pc = "done" /\ ~y.ok
  BY <1>1, FinishMoves
<1>3. Quiet(y, requests[r])
  BY <1>1, <1>2 DEF Quiet, Opening, Moves, Continues
<1>4. store' \in [Tenants -> FileRecords] /\ \A t \in Tenants : Content(store'[t]) = Content(store[t])
  <2>1. CASE requests[r].op = "write"
    <3>1. requests[r].tenant \in Tenants
      BY <1>1, <2>1 DEF Placed, IInv, Typed, TypeOK, RequestRecords, Labels
    <3>2. QED
      BY <1>1, <2>1, <3>1, DropKeeps DEF Fail
  <2>2. CASE requests[r].op # "write"
    BY <1>1, <2>2 DEF Fail, TablesOK
  <2>3. QED
    BY <2>1, <2>2
<1>5. TablesOK'
  BY <1>1, <1>4 DEF TablesOK
<1>6. QED
  BY <1>1, <1>2, <1>3, <1>4, <1>5, QuietMove

LEMMA CloseKeeps == ASSUME IInv, NEW r \in Requests, CloseStore(r) PROVE IInv'
<1>1. /\ requests[r].pc = "written" /\ requests[r].op = "write" /\ Drop(r)
      /\ UNCHANGED <<tenants, whole, archives, index>>
      /\ Typed /\ TablesOK /\ requests[r].tenant \in Tenants
  BY DEF CloseStore, At, IInv, Typed, TypeOK, Placements, Placed
<1>2. PICK y : Moves(r, y) /\ y.pc = "done" /\ y.op = "write"
  <2>1. PICK ok \in BOOLEAN : Finish(r, ok)
    BY DEF CloseStore
  <2>2. QED
    BY <1>1, <2>1, FinishMoves
<1>3. Quiet(y, requests[r])
  BY <1>1, <1>2 DEF Quiet, Opening
<1>4. store' \in [Tenants -> FileRecords] /\ \A t \in Tenants : Content(store'[t]) = Content(store[t])
  BY <1>1, DropKeeps
<1>5. TablesOK'
  BY <1>1, <1>4 DEF TablesOK
<1>6. QED
  BY <1>1, <1>2, <1>3, <1>4, <1>5, QuietMove

LEMMA CreateKeeps == ASSUME IInv, NEW r \in Requests, CreateTenant(r) PROVE IInv'
<1> DEFINE x == [NewReq EXCEPT !.pc = "done"]
<1>1. PICK slug \in Slugs :
        /\ Begin(r, "create", x)
        /\ tenants' = tenants \cup {z \in {[id |-> r, slug |-> slug, status |-> "active"]} : ~Taken(slug, r)}
  BY DEF CreateTenant
<1>2. UNCHANGED <<store, whole, archives, index>> /\ Typed /\ TablesOK
  BY DEF CreateTenant, disk, IInv, Typed, TypeOK
<1>3. x \in RequestRecords /\ x.pc = "done" /\ x.ok = FALSE /\ Placed([x EXCEPT !.op = "create"])
  BY NewReqTyped DEF RequestRecords, Labels, NewReq, Placed
<1> HIDE DEF x
<1>4. PICK y : Came(r, y, "create", x)
  BY <1>1, <1>2, <1>3, BeginCame DEF Ops
<1>5. Quiet(y, requests[r])
  BY <1>3, <1>4 DEF Came, Quiet, Opening
<1>6. [id |-> r, slug |-> slug, status |-> "active"] \in [id : Tenants \cup Int, slug : Slugs, status : Statuses]
  BY StoresAssumption DEF Statuses
<1>7. TablesOK'
  BY <1>1, <1>2, <1>6 DEF TablesOK
<1>8. QED
  BY <1>2, <1>4, <1>5, <1>7, QuietMove DEF Came

LEMMA ResolveKeeps == ASSUME IInv, NEW r \in Requests, ResolveTenant(r) PROVE IInv'
<1>1. PICK z \in tenants, op \in {"update", "delete"} :
        Begin(r, op, [NewReq EXCEPT !.pc = "resolved", !.tenant = z.id])
  BY DEF ResolveTenant
<1>2. UNCHANGED <<tenants, store, whole, archives, index>> /\ Typed /\ TablesOK
  BY DEF ResolveTenant, disk, IInv, Typed, TypeOK
<1>3. PICK x : x = [NewReq EXCEPT !.pc = "resolved", !.tenant = z.id]
  OBVIOUS
<1>4. x \in RequestRecords /\ x.pc = "resolved" /\ x.ok = FALSE /\ x.op = "none"
  BY <1>2, <1>3, NewReqTyped DEF TablesOK, RequestRecords, Labels, NewReq
<1>5. Placed([x EXCEPT !.op = op])
  BY <1>4 DEF Placed, RequestRecords
<1>6. PICK y : Came(r, y, op, x)
  BY <1>1, <1>2, <1>3, <1>4, <1>5, BeginCame DEF Ops
<1>7. Quiet(y, requests[r])
  BY <1>4, <1>6 DEF Came, Quiet, Opening
<1>8. TablesOK'
  BY <1>2 DEF TablesOK
<1>9. QED
  BY <1>2, <1>6, <1>7, <1>8, QuietMove DEF Came

LEMMA UpdateKeeps == ASSUME IInv, NEW r \in Requests, UpdateTenant(r) PROVE IInv'
<1>1. PICK slug \in Slugs, free \in BOOLEAN :
        /\ tenants' = {IF free /\ x.id = requests[r].tenant THEN [x EXCEPT !.slug = slug] ELSE x : x \in tenants}
        /\ Finish(r, free)
  BY DEF UpdateTenant, Taken
<1>2. /\ requests[r].pc = "resolved" /\ requests[r].op = "update"
      /\ UNCHANGED <<store, whole, archives, index>> /\ Typed /\ TablesOK
  BY DEF UpdateTenant, At, disk, IInv, Typed, TypeOK
<1>3. PICK y : Moves(r, y) /\ y.pc = "done" /\ y.op = "update"
  BY <1>1, <1>2, FinishMoves
<1>4. Quiet(y, requests[r])
  BY <1>3 DEF Quiet, Opening
<1>5. \A x \in tenants : [x EXCEPT !.slug = slug] \in [id : Tenants \cup Int, slug : Slugs, status : Statuses]
  BY <1>2 DEF TablesOK
<1>6. TablesOK'
  BY <1>1, <1>2, <1>5 DEF TablesOK
<1>7. QED
  BY <1>2, <1>3, <1>4, <1>6, QuietMove

LEMMA DeleteKeeps == ASSUME IInv, NEW r \in Requests, DeleteTenant(r) PROVE IInv'
<1>1. /\ requests[r].pc = "resolved" /\ requests[r].op = "delete" 
      /\ tenants' = {IF x.id = requests[r].tenant THEN [x EXCEPT !.status = "deleted"] ELSE x : x \in tenants}
      /\ UNCHANGED <<store, whole, archives, index>> /\ Typed /\ TablesOK
  BY DEF DeleteTenant, At, disk, IInv, Typed, TypeOK
<1>2. PICK y : Moves(r, y) /\ y.pc = "done" /\ y.op = "delete"
  <2>1. PICK ok \in BOOLEAN : Finish(r, ok)
    BY DEF DeleteTenant
  <2>2. QED
    BY <1>1, <2>1, FinishMoves
<1>3. Quiet(y, requests[r])
  BY <1>2 DEF Quiet, Opening
<1>4. \A x \in tenants : [x EXCEPT !.status = "deleted"] \in [id : Tenants \cup Int, slug : Slugs, status : Statuses]
  BY <1>1 DEF TablesOK, Statuses
<1>5. TablesOK'
  BY <1>1, <1>4 DEF TablesOK
<1>6. QED
  BY <1>1, <1>2, <1>3, <1>5, QuietMove

LEMMA ArchiveIs ==
  ASSUME ArchivesNamed, NEW r \in Requests, requests[r].op = "restore"
  PROVE  /\ Archive(r) \in archives /\ Archive(r).by = requests[r].archive
         /\ Archive(r).row.id = requests[r].tenant
         /\ \A a \in archives : a.by = requests[r].archive => a = Archive(r)
<1>1. PICK a \in archives : a.by = requests[r].archive /\ a.row.id = requests[r].tenant
  BY DEF ArchivesNamed
<1>2. Archive(r) \in archives /\ Archive(r).by = requests[r].archive
  BY <1>1 DEF Archive
<1>3. \A b \in archives : b.by = requests[r].archive => b = Archive(r)
  BY <1>2 DEF ArchivesNamed
<1>4. QED
  BY <1>1, <1>2, <1>3

LEMMA EnsureKeeps == ASSUME IInv, NEW r \in Requests, EnsureRecord(r) PROVE IInv'
<1>1. /\ requests[r].pc = "unpacked" /\ requests[r].op = "restore" /\ requests[r].tenant \in Tenants
      /\ UNCHANGED <<store, whole, archives, index>>
      /\ Typed /\ TablesOK /\ ArchivesNamed /\ ~requests[r].ok
      /\ requests \in [Requests -> RequestRecords] /\ requests[r] \in RequestRecords
  BY DEF EnsureRecord, At, disk, IInv, Typed, TypeOK, Placements, Placed
<1>2. PICK a \in archives : a = Archive(r)
  BY <1>1, ArchiveIs
<1>3. a.row \in [id : Tenants \cup Int, slug : Slugs, status : Statuses]
  BY <1>1 DEF TablesOK, ArchiveRecords
<1>4. CASE ~Taken(a.row.slug, a.row.id)
  <2>1. PICK left : left = Restored(a)
    OBVIOUS
  <2>2. PICK y : y = [requests[r] EXCEPT !.pc = "recorded", !.left = left]
    OBVIOUS
  <2>3. left \subseteq Files /\ left # {}
    BY <2>1 DEF Restored, Files
  <2>4. /\ tenants' = {x \in tenants : x.id # a.row.id} \cup {a.row}
        /\ requests' = [requests EXCEPT ![r] = y]
    BY <1>1, <1>2, <1>4, <2>1, <2>2 DEF EnsureRecord
  <2>5. y \in RequestRecords
    BY <1>1, <2>2, <2>3 DEF RequestRecords, Labels
  <2>6. /\ y.pc = "recorded" /\ y.left # {} /\ y.op = "restore" /\ ~y.ok
        /\ y.tenant = requests[r].tenant /\ y.archive = requests[r].archive /\ y.before = requests[r].before
    BY <1>1, <2>2, <2>3 DEF RequestRecords
  <2>7. Placed(y)
    BY <1>1, <2>6 DEF Placed
  <2>8. Goes(r, y)
    BY <1>1, <2>4, <2>5, <2>6, <2>7, ChangeGoes
  <2>9. Quiet(y, requests[r])
    BY <1>1, <2>6 DEF Quiet
  <2>10. TablesOK'
    BY <1>1, <1>3, <2>4 DEF TablesOK
  <2>11. QED
    BY <1>1, <2>8, <2>9, <2>10, QuietMove DEF Goes
<1>5. CASE Taken(a.row.slug, a.row.id)
  <2>1. Finish(r, FALSE) /\ UNCHANGED tenants
    BY <1>2, <1>5 DEF EnsureRecord
  <2>2. PICK y : Moves(r, y) /\ y.pc = "done" /\ y.op = "restore" /\ ~y.ok
    BY <1>1, <2>1, FinishMoves
  <2>3. Quiet(y, requests[r])
    BY <1>1, <2>2 DEF Quiet
  <2>4. TablesOK'
    BY <1>1, <2>1 DEF TablesOK
  <2>5. QED
    BY <1>1, <2>2, <2>3, <2>4, QuietMove
<1>6. QED
  BY <1>4, <1>5

LEMMA BackupKeeps == ASSUME IInv, NEW r \in Requests, BeginBackup(r) PROVE IInv'
<1>1. PICK z \in tenants :
        /\ z.id \in Tenants
        /\ Begin(r, "backup", [NewReq EXCEPT !.pc = "copying", !.tenant = z.id, !.slug = z.slug,
                                             !.status = z.status, !.left = Copied])
  BY DEF BeginBackup
<1>2. UNCHANGED <<tenants, store, whole, archives, index>> /\ Typed /\ TablesOK
  BY DEF BeginBackup, disk, IInv, Typed, TypeOK
<1>3. PICK x : x = [NewReq EXCEPT !.pc = "copying", !.tenant = z.id, !.slug = z.slug,
                                  !.status = z.status, !.left = Copied]
  OBVIOUS
<1>4. z \in [id : Tenants \cup Int, slug : Slugs, status : Statuses]
  BY <1>2 DEF TablesOK
<1>5. x \in RequestRecords
  BY <1>3, <1>4, NewReqTyped DEF RequestRecords, Labels, Copied
<1>6. x.pc = "copying" /\ x.ok = FALSE /\ x.left = Files /\ x.tenant \in Tenants
  BY <1>1, <1>3, NewReqTyped DEF RequestRecords, NewReq, Copied
<1>7. Placed([x EXCEPT !.op = "backup"])
  BY <1>5, <1>6 DEF Placed, RequestRecords
<1>8. PICK y : Came(r, y, "backup", x)
  BY <1>1, <1>2, <1>3, <1>5, <1>6, <1>7, BeginCame DEF Ops
<1>9. Quiet(y, requests[r])
  BY <1>6, <1>8 DEF Came, Quiet, Opening
<1>10. TablesOK'
  BY <1>2 DEF TablesOK
<1>11. QED
  BY <1>2, <1>8, <1>9, <1>10, QuietMove DEF Came

LEMMA RestartKeeps == ASSUME IInv, Restart PROVE IInv'
<1>1. /\ UNCHANGED <<store, whole, archives, index>>
      /\ requests' = [r \in Requests |-> IF r \in InFlight THEN Over(requests[r], FALSE) ELSE requests[r]]
      /\ \/ tenants' = tenants
         \/ \E id \in NewDefaults :
              tenants' = tenants \cup {[id |-> id, slug |-> "default", status |-> "active"]}
  BY DEF Restart, disk
<1>2. Typed /\ TablesOK
  BY DEF IInv, Typed, TypeOK
<1>3. ASSUME NEW q \in Requests
      PROVE  Continues(requests'[q], requests[q]) /\ Quiet(requests'[q], requests[q])
  <2>1. requests[q] \in RequestRecords /\ Placed(requests[q])
    BY <1>2 DEF Typed, TypeOK, Placements
  <2>2. CASE q \in InFlight
    <3>1. PICK y : y = Over(requests[q], FALSE)
      OBVIOUS
    <3>2. Continues(y, requests[q]) /\ y.pc = "done" /\ ~y.ok /\ y.op = requests[q].op
      BY <2>1, <2>2, <3>1, OverIs DEF InFlight, Done, Fresh
    <3>3. Quiet(y, requests[q])
      BY <3>2 DEF Quiet, Opening
    <3>4. requests'[q] = y
      BY <1>1, <2>2, <3>1
    <3>5. QED
      BY <3>2, <3>3, <3>4
  <2>3. CASE q \notin InFlight
    <3>1. requests'[q] = requests[q]
      BY <1>1, <2>3
    <3>2. Continues(requests[q], requests[q])
      BY <2>1 DEF Continues
    <3>3. QED
      BY <3>1, <3>2, SelfQuiet
  <2>4. QED
    BY <2>2, <2>3
<1>4. Steps
  <2>1. requests' \in [Requests -> RequestRecords]
    BY <1>1, <1>3 DEF Continues
  <2>2. QED
    BY <1>3, <2>1 DEF Steps
<1>5. TablesOK'
  <2>1. \A id \in NewDefaults : [id |-> id, slug |-> "default", status |-> "active"]
                                  \in [id : Tenants \cup Int, slug : Slugs, status : Statuses]
    BY StoresAssumption DEF Statuses
  <2>2. QED
    BY <1>1, <1>2, <2>1 DEF TablesOK
<1>6. \A t \in Tenants : Content(store'[t]) = Content(store[t])
  BY <1>1, <1>2 DEF TablesOK
<1>7. QED
  BY <1>1, <1>3, <1>4, <1>5, <1>6, QuietStep

(***************************************************************************)
(* Openers and writers of a store.                                         *)
(***************************************************************************)
LEMMA WriteStep ==
  ASSUME IInv, TablesOK', NEW r \in Requests, NEW y, Moves(r, y), y.op = "write",
         UNCHANGED <<archives, index>>,
         \A t \in Tenants : Keeps(t), \A t \in Tenants : StoreSound(t)'
  PROVE  IInv'
<1>1. Steps /\ requests'[r] = y /\ \A q \in Requests \ {r} : requests'[q] = requests[q]
  BY DEF Moves
<1>2. Typed' /\ Past'
  BY <1>1, StepsFacts DEF IInv, Typed, TypeOK, Steps
<1>3. /\ \A q \in Requests : requests'[q].op \in {"restore", "backup"} => requests'[q] = requests[q]
      /\ y.pc \notin Copying \cup {"indexing", "emptied"}
  BY <1>1, <1>2 DEF Typed, Placements, Placed
<1>4. ArchivesNamed'
  BY <1>1, <1>3, NamesStay
<1>5. \A b \in Requests : CopySound(b)'
  BY <1>1, <1>3, CopiesStay
<1>6. \A a \in archives' : ArchiveSound(a)'
  BY <1>1, ArchivesStay
<1>7. ASSUME NEW q \in Requests PROVE GivenBack(q)'
  <2>1. requests[q].op = "restore" => requests[q].tenant \in Tenants
    BY DEF IInv, Typed, Placements, Placed
  <2>2. GivenBack(q)'
    BY <1>1, <1>3, <2>1, GivenStays
  <2>3. QED
    BY <2>2
<1>8. Listing'
  BY <1>1, <1>3, ListingStays
<1>9. QED
  BY <1>2, <1>4, <1>5, <1>6, <1>7, <1>8 DEF IInv

LEMMA OpenKeeps == ASSUME IInv, NEW r \in Requests, OpenStore(r) PROVE IInv'
<1>1. PICK z \in tenants :
        z.id \in Tenants /\ Begin(r, "write", [NewReq EXCEPT !.pc = "opened", !.tenant = z.id, !.mig = 1])
  BY DEF OpenStore
<1>2. UNCHANGED <<tenants, store, whole, archives, index>> /\ Typed /\ TablesOK
  BY DEF OpenStore, disk, IInv, Typed, TypeOK
<1>3. PICK x : x = [NewReq EXCEPT !.pc = "opened", !.tenant = z.id, !.mig = 1]
  OBVIOUS
<1>4. x \in RequestRecords /\ x.pc = "opened" /\ x.ok = FALSE /\ x.tenant \in Tenants /\ x.mig = 1
  BY <1>1, <1>3, NewReqTyped DEF RequestRecords, Labels, NewReq
<1>5. Placed([x EXCEPT !.op = "write"])
  BY <1>4 DEF Placed, RequestRecords
<1>6. PICK y : Came(r, y, "write", x)
  BY <1>1, <1>2, <1>3, <1>4, <1>5, BeginCame DEF Ops
<1>7. Moves(r, y) /\ y.op = "write" /\ y.pc = "opened" /\ ~y.ok /\ y.mig = 1
  BY <1>4, <1>6 DEF Came
<1>8. TablesOK' /\ \A t \in Tenants : Keeps(t) /\ Content(store'[t]) = Content(store[t])
  BY <1>2 DEF TablesOK, Keeps
<1>9. ASSUME NEW q \in Requests, requests'[q].op = "write", requests'[q].pc \in Opening, whole[requests'[q].tenant]
      PROVE  Checked(requests'[q], Content(store[requests'[q].tenant]))
  <2>1. CASE q = r
    BY <1>7, <2>1 DEF Moves, Checked
  <2>2. CASE q # r
    <3>1. requests'[q] = requests[q] /\ requests[q].tenant \in Tenants /\ q \in Connected(requests[q].tenant)
      BY <1>7, <1>9, <2>2 DEF Moves, IInv, Typed, Placements, Placed, Opening, Connected, InFlight, Done, Fresh
    <3>2. QED
      BY <1>9, <3>1 DEF IInv, StoreSound
  <2>3. QED
    BY <2>1, <2>2
<1>10. \A w \in Requests : requests'[w].op = "write" /\ (requests'[w].pc = "written" \/ requests'[w].ok) =>
         requests[w].op = "write" /\ (requests[w].pc = "written" \/ requests[w].ok)
  BY <1>7 DEF Moves
<1>11. \A t \in Tenants : StoreSound(t)'
  BY <1>2, <1>7, <1>8, <1>9, <1>10, StoresStay DEF Moves
<1>12. QED
  BY <1>2, <1>7, <1>8, <1>11, WriteStep

LEMMA CheckKeeps == ASSUME IInv, NEW r \in Requests, CheckMigration(r) PROVE IInv'
<1> DEFINE x == requests[r]
           C == Content(store[requests[r].tenant])
<1>1. /\ x.pc = "opened" /\ x.op = "write" /\ x.tenant \in Tenants /\ x.mig \in Nat /\ x.mig >= 1 /\ ~x.ok
      /\ UNCHANGED <<tenants, store, whole, archives, index>>
      /\ Typed /\ TablesOK /\ x \in RequestRecords
  BY DEF CheckMigration, At, disk, IInv, Typed, TypeOK, Placements, Placed, RequestRecords
<1>2. PICK y : /\ requests' = [requests EXCEPT ![r] = y]
               /\ \/ x.mig > Migrations /\ y = [x EXCEPT !.pc = "ready"]
                  \/ x.mig <= Migrations /\ Applied(x.tenant, x.mig) /\ y = [x EXCEPT !.mig = @ + 1]
                  \/ x.mig <= Migrations /\ ~Applied(x.tenant, x.mig) /\ y = [x EXCEPT !.pc = "missing"]
  <2>1. PICK y : y = IF x.mig > Migrations THEN [x EXCEPT !.pc = "ready"]
                     ELSE IF Applied(x.tenant, x.mig) THEN [x EXCEPT !.mig = @ + 1]
                     ELSE [x EXCEPT !.pc = "missing"]
    OBVIOUS
  <2>2. requests' = [requests EXCEPT ![r] = y]
    BY <2>1 DEF CheckMigration
  <2>3. x.mig > Migrations \/ x.mig <= Migrations
    BY <1>1, StoresAssumption
  <2>4. QED
    BY <2>1, <2>2, <2>3
<1>3. /\ y \in RequestRecords /\ y.op = x.op /\ y.tenant = x.tenant /\ y.archive = x.archive
      /\ y.before = x.before /\ y.ok = x.ok
      /\ \/ x.mig > Migrations /\ y.pc = "ready"
         \/ Applied(x.tenant, x.mig) /\ y.pc = "opened" /\ y.mig = x.mig + 1
         \/ x.mig <= Migrations /\ y.pc = "missing" /\ y.mig = x.mig
  BY <1>1, <1>2 DEF RequestRecords, Labels
<1>4. Placed(y)
  BY <1>1, <1>3 DEF Placed
<1>5. Goes(r, y)
  BY <1>1, <1>2, <1>3, <1>4, ChangeGoes
<1>6. TablesOK' /\ \A t \in Tenants : Keeps(t) /\ Content(store'[t]) = Content(store[t])
  BY <1>1 DEF TablesOK, Keeps
<1>7. ASSUME whole[x.tenant] PROVE Checked(y, C)
  <2>1. r \in Connected(x.tenant)
    BY <1>1 DEF Connected, InFlight, Done, Fresh
  <2>2. \A k \in 1 .. x.mig - 1 : Has(C, k)
    BY <1>1, <1>7, <2>1 DEF IInv, StoreSound, Checked
  <2>3. Applied(x.tenant, x.mig) => Has(C, x.mig)
    BY DEF Applied, Has
  <2>4. Migrations \in Nat
    BY StoresAssumption
  <2> HIDE DEF C
  <2>5. CASE x.mig > Migrations /\ y.pc = "ready"
    <3>1. \A k \in 1 .. Migrations : k \in 1 .. x.mig - 1
      BY <1>1, <2>4, <2>5
    <3>2. QED
      BY <2>2, <2>5, <3>1 DEF Checked
  <2>6. CASE Applied(x.tenant, x.mig) /\ y.pc = "opened" /\ y.mig = x.mig + 1
    <3>1. \A k \in 1 .. y.mig - 1 : k \in 1 .. x.mig - 1 \/ k = x.mig
      BY <1>1, <2>6
    <3>2. QED
      BY <2>2, <2>3, <2>6, <3>1 DEF Checked
  <2>7. CASE y.pc = "missing" /\ y.mig = x.mig
    BY <2>2, <2>7 DEF Checked
  <2>8. QED
    BY <1>3, <2>5, <2>6, <2>7
<1>8. ASSUME NEW q \in Requests, requests'[q].op = "write", requests'[q].pc \in Opening, whole[requests'[q].tenant]
      PROVE  Checked(requests'[q], Content(store[requests'[q].tenant]))
  <2>1. CASE q = r
    BY <1>3, <1>5, <1>7, <1>8, <2>1 DEF Goes, Moves
  <2>2. CASE q # r
    <3>1. requests'[q] = requests[q] /\ requests[q].tenant \in Tenants /\ q \in Connected(requests[q].tenant)
      BY <1>5, <1>8, <2>2 DEF Goes, Moves, IInv, Typed, Placements, Placed, Opening, Connected, InFlight, Done, Fresh
    <3>2. QED
      BY <1>8, <3>1 DEF IInv, StoreSound
  <2>3. QED
    BY <2>1, <2>2
<1>9. \A w \in Requests : requests'[w].op = "write" /\ (requests'[w].pc = "written" \/ requests'[w].ok) =>
         requests[w].op = "write" /\ (requests[w].pc = "written" \/ requests[w].ok)
  BY <1>1, <1>3, <1>5 DEF Goes, Moves
<1>10. \A t \in Tenants : StoreSound(t)'
  BY <1>1, <1>5, <1>6, <1>8, <1>9, StoresStay DEF Goes, Moves
<1>11. QED
  BY <1>1, <1>3, <1>5, <1>6, <1>10, WriteStep DEF Goes

LEMMA GrowSound ==
  ASSUME IInv, NEW r \in Requests, NEW y, Moves(r, y), NEW t \in Tenants, requests[r].op = "write",
         requests[r].tenant = t, NEW c, c.by = r, UNCHANGED whole,
         Content(store'[t]) = Content(store[t]) \cup {c},
         \A u \in Tenants \ {t} : store'[u] = store[u],
         whole[t] => Migrated(Content(store[t]) \cup {c}) /\ Checked(y, Content(store[t]) \cup {c}),
         y.pc = "written" => c.mig = 0, ~y.ok
  PROVE  \A u \in Tenants : StoreSound(u)'
<1>1. /\ Steps /\ requests'[r] = y /\ \A q \in Requests \ {r} : requests'[q] = requests[q]
      /\ y.op = "write" /\ y.tenant = t
  BY DEF Moves, Continues, IInv, Typed, Placements, Placed
<1> SUFFICES ASSUME NEW u \in Tenants PROVE StoreSound(u)'
  OBVIOUS
<1>2. StoreSound(u)
  BY DEF IInv
<1>3. PICK C : C = Content(store[u])
  OBVIOUS
<1>4. PICK D : D = Content(store'[u])
  OBVIOUS
<1>5. (u = t /\ D = C \cup {c}) \/ (u # t /\ D = C)
  BY <1>3, <1>4
<1>6. ASSUME whole[u] PROVE Migrated(D) /\ \A q \in Connected(u)' : Checked(requests'[q], D)
  <2>1. Migrated(D)
    BY <1>2, <1>3, <1>5, <1>6 DEF StoreSound
  <2>2. ASSUME NEW q \in Connected(u)' PROVE Checked(requests'[q], D)
    <3>1. CASE q = r
      <4>1. u = t
        BY <1>1, <2>2, <3>1 DEF Connected
      <4>2. QED
        BY <1>1, <1>3, <1>5, <1>6, <3>1, <4>1
    <3>2. CASE q # r
      <4>1. q \in Connected(u) /\ requests'[q] = requests[q]
        BY <1>1, <3>2 DEF Connected, InFlight, Done, Fresh
      <4>2. Checked(requests[q], C)
        BY <1>2, <1>3, <1>6, <4>1 DEF StoreSound
      <4>3. \A k : Has(C, k) => Has(D, k)
        BY <1>5 DEF Has
      <4>4. QED
        BY <4>1, <4>2, <4>3 DEF Checked
    <3>3. QED
      BY <3>1, <3>2
  <2>3. QED
    BY <2>1, <2>2
<1>7. ASSUME RestoresOf(u)' = {}
      PROVE  Named(D)' /\ \A w \in Requests : Acknowledged(w, u)' => w \in Writers(D)
  <2>1. RestoresOf(u) = {}
    BY <1>1, <1>7, StepsFacts DEF IInv
  <2>2. Named(C) /\ \A w \in Requests : Acknowledged(w, u) => w \in Writers(C)
    BY <1>2, <1>3, <2>1 DEF StoreSound
  <2>3. Named(C)'
    BY <1>1, <2>2, NamedStays DEF IInv
  <2>4. Named(D)'
    BY <1>1, <1>5, <2>3 DEF Named
  <2>5. Writers(C) \subseteq Writers(D)
    BY <1>5 DEF Writers
  <2>6. ASSUME NEW w \in Requests, Acknowledged(w, u)' PROVE w \in Writers(D)
    <3>1. CASE w = r
      <4>1. u = t /\ c.mig = 0
        BY <1>1, <2>6, <3>1 DEF Acknowledged
      <4>2. QED
        BY <1>5, <3>1, <4>1 DEF Writers
    <3>2. CASE w # r
      <4>1. Acknowledged(w, u)
        BY <1>1, <2>6, <3>2 DEF Acknowledged
      <4>2. QED
        BY <2>2, <2>5, <4>1
    <3>3. QED
      BY <3>1, <3>2
  <2>7. QED
    BY <2>4, <2>6
<1>8. whole'[u] => Migrated(Content(store[u]))' /\ \A q \in Connected(u)' : Checked(requests[q], Content(store[u]))'
  BY <1>4, <1>6 DEF Migrated, Checked, Has
<1>9. RestoresOf(u)' = {} =>
        Named(Content(store[u]))' /\ \A w \in Requests : Acknowledged(w, u)' => w \in Writers(Content(store[u]))'
  BY <1>4, <1>7 DEF Named, Writers
<1>10. QED
  BY <1>8, <1>9 DEF StoreSound

LEMMA GrowKeeps ==
  ASSUME NEW r \in Requests, r \notin Done, NEW t \in Tenants, NEW c, c.by = r,
         Content(store'[t]) = Content(store[t]) \cup {c},
         \A u \in Tenants \ {t} : store'[u] = store[u]
  PROVE  \A u \in Tenants : Keeps(u)
<1> SUFFICES ASSUME NEW u \in Tenants PROVE Keeps(u)
  OBVIOUS
<1>1. Writers(Content(store'[u])) \subseteq Writers(Content(store[u])) \cup {r}
      /\ Writers(Content(store[u])) \subseteq Writers(Content(store'[u]))
  BY DEF Writers
<1>2. QED
  BY <1>1 DEF Keeps

LEMMA MigratedGrows ==
  ASSUME NEW C, NEW c, Migrated(C), c.mig # 0 => ~Has(C, c.mig),
         \A k \in 1 .. (IF c.mig = 0 THEN Migrations ELSE c.mig - 1) : Has(C, k)
  PROVE  Migrated(C \cup {c})
<1>1. \A d, e \in C \cup {c} : d.mig = e.mig /\ d.mig # 0 => d = e
  BY DEF Migrated, Has
<1>2. \A d \in C \cup {c} : \A m \in 1 .. (IF d.mig = 0 THEN Migrations ELSE d.mig - 1) :
        \E e \in C \cup {c} : e.mig = m
  BY DEF Migrated, Has
<1>3. QED
  BY <1>1, <1>2 DEF Migrated

LEMMA MigrateKeeps == ASSUME IInv, NEW r \in Requests, Migrate(r) PROVE IInv'
<1> DEFINE x == requests[r]
<1>1. /\ x.pc = "missing" /\ x.op = "write" /\ x.tenant \in Tenants
      /\ x.mig \in Nat /\ x.mig >= 1 /\ x.mig <= Migrations /\ ~x.ok
      /\ UNCHANGED <<tenants, whole, archives, index>>
      /\ Typed /\ TablesOK /\ x \in RequestRecords /\ requests \in [Requests -> RequestRecords]
  BY DEF Migrate, At, IInv, Typed, TypeOK, Placements, Placed, RequestRecords
<1>2. PICK t \in Tenants : t = x.tenant
  BY <1>1
<1>3. CASE Recordable(t, x.mig)
  <2>1. PICK c : c = [mig |-> x.mig, by |-> r]
    OBVIOUS
  <2>2. Commit(t, c) /\ requests' = [requests EXCEPT ![r].pc = "opened", ![r].mig = @ + 1]
    BY <1>2, <1>3, <2>1 DEF Migrate
  <2>3. c \in CommitRecords /\ c.by = r /\ c.mig = x.mig
    BY <1>1, <2>1, StoresAssumption DEF CommitRecords
  <2> PICK m \in Nat : m = x.mig + 1
    BY <1>1
  <2>4. PICK y : y = [x EXCEPT !.pc = "opened", !.mig = m]
    OBVIOUS
  <2>5. requests' = [requests EXCEPT ![r] = y]
    BY <1>1, <2>2, <2>4
  <2>6. /\ y \in RequestRecords /\ y.op = x.op /\ y.tenant = x.tenant /\ y.archive = x.archive
        /\ y.before = x.before /\ y.ok = x.ok /\ y.pc = "opened" /\ y.mig = x.mig + 1
    <3>1. "opened" \in Labels
      BY DEF Labels
    <3> HIDE DEF x
    <3>2. y \in RequestRecords
      BY <1>1, <2>4, <3>1 DEF RequestRecords
    <3>3. /\ y.op = x.op /\ y.tenant = x.tenant /\ y.archive = x.archive
          /\ y.before = x.before /\ y.ok = x.ok /\ y.pc = "opened" /\ y.mig = m
      BY <1>1, <2>4 DEF RequestRecords
    <3>4. QED
      BY <2>4, <3>2, <3>3
  <2>7. Placed(y)
    BY <1>1, <2>6 DEF Placed
  <2>8. Goes(r, y)
    BY <1>1, <2>5, <2>6, <2>7, ChangeGoes
  <2>9. /\ store' \in [Tenants -> FileRecords]
        /\ Content(store'[t]) = Content(store[t]) \cup {c}
        /\ \A u \in Tenants \ {t} : store'[u] = store[u]
    BY <1>1, <2>2, <2>3, CommitAdds
  <2>10. PICK C : C = Content(store[t])
    OBVIOUS
  <2>11. ASSUME whole[t] PROVE Migrated(C \cup {c}) /\ Checked(y, C \cup {c})
    <3>1. r \in Connected(t)
      BY <1>1, <1>2 DEF Connected, InFlight, Done, Fresh
    <3>2. Migrated(C) /\ \A k \in 1 .. x.mig - 1 : Has(C, k)
      BY <1>1, <2>10, <2>11, <3>1 DEF IInv, StoreSound, Checked
    <3>3. ~Has(C, c.mig) /\ c.mig # 0
      BY <1>1, <1>3, <2>3, <2>10 DEF Recordable, Applied, Has
    <3>4. Migrated(C \cup {c})
      BY <2>3, <3>2, <3>3, MigratedGrows
    <3>5. \A k \in 1 .. y.mig - 1 : k \in 1 .. x.mig - 1 \/ k = c.mig
      BY <1>1, <2>3, <2>6
    <3>6. Checked(y, C \cup {c})
      BY <2>6, <3>2, <3>5 DEF Checked, Has
    <3>7. QED
      BY <3>4, <3>6
  <2>12. \A u \in Tenants : StoreSound(u)'
    BY <1>1, <1>2, <2>3, <2>6, <2>8, <2>9, <2>10, <2>11, GrowSound DEF Goes
  <2>13. \A u \in Tenants : Keeps(u)
    BY <1>1, <2>3, <2>9, GrowKeeps DEF Done
  <2>14. TablesOK'
    BY <1>1, <2>9 DEF TablesOK
  <2>15. QED
    BY <1>1, <2>6, <2>8, <2>12, <2>13, <2>14, WriteStep DEF Goes
<1>4. CASE ~Recordable(t, x.mig)
  <2>1. Drop(r) /\ Finish(r, FALSE)
    BY <1>2, <1>4 DEF Migrate
  <2>2. PICK y : Moves(r, y) /\ y.pc = "done" /\ ~y.ok /\ y.op = "write"
    BY <1>1, <2>1, FinishMoves
  <2>3. Quiet(y, requests[r])
    BY <2>2 DEF Quiet, Opening
  <2>4. store' \in [Tenants -> FileRecords] /\ \A u \in Tenants : Content(store'[u]) = Content(store[u])
    BY <1>1, <2>1, DropKeeps
  <2>5. TablesOK'
    BY <1>1, <2>4 DEF TablesOK
  <2>6. QED
    BY <1>1, <2>2, <2>3, <2>4, <2>5, QuietMove
<1>5. QED
  BY <1>3, <1>4

LEMMA WriteKeeps == ASSUME IInv, NEW r \in Requests, WriteRow(r) PROVE IInv'
<1> DEFINE x == requests[r]
<1>1. /\ x.pc = "ready" /\ x.op = "write" /\ x.tenant \in Tenants /\ ~x.ok
      /\ UNCHANGED <<tenants, whole, archives, index>> /\ Goto(r, "written")
      /\ Typed /\ TablesOK /\ x \in RequestRecords /\ requests \in [Requests -> RequestRecords]
  BY DEF WriteRow, At, IInv, Typed, TypeOK, TablesOK, Placements, Placed
<1>2. PICK t \in Tenants : t = x.tenant
  BY <1>1
<1>3. PICK c : c = [mig |-> 0, by |-> r]
  OBVIOUS
<1>4. Commit(t, c)
  BY <1>2, <1>3 DEF WriteRow
<1>5. c \in CommitRecords /\ c.by = r /\ c.mig = 0
  BY <1>1, <1>3, StoresAssumption DEF CommitRecords
<1>6. Placed([x EXCEPT !.pc = "written"])
  BY <1>1 DEF Placed, RequestRecords
<1>7. PICK y : Goes(r, y) /\ y.pc = "written" /\ y.ok = x.ok
  BY <1>1, <1>6, GotoGoes DEF Labels
<1>8. /\ store' \in [Tenants -> FileRecords]
      /\ Content(store'[t]) = Content(store[t]) \cup {c}
      /\ \A u \in Tenants \ {t} : store'[u] = store[u]
  BY <1>1, <1>4, <1>5, CommitAdds
<1>9. PICK C : C = Content(store[t])
  OBVIOUS
<1>10. ASSUME whole[t] PROVE Migrated(C \cup {c}) /\ Checked(y, C \cup {c})
  <2>1. r \in Connected(t)
    BY <1>1, <1>2 DEF Connected, InFlight, Done, Fresh
  <2>2. Migrated(C) /\ \A k \in 1 .. Migrations : Has(C, k)
    BY <1>1, <1>9, <1>10, <2>1 DEF IInv, StoreSound, Checked
  <2>3. QED
    BY <1>5, <1>7, <2>2, MigratedGrows DEF Checked
<1>11. \A u \in Tenants : StoreSound(u)'
  BY <1>1, <1>2, <1>5, <1>7, <1>8, <1>9, <1>10, GrowSound DEF Goes
<1>12. \A u \in Tenants : Keeps(u)
  BY <1>1, <1>5, <1>8, GrowKeeps DEF Done
<1>13. TablesOK'
  BY <1>1, <1>8 DEF TablesOK
<1>14. QED
  BY <1>1, <1>7, <1>11, <1>12, <1>13, WriteStep DEF Goes

(***************************************************************************)
(* Backups.                                                                *)
(***************************************************************************)
LEMMA BackupStep ==
  ASSUME IInv, TablesOK', NEW r \in Requests, NEW y, Moves(r, y), y.op = "backup",
         UNCHANGED <<store, whole>>, ArchivesNamed', archives \subseteq archives',
         CopySound(r)', \A a \in archives' \ archives : a.by = r /\ ArchiveSound(a)', Listing'
  PROVE  IInv'
<1>1. Steps /\ requests'[r] = y /\ \A q \in Requests \ {r} : requests'[q] = requests[q]
  BY DEF Moves
<1>2. Typed' /\ Past'
  BY <1>1, StepsFacts DEF IInv, Typed, TypeOK, Steps
<1>3. /\ \A q \in Requests : requests'[q].op \in {"restore", "write"} => requests'[q] = requests[q]
      /\ \A t \in Tenants : Keeps(t) /\ Content(store'[t]) = Content(store[t])
  BY <1>1 DEF Keeps
<1>4. \A t \in Tenants : StoreSound(t)'
  <2>1. ASSUME NEW q \in Requests, requests'[q].op = "write", requests'[q].pc \in Opening, whole[requests'[q].tenant]
        PROVE  Checked(requests'[q], Content(store[requests'[q].tenant]))
    <3>1. requests'[q] = requests[q] /\ requests[q].tenant \in Tenants /\ q \in Connected(requests[q].tenant)
      BY <1>3, <2>1 DEF IInv, Typed, Placements, Placed, Opening, Connected, InFlight, Done, Fresh
    <3>2. QED
      BY <2>1, <3>1 DEF IInv, StoreSound
  <2>2. QED
    BY <1>1, <1>3, <2>1, StoresStay
<1>5. \A b \in Requests : CopySound(b)'
  BY <1>1, CopiesStay
<1>6. \A a \in archives' : ArchiveSound(a)'
  BY <1>1, ArchivesStay
<1>7. ASSUME NEW q \in Requests, requests[q].op = "restore", NEW a \in archives', a.by = requests[q].archive
      PROVE  a \in archives
  <2>1. PICK b \in archives : b.by = requests[q].archive
    BY <1>7 DEF IInv, ArchivesNamed
  <2>2. a = b
    BY <1>7, <2>1 DEF ArchivesNamed
  <2>3. QED
    BY <2>2
<1>8. ASSUME NEW q \in Requests PROVE GivenBack(q)'
  <2>1. requests[q].op = "restore" => requests[q].tenant \in Tenants
    BY DEF IInv, Typed, Placements, Placed
  <2>2. GivenBack(q)'
    BY <1>1, <1>3, <1>7, <2>1, GivenStays
  <2>3. QED
    BY <2>2
<1>9. QED
  BY <1>2, <1>4, <1>5, <1>6, <1>8 DEF IInv

\* A store that is whole is a snapshot.
LEMMA FreshSnapshot ==
  ASSUME IInv, NEW r \in Requests, requests[r].op = "backup", NEW t \in Tenants, t = requests[r].tenant, whole[t]
  PROVE  Snapshot(Content(store[t]), r)
<1>1. StoreSound(t)
  BY DEF IInv
<1>2. PICK C : C = Content(store[t])
  OBVIOUS
<1>3. Migrated(C)
  BY <1>1, <1>2 DEF StoreSound
<1>4. ASSUME RestoresOf(t) = {} PROVE Named(C) /\ Closed(C, r)
  <2>1. Named(C) /\ \A w \in Requests : Acknowledged(w, t) => w \in Writers(C)
    BY <1>1, <1>2, <1>4 DEF StoreSound
  <2>2. \A w \in Accepted("write") : requests[w].tenant = t => w \in Requests /\ Acknowledged(w, t)
    BY DEF Accepted, Done, Acknowledged
  <2>3. QED
    BY <2>1, <2>2 DEF Closed
<1>5. QED
  BY <1>2, <1>3, <1>4 DEF Snapshot

LEMMA OpenFileKeeps == ASSUME IInv, NEW r \in Requests, OpenFile(r) PROVE IInv'
<1> DEFINE x == requests[r]
<1>1. /\ x.pc = "copying" /\ x.op = "backup" /\ x.tenant \in Tenants /\ ~x.ok
      /\ UNCHANGED <<tenants, store, whole, archives, index>>
      /\ Typed /\ Past /\ TablesOK /\ x \in RequestRecords /\ requests \in [Requests -> RequestRecords]
  BY DEF OpenFile, At, disk, IInv, Typed, TypeOK, Placements, Placed
<1>2. PICK t \in Tenants : t = x.tenant
  BY <1>1
<1>3. PICK F \in FileRecords : F = store[t] /\ F.db \subseteq CommitRecords
  BY <1>1 DEF TablesOK, FileRecords
<1>4. PICK f \in x.left :
        requests' = [requests EXCEPT ![r] =
          [x EXCEPT !.pc = "reading", !.file = f, !.got = [x.got EXCEPT ![f] = F[f]], !.seen = F.db,
                    !.calm = x.calm /\ whole[t] /\ (x.left = Files \/ x.seen = F.db)]]
  <2>1. x.got = x.got /\ x.calm = x.calm
    OBVIOUS
  <2>2. QED
    BY <1>1, <1>2, <1>3 DEF OpenFile, Copied, RequestRecords
<1>5. f \in Files /\ x.left \subseteq Files /\ x.got \in FileRecords
  BY <1>1 DEF RequestRecords
<1>6. PICK g : g = [x.got EXCEPT ![f] = F[f]]
  OBVIOUS
<1>7. /\ g \in FileRecords
      /\ f = "db" => g.db = F.db /\ g.wal = x.got.wal
      /\ f = "wal" => g.db = x.got.db /\ g.wal = F.wal
  <2>1. CASE f = "db"
    BY <1>3, <1>5, <1>6, <2>1 DEF FileRecords
  <2>2. CASE f = "wal"
    BY <1>3, <1>5, <1>6, <2>2 DEF FileRecords
  <2>3. QED
    BY <1>5, <2>1, <2>2 DEF Files
<1>8. PICK calm \in BOOLEAN : calm = (x.calm /\ whole[t] /\ (x.left = Files \/ x.seen = F.db))
  BY <1>1 DEF RequestRecords, TablesOK
<1>9. PICK left : left = x.left \ {f}
  OBVIOUS
<1>10. PICK seen : seen = F.db
  OBVIOUS
<1>11. PICK y : y = [x EXCEPT !.pc = "reading", !.file = f, !.got = g, !.seen = seen, !.calm = calm]
  OBVIOUS
<1>12. requests' = [requests EXCEPT ![r] = y]
  BY <1>4, <1>6, <1>8, <1>10, <1>11
<1>13. left \subseteq Files /\ seen \subseteq CommitRecords \cup Nat /\ "reading" \in Labels
  BY <1>3, <1>5, <1>9, <1>10 DEF Labels
<1> HIDE DEF x
<1>14. y \in RequestRecords
  BY <1>1, <1>5, <1>7, <1>11, <1>13 DEF RequestRecords
<1>15. /\ y.got = g /\ y.left = x.left /\ y.file = f /\ y.seen = seen /\ y.calm = calm
       /\ y.pc = "reading" /\ y.op = x.op /\ y.ok = x.ok /\ y.tenant = x.tenant /\ y.archive = x.archive
       /\ y.before = x.before
  BY <1>1, <1>11 DEF RequestRecords
<1>16. Placed(y) /\ Unopened(y) = left
  BY <1>1, <1>4, <1>9, <1>15 DEF Placed, Unopened
<1>17. Goes(r, y)
  BY <1>1, <1>12, <1>14, <1>15, <1>16, ChangeGoes DEF x
<1>18. Moves(r, y) /\ Steps /\ requests'[r] = y /\ \A q \in Requests \ {r} : requests'[q] = requests[q]
  BY <1>17 DEF Goes, Moves
<1>19. ArchivesNamed'
  BY <1>1, <1>15, <1>18, NamesStay
<1>20. CopySound(r)'
  <2>1. ASSUME calm PROVE Snapshot(Content(F), r)'
    <3>1. Snapshot(Content(F), r)
      BY <1>1, <1>2, <1>3, <1>8, <2>1, FreshSnapshot DEF x
    <3>2. PICK C : C = Content(F)
      OBVIOUS
    <3>3. Snapshot(C, r)'
      BY <1>1, <1>18, <3>1, <3>2, SnapshotStays DEF x
    <3>4. QED
      BY <3>2, <3>3 DEF Content
  <2>2. ASSUME calm, left = {"wal"} PROVE g.db = seen
    <3>1. f = "db"
      BY <1>5, <1>9, <2>2 DEF Files
    <3>2. QED
      BY <1>7, <1>10, <3>1
  <2>3. ASSUME calm, left = {"db"} PROVE Snapshot(seen \cup g.wal, r)'
    <3>1. f = "wal"
      BY <1>5, <1>9, <2>3 DEF Files
    <3>2. seen \cup g.wal = Content(F)
      BY <1>7, <1>10, <3>1 DEF Content
    <3>3. QED
      BY <2>1, <2>3, <3>2
  <2>4. ASSUME calm, left = {} PROVE Snapshot(Content(g), r)'
    <3>1. x.left = {f} /\ x.left # Files
      BY <1>5, <1>9, <2>4 DEF Files
    <3>2. x.calm /\ x.seen = F.db
      BY <1>8, <2>4, <3>1
    <3>3. CopySound(r)
      BY DEF IInv
    <3>4. CASE f = "wal"
      <4>1. x.got.db = F.db
        BY <1>1, <3>1, <3>2, <3>3, <3>4 DEF CopySound, Unopened, x
      <4>2. Content(g) = Content(F)
        BY <1>7, <3>4, <4>1 DEF Content
      <4>3. QED
        BY <2>1, <2>4, <4>2
    <3>5. CASE f = "db"
      <4>1. PICK C : C = x.seen \cup x.got.wal
        OBVIOUS
      <4>2. Snapshot(C, r)
        BY <1>1, <3>1, <3>2, <3>3, <3>5, <4>1 DEF CopySound, Unopened, x
      <4>3. Snapshot(C, r)'
        BY <1>1, <1>18, <4>2, SnapshotStays DEF x
      <4>4. Content(g) = C
        BY <1>7, <3>2, <3>5, <4>1 DEF Content
      <4>5. QED
        BY <4>3, <4>4
    <3>6. QED
      BY <1>5, <3>4, <3>5 DEF Files
  <2>5. Unopened(requests[r])' = left
    BY <1>16, <1>18 DEF Unopened
  <2>6. QED
    BY <1>15, <1>18, <2>2, <2>3, <2>4, <2>5 DEF CopySound
<1>21. Listing'
  BY <1>1, <1>15, <1>18, ListingStays
<1>22. TablesOK'
  BY <1>1 DEF TablesOK
<1>23. QED
  BY <1>1, <1>15, <1>18, <1>19, <1>20, <1>21, <1>22, BackupStep

LEMMA EndFileKeeps == ASSUME IInv, NEW r \in Requests, EndFile(r) PROVE IInv'
<1> DEFINE x == requests[r]
<1>1. /\ x.pc = "reading" /\ x.op = "backup" /\ x.tenant \in Tenants /\ ~x.ok /\ x.left \subseteq Files
      /\ UNCHANGED <<tenants, store, whole, archives, index>> /\ x.calm \in BOOLEAN
      /\ Typed /\ Past /\ TablesOK /\ x \in RequestRecords /\ requests \in [Requests -> RequestRecords]
  BY DEF EndFile, At, disk, IInv, Typed, TypeOK, Placements, Placed, RequestRecords
<1>2. PICK left \in SUBSET Files, calm \in BOOLEAN :
        left = x.left \ {x.file} /\ calm = (x.calm /\ Unspoilt(r))
  BY <1>1
<1>3. PICK y : y = [x EXCEPT !.pc = "copying", !.file = "none", !.left = left, !.calm = calm]
  OBVIOUS
<1>4. requests' = [requests EXCEPT ![r] = y]
  <2>1. requests' = [requests EXCEPT ![r] = [x EXCEPT !.pc = "copying", !.file = "none", !.left = x.left \ {x.file},
                                                      !.calm = x.calm /\ Unspoilt(r)]]
    BY <1>1 DEF EndFile
  <2>2. QED
    BY <1>2, <1>3, <2>1
<1>5. "copying" \in Labels
  BY DEF Labels
<1> HIDE DEF x
<1>6. y \in RequestRecords
  BY <1>1, <1>2, <1>3, <1>5 DEF RequestRecords
<1>7. /\ y.pc = "copying" /\ y.left = left /\ y.calm = calm /\ y.got = x.got /\ y.seen = x.seen
      /\ y.op = x.op /\ y.ok = x.ok /\ y.tenant = x.tenant /\ y.archive = x.archive /\ y.before = x.before
  BY <1>1, <1>3 DEF RequestRecords
<1>8. Placed(y)
  BY <1>1, <1>7 DEF Placed
<1>9. Goes(r, y)
  BY <1>1, <1>4, <1>6, <1>7, <1>8, ChangeGoes DEF x
<1>10. Moves(r, y) /\ Steps /\ requests'[r] = y /\ \A q \in Requests \ {r} : requests'[q] = requests[q]
  BY <1>9 DEF Goes, Moves
<1>11. ArchivesNamed'
  BY <1>1, <1>7, <1>10, NamesStay
<1>12. CopySound(r)'
  <2>1. PICK C, D : C = Content(x.got) /\ D = x.seen \cup x.got.wal
    OBVIOUS
  <2>2. x.calm => /\ left = {} => Snapshot(C, r)
                  /\ left = {"db"} => Snapshot(D, r)
                  /\ left = {"wal"} => x.got.db = x.seen
    BY <1>1, <1>2, <2>1 DEF IInv, CopySound, Unopened, x
  <2>3. Snapshot(C, r) => Snapshot(C, r)'
    BY <1>1, <1>10, SnapshotStays DEF x
  <2>4. Snapshot(D, r) => Snapshot(D, r)'
    BY <1>1, <1>10, SnapshotStays DEF x
  <2>5. Content(y.got) = C /\ y.seen \cup y.got.wal = D /\ Unopened(y) = left
    BY <1>7, <2>1 DEF Unopened
  <2>6. calm => x.calm
    BY <1>2
  <2>7. y.calm => /\ Unopened(y) = {} => Snapshot(Content(y.got), r)'
                  /\ Unopened(y) = {"db"} => Snapshot(y.seen \cup y.got.wal, r)'
                  /\ Unopened(y) = {"wal"} => y.got.db = y.seen
    BY <1>7, <2>2, <2>3, <2>4, <2>5, <2>6
  <2>8. QED
    BY <1>10, <2>7 DEF CopySound, Unopened
<1>13. Listing'
  BY <1>1, <1>7, <1>10, ListingStays
<1>14. TablesOK'
  BY <1>1 DEF TablesOK
<1>15. QED
  BY <1>1, <1>7, <1>10, <1>11, <1>12, <1>13, <1>14, BackupStep

LEMMA ArchiveKeeps == ASSUME IInv, NEW r \in Requests, WriteArchive(r) PROVE IInv'
<1> DEFINE x == requests[r]
<1>1. /\ x.pc = "copying" /\ x.op = "backup" /\ x.tenant \in Tenants /\ ~x.ok /\ x.left = {}
      /\ UNCHANGED <<tenants, store, whole, index>> /\ ArchivesNamed
      /\ Typed /\ Past /\ TablesOK /\ x \in RequestRecords /\ requests \in [Requests -> RequestRecords]
  BY DEF WriteArchive, At, IInv, Typed, TypeOK, Placements, Placed
<1>2. PICK a : a = [by |-> r, calm |-> x.calm, files |-> x.got,
                    row |-> [id |-> x.tenant, slug |-> x.slug, status |-> x.status]]
  OBVIOUS
<1>3. PICK y : y = [x EXCEPT !.pc = "archived", !.got = NoFiles, !.seen = {}, !.calm = TRUE,
                             !.slug = "default", !.status = "active"]
  OBVIOUS
<1>4. archives' = archives \cup {a} /\ requests' = [requests EXCEPT ![r] = y]
  BY <1>2, <1>3 DEF WriteArchive
<1>5. a.by = r /\ a.calm = x.calm /\ a.files = x.got /\ a.row.id = x.tenant
  BY <1>2
<1>6. a \in ArchiveRecords
  BY <1>1, <1>2, StoresAssumption DEF ArchiveRecords, RequestRecords
<1> HIDE DEF x
<1>7. y \in RequestRecords
  BY <1>1, <1>3, StoresAssumption DEF RequestRecords, Labels, NoFiles, FileRecords, Statuses
<1>8. /\ y.pc = "archived" /\ y.op = x.op /\ y.ok = x.ok /\ y.tenant = x.tenant /\ y.archive = x.archive
      /\ y.before = x.before
  BY <1>1, <1>3 DEF RequestRecords
<1>9. Placed(y)
  BY <1>1, <1>8 DEF Placed
<1>10. Goes(r, y)
  BY <1>1, <1>4, <1>7, <1>8, <1>9, ChangeGoes DEF x
<1>11. Moves(r, y) /\ Steps /\ requests'[r] = y /\ \A q \in Requests \ {r} : requests'[q] = requests[q]
  BY <1>10 DEF Goes, Moves
<1>12. TablesOK'
  BY <1>1, <1>4, <1>6 DEF TablesOK
<1>13. ASSUME NEW b \in archives PROVE b.by # r
  <2>1. CASE b \in Found
    BY <2>1, FoundAssumption
  <2>2. CASE b \notin Found
    BY <1>1, <2>2 DEF ArchivesNamed, x
  <2>3. QED
    BY <2>1, <2>2
<1>14. ArchivesNamed'
  <2>1. \A b, c \in archives' : b.by = c.by => b = c
    BY <1>1, <1>4, <1>5, <1>13 DEF ArchivesNamed
  <2>2. ASSUME NEW b \in archives' \ Found
        PROVE  /\ b.by \in Requests /\ requests'[b.by].op = "backup" /\ requests'[b.by].pc \notin Copiers
               /\ requests'[b.by].tenant = b.row.id
    <3>1. CASE b = a
      BY <1>1, <1>5, <1>8, <1>11, <3>1
    <3>2. CASE b \in archives
      BY <1>1, <1>11, <1>13, <3>2 DEF ArchivesNamed
    <3>3. QED
      BY <1>4, <3>1, <3>2
  <2>3. ASSUME NEW q \in Requests, requests'[q].op = "restore"
        PROVE  \E b \in archives' : b.by = requests'[q].archive /\ b.row.id = requests'[q].tenant
    <3>1. q # r /\ requests'[q] = requests[q]
      BY <1>1, <1>8, <1>11, <2>3
    <3>2. QED
      BY <1>1, <1>4, <2>3, <3>1 DEF ArchivesNamed
  <2>4. QED
    BY <2>1, <2>2, <2>3 DEF ArchivesNamed
<1>15. CopySound(r)'
  BY <1>8, <1>11 DEF CopySound
<1>16. ArchiveSound(a)'
  <2>1. PICK C : C = Content(a.files)
    OBVIOUS
  <2>2. ASSUME a.calm PROVE Snapshot(C, r)
    BY <1>1, <1>5, <2>1, <2>2 DEF IInv, CopySound, Unopened, x
  <2>3. PICK t : t = x.tenant
    OBVIOUS
  <2>4. ASSUME a.calm, \A q \in RestoresOf(t)' : r \in requests'[q].before
        PROVE  Named(C)' /\ Closed(C, r)'
    <3>1. RestoresOf(t) = {}
      <4>1. SUFFICES ASSUME NEW q \in RestoresOf(t) PROVE FALSE
        OBVIOUS
      <4>2. /\ q \in Requests /\ requests[q].op = "restore" /\ requests[q].tenant = t
            /\ q # r /\ requests'[q] = requests[q]
        BY <1>1, <1>11 DEF RestoresOf, x
      <4>3. q \in RestoresOf(t)'
        BY <4>2 DEF RestoresOf
      <4>4. r \in Done
        BY <1>1, <2>4, <4>2, <4>3 DEF Past
      <4>5. QED
        BY <1>1, <4>4 DEF Done, x
    <3>2. Named(C) /\ Closed(C, r)
      BY <2>2, <2>3, <2>4, <3>1 DEF Snapshot, x
    <3>3. QED
      BY <1>1, <1>11, <3>2, NamedStays, ClosedStays DEF x
  <2>5. a.calm => Migrated(C)
    BY <2>2 DEF Snapshot
  <2>6. QED
    BY <1>5, <2>1, <2>3, <2>4, <2>5 DEF ArchiveSound, RestoresOf, Migrated
<1>17. Listing'
  BY <1>1, <1>8, <1>11, ListingStays
<1>18. QED
  BY <1>1, <1>4, <1>5, <1>8, <1>11, <1>12, <1>14, <1>15, <1>16, <1>17, BackupStep

\* The list is written only by a backup on its way.
LEMMA ListStep ==
  ASSUME IInv, NEW r \in Requests, NEW y, Moves(r, y), y.op = "backup", requests[r].op = "backup", y.pc \notin Copying,
         UNCHANGED <<tenants, store, whole, archives>>, index' \subseteq Nat, Listing'
  PROVE  IInv'
<1>1. Steps /\ requests'[r] = y /\ \A q \in Requests \ {r} : requests'[q] = requests[q]
  BY DEF Moves
<1>2. ArchivesNamed'
  BY <1>1, NamesStay
<1>3. CopySound(r)'
  BY <1>1 DEF CopySound
<1>4. TablesOK'
  BY DEF IInv, Typed, TypeOK, TablesOK
<1>5. QED
  BY <1>2, <1>3, <1>4, BackupStep

LEMMA ReadIndexKeeps == ASSUME IInv, NEW r \in Requests, ReadIndex(r) PROVE IInv'
<1> DEFINE x == requests[r]
<1>1. /\ x.pc = "archived" /\ x.op = "backup" /\ x.tenant \in Tenants /\ ~x.ok
      /\ UNCHANGED <<tenants, store, whole, archives, index>> /\ index \subseteq Nat
      /\ Typed /\ TablesOK /\ x \in RequestRecords /\ requests \in [Requests -> RequestRecords]
  BY DEF ReadIndex, At, disk, IInv, Typed, TypeOK, TablesOK, Placements, Placed
<1>2. CASE index = Torn
  <2>1. Finish(r, FALSE)
    BY <1>2 DEF ReadIndex
  <2>2. PICK y : Moves(r, y) /\ y.pc = "done" /\ ~y.ok /\ y.op = "backup"
    BY <1>1, <2>1, FinishMoves
  <2>3. Quiet(y, requests[r])
    BY <2>2 DEF Quiet, Opening
  <2>4. TablesOK'
    BY <1>1 DEF TablesOK
  <2>5. QED
    BY <1>1, <2>2, <2>3, <2>4, QuietMove
<1>3. CASE index # Torn
  <2>1. PICK I \in SUBSET Nat : I = index
    BY <1>1
  <2>2. PICK y : y = [x EXCEPT !.pc = "indexing", !.seen = I]
    OBVIOUS
  <2>3. requests' = [requests EXCEPT ![r] = y]
    BY <1>1, <1>3, <2>1, <2>2 DEF ReadIndex
  <2>4. "indexing" \in Labels
    BY DEF Labels
  <2> HIDE DEF x
  <2>5. y \in RequestRecords
    BY <1>1, <2>2, <2>4 DEF RequestRecords
  <2>6. /\ y.pc = "indexing" /\ y.seen = I /\ y.op = x.op /\ y.ok = x.ok /\ y.tenant = x.tenant
        /\ y.archive = x.archive /\ y.before = x.before
    BY <1>1, <2>2 DEF RequestRecords
  <2>7. Placed(y)
    BY <1>1, <2>6 DEF Placed
  <2>8. Goes(r, y)
    BY <1>1, <2>3, <2>5, <2>6, <2>7, ChangeGoes DEF x
  <2>9. Moves(r, y) /\ Steps /\ requests'[r] = y /\ \A q \in Requests \ {r} : requests'[q] = requests[q]
    BY <2>8 DEF Goes, Moves
  <2>10. Listing'
    BY <1>1, <1>3, <2>1, <2>6, <2>9, ListingStays DEF x
  <2>11. QED
    BY <1>1, <2>6, <2>9, <2>10, ListStep DEF x
<1>4. QED
  BY <1>2, <1>3

LEMMA EmptyKeeps == ASSUME IInv, NEW r \in Requests, EmptyIndex(r) PROVE IInv'
<1> DEFINE x == requests[r]
<1>1. /\ x.pc = "indexing" /\ x.op = "backup" /\ x.tenant \in Tenants /\ ~x.ok
      /\ UNCHANGED <<tenants, store, whole, archives>> /\ index' = Torn /\ Goto(r, "emptied")
      /\ Typed /\ x \in RequestRecords
  BY DEF EmptyIndex, At, IInv, Typed, TypeOK, Placements, Placed
<1>2. Placed([x EXCEPT !.pc = "emptied"])
  BY <1>1 DEF Placed, RequestRecords
<1>3. PICK y : Goes(r, y) /\ y.pc = "emptied" /\ y.ok = x.ok /\ y.seen = x.seen
  BY <1>1, <1>2, GotoGoes DEF Labels
<1>4. Moves(r, y) /\ Steps /\ requests'[r] = y /\ (\A q \in Requests \ {r} : requests'[q] = requests[q]) /\ y.op = x.op
  BY <1>3 DEF Goes, Moves
<1>5. Listing'
  BY <1>1, <1>3, <1>4, ListingStays
<1>6. index' \subseteq Nat
  BY <1>1 DEF Torn
<1>7. QED
  BY <1>1, <1>3, <1>4, <1>5, <1>6, ListStep

LEMMA WriteIndexKeeps == ASSUME IInv, NEW r \in Requests, WriteIndex(r) PROVE IInv'
<1> DEFINE x == requests[r]
<1>1. /\ x.pc = "emptied" /\ x.op = "backup" /\ ~x.ok
      /\ UNCHANGED <<tenants, store, whole, archives>> /\ index' = x.seen \cup {r}
      /\ Typed /\ Past /\ Listing /\ x.seen \subseteq Nat
  BY DEF WriteIndex, Indexed, At, IInv, Typed, TypeOK, Placements, Placed, Listing
<1>2. PICK y : Moves(r, y) /\ y.pc = "done" /\ y.op = "backup"
  <2>1. PICK ok \in BOOLEAN : Finish(r, ok)
    BY DEF WriteIndex
  <2>2. QED
    BY <1>1, <2>1, FinishMoves
<1>3. Steps /\ requests'[r] = y /\ \A q \in Requests \ {r} : requests'[q] = requests[q]
  BY <1>2 DEF Moves
<1>4. ASSUME NEW b \in Accepted("backup")' PROVE b = r \/ b \in Accepted("backup")
  BY <1>3 DEF Accepted, Done
<1>5. \A b \in Accepted("backup") : b \in Requests /\ requests[b].op = "backup"
  BY DEF Accepted, Done
<1>6. ASSUME NEW b \in Accepted("backup")', index' # Torn PROVE Listed(b, index)'
  <2>1. PICK S : S = x.seen
    OBVIOUS
  <2>2. CASE b = r
    BY <1>1, <2>2 DEF Listed
  <2>3. CASE b \in Accepted("backup")
    <3>1. Listed(b, S)
      BY <1>1, <2>1, <2>3 DEF Listing
    <3>2. Listed(b, S)'
      BY <1>1, <1>3, <1>5, <2>3, <3>1, ListedStays
    <3>3. S \subseteq index'
      BY <1>1, <2>1
    <3>4. QED
      BY <3>2, <3>3 DEF Listed
  <2>4. QED
    BY <1>4, <2>2, <2>3
<1>7. ASSUME NEW q \in Requests, requests'[q].pc \in {"indexing", "emptied"}
      PROVE  requests'[q].seen \subseteq Nat /\ \A b \in Accepted("backup")' : Listed(b, requests[q].seen)'
  <2>1. q # r /\ requests'[q] = requests[q]
    BY <1>2, <1>3, <1>7
  <2>2. PICK S : S = requests[q].seen
    OBVIOUS
  <2>3. S \subseteq Nat /\ \A b \in Accepted("backup") : Listed(b, S)
    BY <1>1, <1>7, <2>1, <2>2 DEF Listing
  <2>4. ASSUME NEW b \in Accepted("backup")' PROVE Listed(b, S)'
    <3>1. CASE b = r
      <4>1. requests[q].op = "backup" /\ q \notin Done /\ r \notin Done
        BY <1>1, <1>7, <2>1 DEF Typed, Placements, Placed, Done
      <4>2. q \notin requests[r].before /\ r \notin requests[q].before
        BY <1>1, <4>1 DEF Past
      <4>3. requests'[r].before = requests[r].before
        BY <1>1, <1>3 DEF Steps, Continues
      <4>4. QED
        BY <2>1, <3>1, <4>1, <4>2, <4>3 DEF Listed
    <3>2. CASE b \in Accepted("backup")
      BY <1>1, <1>3, <1>5, <2>3, <3>2, ListedStays
    <3>3. QED
      BY <1>4, <3>1, <3>2
  <2>5. QED
    BY <2>1, <2>2, <2>3, <2>4 DEF Listed
<1>8. Listing'
  BY <1>6, <1>7 DEF Listing
<1>9. index' \subseteq Nat
  BY <1>1, StoresAssumption
<1>10. QED
  BY <1>1, <1>2, <1>8, <1>9, ListStep

(***************************************************************************)
(* Restores.                                                               *)
(***************************************************************************)
LEMMA UnpackKeeps == ASSUME IInv, NEW r \in Requests, Unpack(r) PROVE IInv'
<1>1. PICK a \in archives :
        Begin(r, "restore", [NewReq EXCEPT !.pc = "unpacked", !.tenant = a.row.id, !.archive = a.by])
  BY DEF Unpack
<1>2. UNCHANGED <<tenants, store, whole, archives, index>> /\ Typed /\ TablesOK /\ ArchivesNamed
  BY DEF Unpack, disk, IInv, Typed, TypeOK
<1>3. a.row.id \in Tenants /\ a.by \in Int
  BY <1>2 DEF TablesOK, ArchiveRecords
<1>4. PICK x : x = [NewReq EXCEPT !.pc = "unpacked", !.tenant = a.row.id, !.archive = a.by]
  OBVIOUS
<1>5. x \in RequestRecords
  BY <1>3, <1>4, NewReqTyped DEF RequestRecords, Labels
<1>6. x.pc = "unpacked" /\ x.ok = FALSE /\ x.tenant = a.row.id /\ x.archive = a.by
  BY <1>4, NewReqTyped DEF RequestRecords, NewReq
<1>7. Placed([x EXCEPT !.op = "restore"])
  BY <1>3, <1>5, <1>6 DEF Placed, RequestRecords
<1>8. PICK y : Came(r, y, "restore", x)
  BY <1>1, <1>2, <1>4, <1>5, <1>6, <1>7, BeginCame DEF Ops
<1>9. /\ Moves(r, y) /\ y.op = "restore" /\ y.pc = "unpacked" /\ ~y.ok /\ y.tenant = a.row.id /\ y.archive = a.by
      /\ requests[r].op = "none"
  BY <1>2, <1>6, <1>8 DEF Came, Typed, Placements, Placed
<1>10. Steps /\ requests'[r] = y /\ \A q \in Requests \ {r} : requests'[q] = requests[q]
  BY <1>9 DEF Moves
<1>11. Typed' /\ Past'
  <2>1. TablesOK'
    BY <1>2 DEF TablesOK
  <2>2. QED
    BY <1>10, <2>1, StepsFacts DEF IInv, Typed, TypeOK, Steps
<1>12. ArchivesNamed'
  <2>1. ASSUME NEW b \in archives \ Found
        PROVE  /\ b.by \in Requests /\ requests'[b.by].op = "backup" /\ requests'[b.by].pc \notin Copiers
               /\ requests'[b.by].tenant = b.row.id
    <3>1. b.by \in Requests \ {r}
      BY <1>2, <1>9 DEF ArchivesNamed
    <3>2. QED
      BY <1>2, <1>10, <3>1 DEF ArchivesNamed
  <2>2. ASSUME NEW q \in Requests, requests'[q].op = "restore"
        PROVE  \E b \in archives : b.by = requests'[q].archive /\ b.row.id = requests'[q].tenant
    <3>1. CASE q = r
      BY <1>9, <1>10, <3>1
    <3>2. CASE q # r
      BY <1>2, <1>10, <2>2, <3>2 DEF ArchivesNamed
    <3>3. QED
      BY <3>1, <3>2
  <2>3. QED
    BY <1>2, <2>1, <2>2 DEF ArchivesNamed
<1>13. \A t \in Tenants : StoreSound(t)'
  <2>1. ASSUME NEW q \in Requests, requests'[q].op = "write", requests'[q].pc \in Opening, whole[requests'[q].tenant]
        PROVE  Checked(requests'[q], Content(store[requests'[q].tenant]))
    <3>1. q # r /\ requests'[q] = requests[q]
      BY <1>9, <1>10, <2>1
    <3>2. requests[q].tenant \in Tenants /\ q \in Connected(requests[q].tenant)
      BY <2>1, <3>1 DEF IInv, Typed, Placements, Placed, Opening, Connected, InFlight, Done, Fresh
    <3>3. QED
      BY <2>1, <3>1, <3>2 DEF IInv, StoreSound
  <2>2. QED
    BY <1>2, <1>9, <1>10, <2>1, StoresStay
<1>14. \A b \in Requests : CopySound(b)'
  BY <1>9, <1>10, CopiesStay
<1>15. \A b \in archives' : ArchiveSound(b)'
  BY <1>2, <1>10, ArchivesStay
<1>16. ASSUME NEW q \in Requests PROVE GivenBack(q)'
  <2>1. requests[q].op = "restore" => Keeps(requests[q].tenant)
    BY <1>2 DEF Keeps
  <2>2. GivenBack(q)'
    BY <1>2, <1>9, <1>10, <2>1, GivenStays
  <2>3. QED
    BY <2>2
<1>17. Listing'
  BY <1>2, <1>9, <1>10, ListingStays
<1>18. QED
  BY <1>11, <1>12, <1>13, <1>14, <1>15, <1>16, <1>17 DEF IInv

\* A restore on its way takes a step.
LEMMA RestoreStep ==
  ASSUME IInv, TablesOK', NEW r \in Requests, NEW y, Moves(r, y), requests[r].op = "restore", y.op = "restore",
         UNCHANGED <<archives, index>>, \A t \in Tenants : StoreSound(t)',
         \A q \in Requests : GivenBack(q)'
  PROVE  IInv'
<1>1. Steps /\ requests'[r] = y /\ (\A q \in Requests \ {r} : requests'[q] = requests[q]) /\ Placed(y)
  BY DEF Moves, Continues
<1>2. Typed' /\ Past'
  BY <1>1, StepsFacts DEF IInv, Typed, TypeOK, Steps
<1>3. y.pc \notin Copying \cup {"indexing", "emptied"}
  BY <1>1 DEF Placed
<1>4. ArchivesNamed'
  BY <1>1, NamesStay
<1>5. \A b \in Requests : CopySound(b)'
  BY <1>1, <1>3, CopiesStay
<1>6. \A a \in archives' : ArchiveSound(a)'
  BY <1>1, ArchivesStay
<1>7. Listing'
  BY <1>1, <1>3, ListingStays
<1>8. QED
  BY <1>2, <1>4, <1>5, <1>6, <1>7 DEF IInv

\* A restore on its way writes its tenant's store, whole again only when nobody is
\* connected and it is what the archive has.
LEMMA RestoreWrites ==
  ASSUME IInv, TablesOK', NEW r \in Requests, NEW y, Moves(r, y), requests[r].op = "restore", y.op = "restore",
         ~y.ok, NEW t \in Tenants, requests[r].tenant = t, UNCHANGED <<archives, index>>,
         \A u \in Tenants \ {t} : store'[u] = store[u] /\ whole'[u] = whole[u],
         whole'[t] => Migrated(Content(store'[t])) /\ Connected(t) = {},
         y.calm /\ y.pc = "copied" =>
           \A b \in archives : b.by = requests[r].archive => Content(store'[t]) = Content(b.files)
  PROVE  IInv'
<1>1. /\ Steps /\ requests'[r] = y /\ \A q \in Requests \ {r} : requests'[q] = requests[q]
      /\ y.tenant = t /\ y.archive = requests[r].archive /\ Typed /\ requests[r].pc \notin {"new", "done"}
  BY DEF Moves, Continues, IInv, Typed, Placements, Placed
<1>2. ASSUME NEW u \in Tenants PROVE StoreSound(u)'
  <2>1. CASE u = t
    <3>1. r \in RestoresOf(t)'
      BY <1>1 DEF RestoresOf
    <3>2. ASSUME whole'[t] PROVE Connected(t)' = {}
      <4>1. SUFFICES ASSUME NEW q \in Connected(t)' PROVE FALSE
        OBVIOUS
      <4>2. q \in Requests /\ requests'[q].op = "write" /\ requests'[q].pc \notin {"new", "done"}
            /\ requests'[q].tenant = t
        BY DEF Connected, InFlight, Done, Fresh
      <4>3. requests'[q] = requests[q]
        BY <1>1, <4>2
      <4>4. q \in Connected(t)
        BY <4>2, <4>3 DEF Connected, InFlight, Done, Fresh
      <4>5. QED
        BY <3>2, <4>4
    <3>3. QED
      BY <2>1, <3>1, <3>2 DEF StoreSound, Migrated
  <2>2. CASE u # t
    <3>1. ASSUME NEW q \in Requests, requests'[q].op = "write", requests'[q].pc \in Opening,
                 requests'[q].tenant = u, whole[u]
          PROVE  Checked(requests'[q], Content(store[u]))
      <4>1. requests'[q] = requests[q] /\ q \in Connected(u)
        BY <1>1, <3>1 DEF Connected, InFlight, Done, Fresh, Opening
      <4>2. QED
        BY <3>1, <4>1 DEF IInv, StoreSound
    <3>2. \A w \in Requests : requests'[w].op = "write" /\ (requests'[w].pc = "written" \/ requests'[w].ok) =>
            requests[w].op = "write" /\ (requests[w].pc = "written" \/ requests[w].ok)
      BY <1>1
    <3>3. QED
      BY <1>1, <2>2, <3>1, <3>2, StoreStays
  <2>3. QED
    BY <2>1, <2>2
<1>3. ASSUME NEW q \in Requests PROVE GivenBack(q)'
  <2>1. CASE q = r
    BY <1>1, <2>1 DEF GivenBack
  <2>2. CASE q # r
    <3>1. ASSUME requests[q].op = "restore"
          PROVE  Keeps(requests[q].tenant) \/ \E p \in RestoresOf(requests[q].tenant) \ {q} : p \notin Done
      <4>1. PICK u \in Tenants : u = requests[q].tenant
        BY <1>1, <3>1 DEF Typed, Placements, Placed
      <4>2. CASE u = t
        <5>1. r \in RestoresOf(u) \ {q} /\ r \notin Done
          BY <1>1, <2>2, <4>2 DEF RestoresOf, Done
        <5>2. QED
          BY <4>1, <5>1
      <4>3. CASE u # t
        BY <4>1, <4>3 DEF Keeps
      <4>4. QED
        BY <4>2, <4>3
    <3>2. requests'[q] = requests[q] /\ archives' = archives
      BY <1>1, <2>2
    <3>3. QED
      BY <1>1, <3>1, <3>2, GivenStays
  <2>3. QED
    BY <2>1, <2>2
<1>4. QED
  BY <1>1, <1>2, <1>3, RestoreStep

\* One file of a store is overwritten.
LEMMA FileWritten ==
  ASSUME TablesOK, NEW t \in Tenants, NEW f \in Files, NEW commits \in SUBSET CommitRecords,
         NEW held \in BOOLEAN, UNCHANGED <<tenants, archives, index>>,
         store' = [store EXCEPT ![t][f] = commits], whole' = [whole EXCEPT ![t] = held]
  PROVE  /\ TablesOK' /\ whole'[t] = held
         /\ \A u \in Tenants \ {t} : store'[u] = store[u] /\ whole'[u] = whole[u]
         /\ f = "db" => store'[t].db = commits /\ store'[t].wal = store[t].wal
         /\ f = "wal" => store'[t].wal = commits /\ store'[t].db = store[t].db
<1>1. store \in [Tenants -> FileRecords] /\ whole \in [Tenants -> BOOLEAN] /\ store[t] \in FileRecords
  BY DEF TablesOK
<1>2. PICK F : F = [store[t] EXCEPT ![f] = commits]
  OBVIOUS
<1>3. store' = [store EXCEPT ![t] = F]
  BY <1>2
<1>4. /\ F \in FileRecords
      /\ f = "db" => F.db = commits /\ F.wal = store[t].wal
      /\ f = "wal" => F.wal = commits /\ F.db = store[t].db
  <2>1. CASE f = "db"
    BY <1>1, <1>2, <2>1 DEF FileRecords
  <2>2. CASE f = "wal"
    BY <1>1, <1>2, <2>2 DEF FileRecords
  <2>3. QED
    BY <2>1, <2>2 DEF Files
<1>5. store' \in [Tenants -> FileRecords] /\ store'[t] = F /\ \A u \in Tenants \ {t} : store'[u] = store[u]
  BY <1>1, <1>3, <1>4
<1>6. whole' \in [Tenants -> BOOLEAN] /\ whole'[t] = held /\ \A u \in Tenants \ {t} : whole'[u] = whole[u]
  BY <1>1
<1>7. QED
  BY <1>4, <1>5, <1>6 DEF TablesOK

LEMMA EmptyFileKeeps == ASSUME IInv, NEW r \in Requests, EmptyFile(r) PROVE IInv'
<1> DEFINE x == requests[r]
<1>1. /\ x.pc = "recorded" /\ x.op = "restore" /\ x.tenant \in Tenants /\ ~x.ok /\ x.left \subseteq Files
      /\ UNCHANGED <<tenants, archives, index>> /\ x.calm \in BOOLEAN
      /\ Typed /\ TablesOK /\ x \in RequestRecords /\ requests \in [Requests -> RequestRecords]
  BY DEF EmptyFile, At, IInv, Typed, TypeOK, Placements, Placed, RequestRecords
<1>2. PICK t \in Tenants : t = x.tenant
  BY <1>1
<1>3. PICK calm \in BOOLEAN : calm = (x.calm /\ Undisturbed(r))
  BY <1>1
<1>4. PICK f \in x.left :
        /\ store' = [store EXCEPT ![t][f] = {}]
        /\ requests' = [requests EXCEPT ![r] = [x EXCEPT !.pc = "filling", !.file = f, !.calm = calm]]
  BY <1>1, <1>2, <1>3 DEF EmptyFile
<1>5. PICK y : y = [x EXCEPT !.pc = "filling", !.file = f, !.calm = calm]
  OBVIOUS
<1>6. requests' = [requests EXCEPT ![r] = y] /\ f \in Files /\ "filling" \in Labels
  BY <1>1, <1>4, <1>5 DEF Labels
<1>7. whole' = [whole EXCEPT ![t] = FALSE]
  BY <1>2 DEF EmptyFile
<1> HIDE DEF x
<1>8. y \in RequestRecords
  BY <1>1, <1>5, <1>6 DEF RequestRecords
<1>9. /\ y.pc = "filling" /\ y.file = f /\ y.left = x.left /\ y.op = x.op /\ y.ok = x.ok /\ y.tenant = x.tenant
      /\ y.archive = x.archive /\ y.before = x.before
  BY <1>1, <1>5 DEF RequestRecords
<1>10. Placed(y)
  BY <1>1, <1>9 DEF Placed
<1>11. Goes(r, y)
  BY <1>1, <1>6, <1>8, <1>9, <1>10, ChangeGoes DEF x
<1>12. /\ TablesOK' /\ ~whole'[t]
       /\ \A u \in Tenants \ {t} : store'[u] = store[u] /\ whole'[u] = whole[u]
  BY <1>1, <1>4, <1>6, <1>7, FileWritten
<1>13. QED
  BY <1>1, <1>2, <1>9, <1>11, <1>12, RestoreWrites DEF Goes, x

LEMMA FillKeeps == ASSUME IInv, NEW r \in Requests, FillFile(r) PROVE IInv'
<1> DEFINE x == requests[r]
<1>1. /\ x.pc = "filling" /\ x.op = "restore" /\ x.tenant \in Tenants /\ ~x.ok /\ x.left \subseteq Files
      /\ UNCHANGED <<tenants, archives, index>> /\ x.calm \in BOOLEAN /\ x.file \in x.left
      /\ Typed /\ TablesOK /\ ArchivesNamed /\ x \in RequestRecords /\ requests \in [Requests -> RequestRecords]
  BY DEF FillFile, At, IInv, Typed, TypeOK, Placements, Placed, RequestRecords
<1>2. PICK t \in Tenants : t = x.tenant
  BY <1>1
<1>3. PICK a \in archives : a = Archive(r) /\ a.by = x.archive /\ \A b \in archives : b.by = x.archive => b = a
  BY <1>1, ArchiveIs
<1>4. a.files \in FileRecords /\ store[t] \in FileRecords /\ a.calm \in BOOLEAN
  BY <1>1 DEF TablesOK, ArchiveRecords
<1>5. PICK f \in Files : f = x.file
  BY <1>1
<1>6. PICK calm \in BOOLEAN, last \in BOOLEAN :
        calm = (x.calm /\ Undisturbed(r) /\ store[t][f] = {}) /\ last = (x.left = {f})
  OBVIOUS
<1>7. PICK left \in SUBSET Files, pc \in {"copied", "recorded"}, held \in BOOLEAN :
        left = x.left \ {f} /\ pc = (IF last THEN "copied" ELSE "recorded") /\ held = (last /\ calm /\ a.calm)
  BY <1>1
<1>8. PICK y : y = [x EXCEPT !.left = left, !.file = "none", !.calm = calm, !.pc = pc]
  OBVIOUS
<1>9. /\ store' = [store EXCEPT ![t][f] = a.files[f]] /\ whole' = [whole EXCEPT ![t] = held]
      /\ requests' = [requests EXCEPT ![r] = y]
  BY <1>1, <1>2, <1>3, <1>5, <1>6, <1>7, <1>8 DEF FillFile
<1>10. Undisturbed(r) =>
         /\ Connected(t) = {} /\ \A g \in Restored(a) \ x.left : store[t][g] = a.files[g]
         /\ a.files.wal # {} \/ store[t].wal = {}
  BY <1>2, <1>3 DEF Undisturbed
<1>11. pc \in Labels
  BY <1>7 DEF Labels
<1> HIDE DEF x
<1>12. y \in RequestRecords
  BY <1>1, <1>6, <1>7, <1>8, <1>11 DEF RequestRecords
<1>13. /\ y.left = left /\ y.calm = calm /\ y.pc = pc /\ y.op = x.op /\ y.ok = x.ok /\ y.tenant = x.tenant
       /\ y.archive = x.archive /\ y.before = x.before
  BY <1>1, <1>8 DEF RequestRecords
<1>14. pc = "recorded" => left # {}
  BY <1>1, <1>5, <1>6, <1>7
<1>15. Placed(y)
  BY <1>1, <1>7, <1>13, <1>14 DEF Placed
<1>16. Goes(r, y)
  BY <1>1, <1>7, <1>9, <1>12, <1>13, <1>15, ChangeGoes DEF x
<1>17. a.files[f] \in SUBSET CommitRecords
  BY <1>4 DEF FileRecords, Files
<1>18. /\ TablesOK' /\ whole'[t] = held
       /\ \A u \in Tenants \ {t} : store'[u] = store[u] /\ whole'[u] = whole[u]
       /\ f = "db" => store'[t].db = a.files[f] /\ store'[t].wal = store[t].wal
       /\ f = "wal" => store'[t].wal = a.files[f] /\ store'[t].db = store[t].db
  BY <1>1, <1>9, <1>17, FileWritten
<1>19. ASSUME last, calm PROVE Content(store'[t]) = Content(a.files)
  <2>1. /\ x.left = {f} /\ \A g \in Restored(a) \ x.left : store[t][g] = a.files[g]
        /\ a.files.wal # {} \/ store[t].wal = {}
    BY <1>6, <1>10, <1>19
  <2>2. CASE f = "db"
    <3>1. a.files.wal # {} => "wal" \in Restored(a) \ x.left
      BY <2>1, <2>2 DEF Restored, Files
    <3>2. store[t].wal = a.files.wal
      BY <2>1, <3>1
    <3>3. QED
      BY <1>18, <2>2, <3>2 DEF Content
  <2>3. CASE f = "wal"
    <3>1. "db" \in Restored(a) \ x.left
      BY <2>1, <2>3 DEF Restored, Files
    <3>2. store[t].db = a.files.db
      BY <2>1, <3>1
    <3>3. QED
      BY <1>18, <2>3, <3>2 DEF Content
  <2>4. QED
    BY <2>2, <2>3 DEF Files
<1>20. whole'[t] => Migrated(Content(store'[t])) /\ Connected(t) = {}
  <2>1. ASSUME held PROVE Migrated(Content(a.files)) /\ Connected(t) = {}
    BY <1>6, <1>7, <1>10, <2>1 DEF IInv, ArchiveSound
  <2>2. QED
    BY <1>7, <1>18, <1>19, <2>1
<1>21. y.calm /\ y.pc = "copied" =>
         \A b \in archives : b.by = x.archive => Content(store'[t]) = Content(b.files)
  BY <1>3, <1>7, <1>13, <1>19
<1>22. QED
  BY <1>1, <1>2, <1>13, <1>16, <1>18, <1>20, <1>21, RestoreWrites DEF Goes, x

LEMMA FinishRestoreKeeps == ASSUME IInv, NEW r \in Requests, FinishRestore(r) PROVE IInv'
<1>1. /\ requests[r].pc = "copied" /\ requests[r].op = "restore" /\ ~requests[r].ok
      /\ UNCHANGED <<tenants, store, whole, archives, index>> /\ Typed /\ TablesOK
  BY DEF FinishRestore, At, disk, IInv, Typed, TypeOK, Placements, Placed
<1>2. PICK y : Moves(r, y) /\ y.pc = "done" /\ y.op = "restore" /\ y.calm = requests[r].calm
  <2>1. PICK ok \in BOOLEAN : Finish(r, ok)
    BY DEF FinishRestore
  <2>2. QED
    BY <1>1, <2>1, FinishMoves
<1>3. Quiet(y, requests[r])
  BY <1>1, <1>2 DEF Quiet
<1>4. TablesOK'
  BY <1>1 DEF TablesOK
<1>5. QED
  BY <1>1, <1>2, <1>3, <1>4, QuietMove

(***************************************************************************)
(* The theorems.                                                           *)
(***************************************************************************)
LEMMA InitIInv == Init => IInv
<1> SUFFICES ASSUME Init PROVE IInv
  OBVIOUS
<1>1. NewReq \in RequestRecords /\ Placed(NewReq)
  BY NewReqTyped
<1>2. \A r \in Requests : requests[r] = NewReq
  BY DEF Init
<1>3. /\ NewReq.pc = "new" /\ NewReq.op = "none" /\ NewReq.ok = FALSE /\ NewReq.before = {}
      /\ Content(NoFiles) = {}
  BY DEF NewReq, Content, NoFiles
<1>4. Typed
  <2>1. requests \in [Requests -> RequestRecords]
    BY <1>1 DEF Init
  <2>2. NoFiles \in FileRecords
    BY DEF NoFiles, FileRecords
  <2>3. tenants \subseteq [id : Tenants \cup Int, slug : Slugs, status : Statuses]
    BY StoresAssumption DEF Init, Statuses
  <2>4. TablesOK
    BY <2>2, <2>3, FoundAssumption DEF Init, TablesOK
  <2>5. QED
    BY <1>1, <1>2, <2>1, <2>4 DEF Typed, TypeOK, Placements
<1>5. Past
  BY <1>2, <1>3 DEF Past
<1>6. ArchivesNamed
  BY <1>2, <1>3, FoundAssumption DEF Init, ArchivesNamed
<1>7. ASSUME NEW t \in Tenants PROVE StoreSound(t)
  <2>1. Content(store[t]) = {}
    BY <1>3 DEF Init
  <2>2. Connected(t) = {} /\ \A w \in Requests : ~Acknowledged(w, t)
    BY <1>2, <1>3 DEF Connected, InFlight, Fresh, Acknowledged
  <2>3. QED
    BY <2>1, <2>2 DEF StoreSound, Migrated, Named
<1>8. \A b \in Requests : CopySound(b)
  BY <1>2, <1>3 DEF CopySound
<1>9. \A a \in archives : ArchiveSound(a)
  BY FoundAssumption DEF Init, ArchiveSound
<1>10. \A q \in Requests : GivenBack(q)
  BY <1>2, <1>3 DEF GivenBack, Accepted
<1>11. Listing
  BY <1>2, <1>3 DEF Listing, Accepted, Done
<1>12. QED
  BY <1>4, <1>5, <1>6, <1>7, <1>8, <1>9, <1>10, <1>11 DEF IInv

LEMMA StutterKeeps == ASSUME IInv, UNCHANGED vars PROVE IInv'
<1>1. UNCHANGED <<tenants, store, whole, archives, index, requests>>
  BY DEF vars
<1>2. Typed /\ TablesOK /\ Steps
  <2>1. Typed
    BY DEF IInv
  <2>2. ASSUME NEW q \in Requests PROVE Continues(requests'[q], requests[q])
    BY <1>1, <2>1 DEF Typed, TypeOK, Placements, Continues
  <2>3. QED
    BY <1>1, <2>1, <2>2 DEF Typed, TypeOK, Steps
<1>3. TablesOK'
  BY <1>1, <1>2 DEF TablesOK
<1>4. \A q \in Requests : Quiet(requests'[q], requests[q])
  BY <1>1, SelfQuiet
<1>5. QED
  BY <1>1, <1>2, <1>3, <1>4, QuietStep

LEMMA NextIInv == IInv /\ [Next]_vars => IInv'
<1> SUFFICES ASSUME IInv, [Next]_vars PROVE IInv'
  OBVIOUS
<1>1. CASE UNCHANGED vars
  BY <1>1, StutterKeeps
<1>2. CASE Restart
  BY <1>2, RestartKeeps
<1>3. ASSUME NEW r \in Requests,
             \/ Fail(r)
             \/ OpenStore(r) \/ CheckMigration(r) \/ Migrate(r) \/ WriteRow(r) \/ CloseStore(r)
             \/ CreateTenant(r) \/ ResolveTenant(r) \/ UpdateTenant(r) \/ DeleteTenant(r)
      PROVE  IInv'
  BY <1>3, FailKeeps, OpenKeeps, CheckKeeps, MigrateKeeps, WriteKeeps, CloseKeeps, CreateKeeps, ResolveKeeps,
     UpdateKeeps, DeleteKeeps
<1>4. ASSUME NEW r \in Requests,
             \/ BeginBackup(r) \/ OpenFile(r) \/ EndFile(r) \/ WriteArchive(r)
             \/ ReadIndex(r) \/ EmptyIndex(r) \/ WriteIndex(r)
             \/ Unpack(r) \/ EnsureRecord(r) \/ EmptyFile(r) \/ FillFile(r) \/ FinishRestore(r)
      PROVE  IInv'
  BY <1>4, BackupKeeps, OpenFileKeeps, EndFileKeeps, ArchiveKeeps, ReadIndexKeeps, EmptyKeeps,
     WriteIndexKeeps, UnpackKeeps, EnsureKeeps, EmptyFileKeeps, FillKeeps, FinishRestoreKeeps
<1>5. QED
  BY <1>1, <1>2, <1>3, <1>4 DEF Next

\* Always: stores that are whole are migrated and hold what was acknowledged,
\* copies and archives are snapshots, restores gave archives back.
THEOREM StoresInvariant == Spec => []IInv
<1>1. QED
  BY InitIInv, NextIInv, PTL DEF Spec

\* Every variable keeps its type.
THEOREM StoreTypes == Spec => []TypeOK
<1>1. IInv => TypeOK
  BY DEF IInv, Typed
<1>2. QED
  BY <1>1, StoresInvariant, PTL

\* run_migrations: a store that is whole had each migration once, in their order,
\* and all of them before the first row, however its openers overlap and fail.
THEOREM MigrationsOnceAndFirst == Spec => []MigratedOnceFirst
<1>1. IInv => MigratedOnceFirst
  BY DEF IInv, StoreSound, MigratedOnceFirst
<1>2. QED
  BY <1>1, StoresInvariant, PTL

\* create_backup: the archive of a backup under which the database file did not
\* change has the rows acknowledged before it, and before the rows it has.
THEOREM BackupsAreSnapshots == Spec => []BackupIsSnapshot
<1>1. ASSUME IInv PROVE BackupIsSnapshot
  <2>1. SUFFICES ASSUME NEW a \in archives \ Found, a.calm,
                        \A q \in RestoresOf(a.row.id) : a.by \in requests[q].before
                 PROVE  /\ Closed(Content(a.files), a.by) /\ requests[a.by].tenant = a.row.id
    BY DEF BackupIsSnapshot, Closed
  <2>2. QED
    BY <1>1, <2>1 DEF IInv, ArchiveSound, ArchivesNamed
<1>2. QED
  BY <1>1, StoresInvariant, PTL

\* restore_backup: a tenant restored while nobody used its store has the rows of
\* the archive from then on, and none other of those acknowledged before.
THEOREM RestoresGiveBack == Spec => []RestoredIsArchive
<1>1. ASSUME IInv PROVE RestoredIsArchive
  <2>1. SUFFICES ASSUME NEW q \in Accepted("restore"), requests[q].calm,
                        \A p \in RestoresOf(requests[q].tenant) \ {q} : p \in requests[q].before
                 PROVE  LET now == Writers(Content(store[requests[q].tenant]))
                            then == Writers(Content(Archive(q).files))
                        IN  then \subseteq now /\ now \cap requests[q].before \subseteq then
    BY DEF RestoredIsArchive
  <2>2. q \in Requests /\ requests[q].op = "restore" /\ requests[q].ok
    BY DEF Accepted, Done
  <2>3. Archive(q) \in archives /\ Archive(q).by = requests[q].archive
    BY <1>1, <2>2, ArchiveIs DEF IInv
  <2>4. GivenBack(q) /\ Alone(q, RestoresOf(requests[q].tenant))
    BY <1>1, <2>1, <2>2 DEF IInv, Alone
  <2>5. QED
    BY <2>1, <2>2, <2>3, <2>4 DEF GivenBack
<1>2. QED
  BY <1>1, StoresInvariant, PTL

\* upsert_backup_index: an acknowledged backup is listed from then on, unless
\* another came across or a failure left the list empty.
THEOREM BackupsAreListed == Spec => []BackupListed
<1>1. IInv => BackupListed
  BY DEF IInv, Listing, Listed, BackupListed
<1>2. QED
  BY <1>1, StoresInvariant, PTL
=============================================================================
