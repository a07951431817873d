------------------------------- MODULE Stores -------------------------------
(***************************************************************************)
(* The tenants of an instance and the SQLite stores they have              *)
(* (store/models/tenant.rs, store/platform.rs, store/tenant.rs), the       *)
(* migrations every open of a store runs (store/migrations/mod.rs), and    *)
(* backups of a tenant and their restore (admin_api/backups.rs).           *)
(*                                                                         *)
(* A store is two files, the database and its write-ahead log; what it     *)
(* holds is the commits in either.  A request opens a connection of its    *)
(* own; the last one to close moves the log into the database and deletes  *)
(* it.  The files are copied while requests commit.  Statements and file   *)
(* copies of requests interleave; any may fail, and the process may end    *)
(* and start again at any point.                                           *)
(*                                                                         *)
(* SQLite's files are modelled from how the code opens them: a commit is   *)
(* a row of the log of its own, whole or absent.  Two commits to one page  *)
(* are not told apart, nor is what is left of a file that changed while it *)
(* was copied: nothing is said of a store that is not whole and of a       *)
(* backup that was not calm (below).                                       *)
(*                                                                         *)
(* Not modelled: the master key, whose file is part of every archive and   *)
(* is overwritten by every restore, and what secrets open with it; backups *)
(* of an instance, which copy the platform's files under its open          *)
(* connection, and their restore; two backups to one output file; deleting *)
(* an archive.                                                             *)
(***************************************************************************)
EXTENDS Integers, FiniteSets

CONSTANTS
  Requests,      \* requests, numbered as they come in
  Tenants,       \* tenants whose stores are used; 0 is the default tenant
  Slugs,         \* slugs of tenants, "default" among them
  Migrations,    \* the number of migrations of a tenant's store
  Found,         \* archives there are already: earlier ones, another instance's
  NewDefaults,   \* bound: the ids of default tenants provided by restarts
  MaxInFlight    \* bound: requests that run at the same time

ASSUME StoresAssumption ==
  /\ Requests \subseteq Nat \ {0} /\ 0 \in Tenants /\ "default" \in Slugs
  /\ {Migrations, MaxInFlight} \subseteq Nat
  /\ NewDefaults \subseteq Int \ (Requests \cup Tenants)

VARIABLES
  tenants,    \* the tenants table: [id, slug, status]
  store,      \* the two files of each tenant: [db, wal], sets of commits
  whole,      \* history, per tenant: what it holds, it held at one moment
  archives,   \* the archives on disk
  index,      \* backup-index.json: the backups it lists, or Torn
  requests    \* the requests and their locals

vars == <<tenants, store, whole, archives, index, requests>>
disk == <<store, whole, archives, index>>

Torn == {0}   \* no backup is numbered 0

Done == {r \in Requests : requests[r].pc = "done"}
Fresh == {r \in Requests : requests[r].pc = "new"}
InFlight == Requests \ (Done \cup Fresh)
Accepted(op) == {r \in Done : requests[r].op = op /\ requests[r].ok}

Files == {"db", "wal"}
NoFiles == [db |-> {}, wal |-> {}]
Content(files) == files.db \cup files.wal

\* Each migration once, in their order, and all of them before the first row.
Migrated(commits) ==
  /\ \A c, d \in commits : c.mig = d.mig /\ c.mig # 0 => c = d
  /\ \A c \in commits : \A m \in 1 .. (IF c.mig = 0 THEN Migrations ELSE c.mig - 1) :
       \E d \in commits : d.mig = m

Statuses == {"active", "deleted"}
CommitRecords == [mig : 0 .. Migrations, by : Int]
FileRecords == [db : SUBSET CommitRecords, wal : SUBSET CommitRecords]
ArchiveRecords ==
  [by : Int, calm : BOOLEAN, files : FileRecords,
   row : [id : Tenants, slug : Slugs, status : Statuses]]

\* The archives there are already have other numbers, and were made by this code:
\* the files of a calm one are a state of a store.
ASSUME FoundAssumption ==
  /\ Found \subseteq ArchiveRecords
  /\ \A a, b \in Found : a.by \notin Requests /\ (a.by = b.by => a = b)
  /\ \A a \in Found :
       /\ a.calm => Migrated(Content(a.files))
       /\ \A c \in Content(a.files) : c.mig = 0 => c.by \notin Requests

NewReq == [pc |-> "new", op |-> "none", ok |-> FALSE, tenant |-> 0, slug |-> "default",
           status |-> "active", mig |-> 0, left |-> {}, file |-> "none",
           got |-> NoFiles, calm |-> TRUE, archive |-> 0, seen |-> {}, before |-> {}]

\* AppState::new on an empty directory: a default tenant.
Init ==
  /\ tenants = {[id |-> 0, slug |-> "default", status |-> "active"]}
  /\ store = [t \in Tenants |-> NoFiles] /\ whole = [t \in Tenants |-> TRUE]
  /\ archives = Found /\ index = {}
  /\ requests = [r \in Requests |-> NewReq]

Begin(r, op, x) ==
  /\ r \in Fresh /\ \A q \in Fresh : r <= q
  /\ Cardinality(InFlight) < MaxInFlight
  /\ requests' = [requests EXCEPT ![r] = [x EXCEPT !.op = op, !.before = Done]]

At(r, op, pc) == requests[r].op = op /\ requests[r].pc = pc
Goto(r, pc) == requests' = [requests EXCEPT ![r].pc = pc]

\* What is left of a request that is over: of one on the tenants table, nothing.
Over(x, ok) ==
  IF x.op \in {"update", "delete"} THEN [NewReq EXCEPT !.pc = "done", !.op = x.op]
  ELSE [NewReq EXCEPT !.pc = "done", !.op = x.op, !.ok = ok, !.tenant = x.tenant,
                      !.archive = x.archive, !.before = x.before,
                      !.calm = x.op # "restore" \/ x.calm]
Finish(r, ok) == requests' = [requests EXCEPT ![r] = Over(@, ok)]

(***************************************************************************)
(* A tenant's store.                                                       *)
(***************************************************************************)
Connected(t) == {r \in InFlight : requests[r].op = "write" /\ requests[r].tenant = t}
RestoresOf(t) == {q \in Requests : requests[q].op = "restore" /\ requests[q].tenant = t}

\* A commit goes to the log, which starts over once the database has all of it,
\* and may move the log into the database.
Logs(files, c) ==
  {files.wal \cup {c}} \cup {w \in {{c}} : files.wal \subseteq files.db}

Commit(t, c) ==
  \E wal \in Logs(store[t], c), moved \in BOOLEAN :
    store' = [store EXCEPT ![t] = [db |-> IF moved THEN @.db \cup wal ELSE @.db, wal |-> wal]]

\* The connection of r is dropped.
Drop(r) ==
  LET t == requests[r].tenant
  IN  store' = [store EXCEPT ![t] = IF Connected(t) = {r} THEN [db |-> Content(@), wal |-> {}] ELSE @]

\* TenantStore::open, of any tenant there is a row for, whatever its status.
OpenStore(r) ==
  /\ \E x \in tenants : x.id \in Tenants /\
       Begin(r, "write", [NewReq EXCEPT !.pc = "opened", !.tenant = x.id, !.mig = 1])
  /\ UNCHANGED <<tenants, disk>>

Applied(t, k) == \E c \in Content(store[t]) : c.mig = k

\* run_migrations: has the next one been applied?
CheckMigration(r) ==
  /\ At(r, "write", "opened")
  /\ LET x == requests[r]
     IN  requests' = [requests EXCEPT ![r] =
           IF x.mig > Migrations THEN [x EXCEPT !.pc = "ready"]
           ELSE IF Applied(x.tenant, x.mig) THEN [x EXCEPT !.mig = @ + 1]
           ELSE [x EXCEPT !.pc = "missing"]]
  /\ UNCHANGED <<tenants, disk>>

\* Mutant of Recordable: the record is replaced, not inserted.
Recorded(t, k) == TRUE

\* The name of a migration is the primary key of its record.
Recordable(t, k) == ~Applied(t, k)

\* The migration and its record, in one transaction.
Migrate(r) ==
  LET x == requests[r]
  IN  /\ At(r, "write", "missing")
      /\ \/ /\ Recordable(x.tenant, x.mig)
            /\ Commit(x.tenant, [mig |-> x.mig, by |-> r])
            /\ requests' = [requests EXCEPT ![r].pc = "opened", ![r].mig = @ + 1]
         \/ /\ ~Recordable(x.tenant, x.mig)
            /\ Drop(r)
            /\ Finish(r, FALSE)
      /\ UNCHANGED <<tenants, whole, archives, index>>

\* What a request is there for: a row.
WriteRow(r) ==
  /\ At(r, "write", "ready")
  /\ Commit(requests[r].tenant, [mig |-> 0, by |-> r])
  /\ Goto(r, "written")
  /\ UNCHANGED <<tenants, whole, archives, index>>

CloseStore(r) ==
  /\ At(r, "write", "written")
  /\ Drop(r)
  /\ Finish(r, TRUE)
  /\ UNCHANGED <<tenants, whole, archives, index>>

(***************************************************************************)
(* The tenants table.                                                      *)
(***************************************************************************)
Taken(slug, id) == \E x \in tenants : x.slug = slug /\ x.id # id

\* create_tenant
CreateTenant(r) ==
  /\ \E slug \in Slugs :
       /\ Begin(r, "create", [NewReq EXCEPT !.pc = "done"])
       /\ tenants' = tenants \cup {x \in {[id |-> r, slug |-> slug, status |-> "active"]} :
                                     ~Taken(slug, r)}
  /\ UNCHANGED disk

\* update_tenant and delete_tenant resolve the tenant, then change its row by id.
ResolveTenant(r) ==
  /\ \E x \in tenants, op \in {"update", "delete"} :
       Begin(r, op, [NewReq EXCEPT !.pc = "resolved", !.tenant = x.id])
  /\ UNCHANGED <<tenants, disk>>

UpdateTenant(r) ==
  /\ At(r, "update", "resolved")
  /\ \E slug \in Slugs :
       LET free == ~Taken(slug, requests[r].tenant)
       IN  /\ tenants' = {IF free /\ x.id = requests[r].tenant THEN [x EXCEPT !.slug = slug] ELSE x :
                            x \in tenants}
           /\ Finish(r, free)
  /\ UNCHANGED disk

\* The row stays, and so does the store.
DeleteTenant(r) ==
  /\ At(r, "delete", "resolved")
  /\ tenants' = {IF x.id = requests[r].tenant THEN [x EXCEPT !.status = "deleted"] ELSE x :
                   x \in tenants}
  /\ Finish(r, TRUE)
  /\ UNCHANGED disk

(***************************************************************************)
(* Backups of a tenant.                                                    *)
(***************************************************************************)
\* Mutant of Copied: only the database is copied.
DatabaseOnly == {"db"}

\* append_path: every file of the tenant's directory, in the directory's order.
Copied == Files

\* create_backup: the tenant's row goes into the manifest, its directory must be
\* there.
BeginBackup(r) ==
  /\ \E x \in tenants :
       /\ x.id \in Tenants /\ (Content(store[x.id]) # {} \/ Connected(x.id) # {})
       /\ Begin(r, "backup", [NewReq EXCEPT !.pc = "copying", !.tenant = x.id, !.slug = x.slug,
                                            !.status = x.status, !.left = Copied])
  /\ UNCHANGED <<tenants, disk>>

\* append_file opens a file and puts the size it has then into the archive.  The
\* backup is calm as long as the database is the same at each such moment, and
\* whole.
OpenFile(r) ==
  LET x == requests[r]
      files == store[x.tenant]
  IN  /\ At(r, "backup", "copying")
      /\ \E f \in x.left :
           requests' = [requests EXCEPT ![r] =
             [x EXCEPT !.pc = "reading", !.file = f, !.got = [@ EXCEPT ![f] = files[f]],
                       !.seen = files.db,
                       !.calm = @ /\ whole[x.tenant] /\ (x.left = Copied \/ x.seen = files.db)]]
      /\ UNCHANGED <<tenants, disk>>

\* The database and the file that was read are as they were at its opening, and no
\* restore came across.
Unspoilt(r) ==
  LET x == requests[r]
      files == store[x.tenant]
  IN  files.db = x.seen /\ files[x.file] = x.got[x.file] /\ RestoresOf(x.tenant) \subseteq x.before

\* It is read to the end it has by now.
EndFile(r) ==
  LET x == requests[r]
  IN  /\ At(r, "backup", "reading")
      /\ requests' = [requests EXCEPT ![r] =
           [x EXCEPT !.pc = "copying", !.file = "none", !.left = @ \ {x.file},
                     !.calm = @ /\ Unspoilt(r)]]
      /\ UNCHANGED <<tenants, disk>>

\* The archive is complete.
WriteArchive(r) ==
  LET x == requests[r]
  IN  /\ At(r, "backup", "copying") /\ x.left = {}
      /\ archives' = archives \cup
           {[by |-> r, calm |-> x.calm, files |-> x.got,
             row |-> [id |-> x.tenant, slug |-> x.slug, status |-> x.status]]}
      /\ requests' = [requests EXCEPT ![r] =
             [x EXCEPT !.pc = "archived", !.got = NoFiles, !.seen = {}, !.calm = TRUE,
                       !.slug = "default", !.status = "active"]]
      /\ UNCHANGED <<tenants, store, whole, index>>

\* Mutant of Indexed: the index is written anew.
LastOnly(items, r) == {r}

\* upsert_backup_index
Indexed(items, r) == items \cup {r}

\* read_backup_index; what it cannot parse is an error.
ReadIndex(r) ==
  /\ At(r, "backup", "archived")
  /\ \/ index # Torn /\ requests' = [requests EXCEPT ![r].pc = "indexing", ![r].seen = index]
     \/ index = Torn /\ Finish(r, FALSE)
  /\ UNCHANGED <<tenants, disk>>

\* fs::write empties the file first.
EmptyIndex(r) ==
  /\ At(r, "backup", "indexing")
  /\ index' = Torn
  /\ Goto(r, "emptied")
  /\ UNCHANGED <<tenants, store, whole, archives>>

WriteIndex(r) ==
  /\ At(r, "backup", "emptied")
  /\ index' = Indexed(requests[r].seen, r)
  /\ Finish(r, TRUE)
  /\ UNCHANGED <<tenants, store, whole, archives>>

(***************************************************************************)
(* Restores.                                                               *)
(***************************************************************************)
\* restore_backup: the archive is unpacked.
Unpack(r) ==
  /\ \E a \in archives :
       Begin(r, "restore", [NewReq EXCEPT !.pc = "unpacked", !.tenant = a.row.id, !.archive = a.by])
  /\ UNCHANGED <<tenants, disk>>

Archive(r) == CHOOSE a \in archives : a.by = requests[r].archive

\* Mutant of Restored: the log is left behind.
WithoutLog(a) == {"db"}

\* copy_tree: the files the archive has.
Restored(a) == {f \in Files : f = "db" \/ a.files[f] # {}}

\* ensure_tenant_record: an upsert by id; the slug may be another tenant's.
EnsureRecord(r) ==
  /\ At(r, "restore", "unpacked")
  /\ LET row == Archive(r).row
     IN  \/ /\ ~Taken(row.slug, row.id)
            /\ tenants' = {x \in tenants : x.id # row.id} \cup {row}
            /\ requests' = [requests EXCEPT ![r].pc = "recorded", ![r].left = Restored(Archive(r))]
         \/ /\ Taken(row.slug, row.id)
            /\ Finish(r, FALSE)
            /\ UNCHANGED tenants
  /\ UNCHANGED disk

\* The store of r's tenant has what r has copied so far; no connection is open, no
\* other restore runs, and no log is left over that the archive does not replace.
Undisturbed(r) ==
  LET x == requests[r]
      a == Archive(r)
      files == store[x.tenant]
  IN  /\ Connected(x.tenant) = {} /\ RestoresOf(x.tenant) \cap InFlight = {r}
      /\ \A f \in Restored(a) \ x.left : files[f] = a.files[f]
      /\ a.files.wal # {} \/ files.wal = {}

\* std::fs::copy: a file is emptied first.
EmptyFile(r) ==
  LET x == requests[r]
  IN  /\ At(r, "restore", "recorded")
      /\ \E f \in x.left :
           /\ store' = [store EXCEPT ![x.tenant][f] = {}]
           /\ requests' = [requests EXCEPT ![r] =
                [x EXCEPT !.pc = "filling", !.file = f, !.calm = @ /\ Undisturbed(r)]]
      /\ whole' = [whole EXCEPT ![x.tenant] = FALSE]
      /\ UNCHANGED <<tenants, archives, index>>

\* The store is whole when the last file is, if nobody came across.
FillFile(r) ==
  LET x == requests[r]
      a == Archive(r)
      calm == x.calm /\ Undisturbed(r) /\ store[x.tenant][x.file] = {}
      last == x.left = {x.file}
  IN  /\ At(r, "restore", "filling")
      /\ store' = [store EXCEPT ![x.tenant][x.file] = a.files[x.file]]
      /\ whole' = [whole EXCEPT ![x.tenant] = last /\ calm /\ a.calm]
      /\ requests' = [requests EXCEPT ![r] =
           [x EXCEPT !.left = @ \ {x.file}, !.file = "none", !.calm = calm,
                     !.pc = IF last THEN "copied" ELSE "recorded"]]
      /\ UNCHANGED <<tenants, archives, index>>

\* Once the key's file is there, too.
FinishRestore(r) ==
  /\ At(r, "restore", "copied")
  /\ Finish(r, TRUE)
  /\ UNCHANGED <<tenants, disk>>

(***************************************************************************)
(* Failures.                                                               *)
(***************************************************************************)
\* A statement or a copy fails: the request ends, its connection is dropped.
Fail(r) ==
  /\ r \in InFlight
  /\ IF requests[r].op = "write" THEN Drop(r) ELSE UNCHANGED store
  /\ Finish(r, FALSE)
  /\ UNCHANGED <<tenants, whole, archives, index>>

\* The process ends, and AppState::new: the files are as they were, a default
\* tenant is provided.
Restart ==
  /\ requests' = [r \in Requests |-> IF r \in InFlight THEN Over(requests[r], FALSE) ELSE requests[r]]
  /\ \/ (\E x \in tenants : x.slug = "default") /\ UNCHANGED tenants
     \/ /\ \A x \in tenants : x.slug # "default"
        /\ \E id \in NewDefaults \ {x.id : x \in tenants} :
             tenants' = tenants \cup {[id |-> id, slug |-> "default", status |-> "active"]}
  /\ UNCHANGED disk

Next ==
  \/ Restart
  \/ \E r \in Requests :
       \/ Fail(r)
       \/ OpenStore(r) \/ CheckMigration(r) \/ Migrate(r) \/ WriteRow(r) \/ CloseStore(r)
       \/ CreateTenant(r) \/ ResolveTenant(r) \/ UpdateTenant(r) \/ DeleteTenant(r)
       \/ BeginBackup(r) \/ OpenFile(r) \/ EndFile(r) \/ WriteArchive(r)
       \/ ReadIndex(r) \/ EmptyIndex(r) \/ WriteIndex(r)
       \/ Unpack(r) \/ EnsureRecord(r) \/ EmptyFile(r) \/ FillFile(r) \/ FinishRestore(r)

Spec == Init /\ [][Next]_vars

(***************************************************************************)
(* Properties.                                                             *)
(***************************************************************************)
Writers(commits) == {c.by : c \in {d \in commits : d.mig = 0}}

\* A store that is whole had each migration once, in their order, and all of them
\* before the first row, though any number of requests opened it at the same
\* time, failed in the middle, or an archive from the middle was restored.
MigratedOnceFirst == \A t \in Tenants : whole[t] => Migrated(Content(store[t]))

\* An archive is a snapshot - it has every row acknowledged before the backup, and
\* with a row all that were acknowledged before that one - if the database did not
\* change from the opening of the first file to the end of the last, and each file
\* was as long at its end as at its opening.  The log may grow between the copies
\* of the two files, but not during its own.
BackupIsSnapshot ==
  \A a \in archives \ Found :
    a.calm /\ (\A q \in RestoresOf(a.row.id) : a.by \in requests[q].before) =>
      \A w \in Accepted("write") :
        /\ requests[w].tenant = a.row.id
        /\ \/ w \in requests[a.by].before
           \/ \E v \in Writers(Content(a.files)) : w \in requests[v].before
        => w \in Writers(Content(a.files))

\* A tenant restored from a calm backup has the rows of the archive, and of the
\* rows acknowledged before the restore no others; whatever happens later.  When
\* the store was in use or a log was left over, nothing is said.
RestoredIsArchive ==
  \A q \in Accepted("restore") :
    requests[q].calm /\ Archive(q).calm /\ (\A p \in RestoresOf(requests[q].tenant) \ {q} : p \in requests[q].before) =>
      LET now == Writers(Content(store[requests[q].tenant]))
          then == Writers(Content(Archive(q).files))
      IN  then \subseteq now /\ now \cap requests[q].before \subseteq then

\* A backup that was acknowledged is in the index from then on, unless another
\* one was indexed at the same time or the index was left empty by a failure.
BackupListed ==
  \A b \in Accepted("backup") :
    \/ b \in index \/ index = Torn
    \/ \E c \in Requests : /\ requests[c].op = "backup" /\ c # b
                           /\ c \notin requests[b].before /\ b \notin requests[c].before
=============================================================================
