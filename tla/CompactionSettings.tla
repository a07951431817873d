------------------------- MODULE CompactionSettings -------------------------
(***************************************************************************)
(* The compaction settings of an agent (compaction/config.rs), as admins   *)
(* patch and reset them (admin_api/compaction.rs) while conversations are  *)
(* compacted with what is in force.                                        *)
(*                                                                         *)
(* An agent has at most one row, the override; without it the platform's   *)
(* defaults hold.  No code writes a tenant's default, the level in         *)
(* between.  A patch is several statements, which interleave with those of *)
(* other requests, and it may stop between them.  The indicator is a       *)
(* setting like the others and has no invalid value.                       *)
(***************************************************************************)
EXTENDS Integers, FiniteSets

CONSTANTS
  Requests,   \* patches and resets, numbered as they come in
  Bodies,     \* what patches say: values for some of the settings
  Defaults    \* the platform's values, for all of them

ASSUME SettingsAssumption ==
  /\ Requests \subseteq Nat \ {0}
  /\ \A b \in Bodies \cup {Defaults} :
       \A f \in DOMAIN b : f \in DOMAIN Defaults /\ b[f] \in Int
  /\ Defaults = [f \in {"threshold", "fraction", "protected"} |-> Defaults[f]]

VARIABLES
  override,   \* the agent's row of compaction_config: [id, values], or none
  requests    \* the requests and their locals

settings == <<override, requests>>

Fields == DOMAIN Defaults

\* validate_config
Valid(values) ==
  /\ values["threshold"] \in 50..100
  /\ values["fraction"] \in 10..50
  /\ values["protected"] \in 1..20

Done == {r \in Requests : requests[r].pc = "done"}
Fresh == {r \in Requests : requests[r].pc = "new"}
Accepted(op) == {r \in Done : requests[r].op = op /\ requests[r].ok}

NewReq == [pc |-> "new", op |-> "none", ok |-> FALSE, row |-> 0, body |-> Defaults,
           values |-> Defaults, before |-> {}]

InitSettings ==
  /\ override = {}
  /\ requests = [r \in Requests |-> NewReq]

Begin(r, op, x) ==
  /\ r \in Fresh /\ \A q \in Fresh : r <= q
  /\ requests' = [requests EXCEPT ![r] = [x EXCEPT !.op = op, !.before = Done]]

At(r, pc) == requests[r].pc = pc
Finish(r, ok) == requests' = [requests EXCEPT ![r].pc = "done", ![r].ok = ok, ![r].row = 0,
                                           ![r].values = Defaults]

\* resolve_config: the agent's row, or else the platform's defaults.
InForce == IF override = {} THEN Defaults ELSE (CHOOSE o \in override : TRUE).values

\* Mutant of Merged: what a patch does not mention goes back to the default.
OverDefaults(values, body) == [f \in Fields |-> IF f \in DOMAIN body THEN body[f] ELSE Defaults[f]]

Merged(values, body) == [f \in Fields |-> IF f \in DOMAIN body THEN body[f] ELSE values[f]]

\* delete_for_agent
Reset(r) ==
  /\ Begin(r, "reset", [NewReq EXCEPT !.pc = "done", !.ok = TRUE])
  /\ override' = {}

\* get_for_agent
ReadOverride(r) ==
  /\ \E body \in Bodies :
       LET x == [NewReq EXCEPT !.body = body]
       IN  \/ \E o \in override : Begin(r, "patch", [x EXCEPT !.pc = "exists", !.row = o.id])
           \/ override = {} /\ Begin(r, "patch", [x EXCEPT !.pc = "none"])
  /\ UNCHANGED override

\* create fills in the platform's defaults; the agent is UNIQUE in the table.
CreateOverride(r) ==
  /\ At(r, "none")
  /\ LET values == Merged(Defaults, requests[r].body)
         free == Valid(values) /\ override = {}
     IN  /\ override' = IF free THEN {[id |-> r, values |-> values]} ELSE override
         /\ Finish(r, free)

\* update reads the row again, by id; it may be gone.
LoadCurrent(r) ==
  /\ At(r, "exists")
  /\ \/ \E o \in override :
          LET values == Merged(o.values, requests[r].body)
          IN  /\ o.id = requests[r].row
              /\ IF Valid(values)
                 THEN requests' = [requests EXCEPT ![r].pc = "merged", ![r].values = values]
                 ELSE Finish(r, FALSE)
     \/ (\A o \in override : o.id # requests[r].row) /\ Finish(r, FALSE)
  /\ UNCHANGED override

\* Every column is written; a row that is gone by now is no error.
WriteOverride(r) ==
  /\ At(r, "merged")
  /\ override' = {IF o.id = requests[r].row THEN [o EXCEPT !.values = requests[r].values] ELSE o :
                    o \in override}
  /\ Finish(r, TRUE)

\* A statement fails, or the process ends.
Stop(r) ==
  /\ ~At(r, "new") /\ ~At(r, "done")
  /\ Finish(r, FALSE)
  /\ UNCHANGED override

NextSettings ==
  \E r \in Requests :
    \/ Reset(r) \/ ReadOverride(r) \/ CreateOverride(r) \/ LoadCurrent(r) \/ WriteOverride(r)
    \/ Stop(r)

(***************************************************************************)
(* Properties.                                                             *)
(***************************************************************************)
\* What an admin set stays in force, and a patch changes nothing it does not
\* mention: the value an acknowledged patch gave a setting holds until a reset,
\* a patch of that setting, or a patch that was under way at the same time.
PatchStays ==
  \A p \in Accepted("patch") : \A f \in DOMAIN requests[p].body :
    \/ InForce[f] = requests[p].body[f]
    \/ \E q \in Requests \ {p} :
         /\ q \notin requests[p].before /\ requests[q].op # "none"
         /\ \/ requests[q].op = "reset" \/ f \in DOMAIN requests[q].body
            \/ p \notin requests[q].before
=============================================================================
