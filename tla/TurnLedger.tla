---------------------------- MODULE TurnLedger ----------------------------
(***************************************************************************)
(* What the conversation store promises about the turns of one             *)
(* conversation, whatever the agent loops do to it: a turn is written      *)
(* once, under an identity of its own, leaves the conversation only when   *)
(* the archive has it (word for word), and leaves the archive only by      *)
(* expiry.  AgentLoop implements this specification.                       *)
(***************************************************************************)
EXTENDS Naturals

VARIABLES
  live,     \* turns of the conversation
  kept,     \* turns the archive holds
  gone      \* turns that expired in the archive

ledgerVars == <<live, kept, gone>>

Written == live \cup kept \cup gone

LedgerInit == live = {} /\ kept = {} /\ gone = {}

Write ==
  /\ \E t \in live' : /\ live' = live \cup {t}
                      /\ \A u \in Written : u.id # t.id
  /\ UNCHANGED <<kept, gone>>

\* Two compactions that read the same turns both archive them.
Copy ==
  /\ \E t \in Written : kept' = kept \cup {t}
  /\ UNCHANGED <<live, gone>>

Forget ==
  /\ \E t \in kept \cup gone : live' = live \ {t}
  /\ UNCHANGED <<kept, gone>>

Expire ==
  /\ \E S \in SUBSET kept : gone' = gone \cup S
  /\ kept' \subseteq kept
  /\ kept \subseteq kept' \cup gone'
  /\ UNCHANGED live

LedgerNext == Write \/ Copy \/ Forget \/ Expire

LedgerSpec == LedgerInit /\ [][LedgerNext]_ledgerVars
=============================================================================
