--------------------------- MODULE VersionHistory ---------------------------
(***************************************************************************)
(* What an agent's rows promise to those who list, roll back and run it:   *)
(* an append-only history in which every version is newer than all before  *)
(* it and names an older one as its parent, and at most one live version,  *)
(* the newest.  AgentVersions implements this specification.               *)
(***************************************************************************)
EXTENDS Naturals

VARIABLES
  history,   \* every version ever written: its number, parent and definition
  live       \* the number of the version that runs; {} when there is none

historyVars == <<history, live>>

Numbers == {h.version : h \in history}

HistoryInit == history = {} /\ live = {}

Publish ==
  \E h \in history' :
    /\ history' = history \cup {h}
    /\ \A n \in Numbers : n < h.version
    /\ IF history = {} THEN h.parent = 0 ELSE h.parent \in Numbers
    /\ live' = {h.version}

\* The live version goes, and the history stays.
Retire == live' = {} /\ UNCHANGED history

HistoryNext == Publish \/ Retire

HistorySpec == HistoryInit /\ [][HistoryNext]_historyVars
=============================================================================
