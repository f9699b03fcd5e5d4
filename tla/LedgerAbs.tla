------------------------------ MODULE LedgerAbs ------------------------------
(***************************************************************************)
(* What the staleness ledger promises its readers (a restarted daemon and  *)
(* `berm stale`, which both open the file in a fresh process): the file is *)
(* always a whole state the in-memory ledger passed through since the      *)
(* daemon started, and a restart resumes from exactly that state.          *)
(***************************************************************************)
CONSTANTS Container, Digest, NoRecord, Absent

VARIABLES up, records, file, past

absVars == <<up, records, file, past>>

Snapshot == [Container -> Digest \cup {NoRecord}]
Nothing == [c \in Container |-> NoRecord]
Contents(f) == IF f = Absent THEN Nothing ELSE f

AbsInit ==
    /\ up = TRUE
    /\ file = Absent
    /\ records = Nothing
    /\ past = {records}

\* One container's record is replaced or dropped, in memory only.
Mutate ==
    /\ up
    /\ \E c \in Container, r \in Digest \cup {NoRecord} :
          records' = [records EXCEPT ![c] = r]
    /\ past' = past \cup {records'}
    /\ UNCHANGED <<up, file>>

\* The file is replaced, in one step, by some state the memory went through.
Publish ==
    /\ up
    /\ file' \in past
    /\ UNCHANGED <<up, records, past>>

Crash ==
    /\ up
    /\ up' = FALSE
    /\ UNCHANGED <<records, file, past>>

\* A start resumes from the file; past restarts there too.
Boot ==
    /\ ~up
    /\ up' = TRUE
    /\ records' = Contents(file)
    /\ past' = {records'}
    /\ UNCHANGED file

AbsNext == Mutate \/ Publish \/ Crash \/ Boot

AbsSpec == AbsInit /\ [][AbsNext]_absVars
=============================================================================
