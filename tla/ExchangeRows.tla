----------------------------- MODULE ExchangeRows -----------------------------
(***************************************************************************)
(* The durable rows of the Cable Club exchanges and the execution lock, as *)
(* the rest of the application sees them: what any thread may do to a row, *)
(* without the participants.  CableExchange implements it; ManualQueue     *)
(* schedules exchanges over it.                                            *)
(***************************************************************************)
CONSTANTS
    Row,     \* interaction identifiers
    NoRow    \* the execution lock is free

ASSUME NoRowAssumption == NoRow \notin Row

VARIABLES
    decision,   \* the durable decision of each row
    phase,      \* "active" stands for every phase between connecting and releasing
    executing   \* the row the execution lock is held for

rowVars == <<decision, phase, executing>>

RowTypeOK ==
    /\ decision \in [Row -> {"none", "COMMIT", "ABORT"}]
    /\ phase \in [Row -> {"new", "preparing", "active", "recovering", "resolved"}]
    /\ executing \in Row \cup {NoRow}

RowInit ==
    /\ decision = [t \in Row |-> "none"]
    /\ phase = [t \in Row |-> "new"]
    /\ executing = NoRow

Open == {t \in Row : phase[t] \notin {"new", "resolved"}}

\* _admit: only one exchange at a time is recorded.
Create(t) ==
    /\ phase[t] = "new" /\ Open = {}
    /\ phase' = [phase EXCEPT ![t] = "preparing"]
    /\ UNCHANGED <<decision, executing>>

Begin(t) ==
    /\ executing = NoRow /\ phase[t] # "new"
    /\ executing' = t
    /\ UNCHANGED <<decision, phase>>

Advance(t) ==
    /\ executing = t /\ t \in Open
    /\ phase' = [phase EXCEPT ![t] = "active"]
    /\ UNCHANGED <<decision, executing>>

\* By the holder of the lock, or by whoever read a row that was open then.
Abort(t) ==
    /\ phase[t] # "new" /\ decision[t] # "COMMIT"
    /\ decision' = [decision EXCEPT ![t] = "ABORT"]
    /\ phase' = [phase EXCEPT ![t] = "active"]
    /\ UNCHANGED executing

CommitRow(t) ==
    /\ executing = t /\ t \in Open /\ decision[t] = "none"
    /\ decision' = [decision EXCEPT ![t] = "COMMIT"]
    /\ phase' = [phase EXCEPT ![t] = "active"]
    /\ UNCHANGED executing

Resolve(t) ==
    /\ executing = t /\ t \in Open /\ decision[t] # "none"
    /\ phase' = [phase EXCEPT ![t] = "resolved"]
    /\ UNCHANGED <<decision, executing>>

\* The recovery raised: the row is left to the scheduler.
Park(t) ==
    /\ executing = t
    /\ phase' = [phase EXCEPT ![t] = "recovering"]
    /\ executing' = NoRow
    /\ UNCHANGED decision

\* The lock is given back, by its holder or with the process.
Release ==
    /\ executing # NoRow /\ executing' = NoRow
    /\ UNCHANGED <<decision, phase>>

RowNext ==
    \/ \E t \in Row : \/ Create(t) \/ Begin(t) \/ Advance(t) \/ Abort(t)
                      \/ CommitRow(t) \/ Resolve(t) \/ Park(t)
    \/ Release

RowSpec == RowInit /\ [][RowNext]_rowVars
==============================================================================
