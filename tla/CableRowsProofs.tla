--------------------------- MODULE CableRowsProofs ---------------------------
(* The coordinator implements ExchangeRows: whatever the participants, the      *)
(* owner, the failures and the restarts do, the rows and the execution lock     *)
(* only ever move as the queue and the scheduler were told they may.            *)
EXTENDS CableExchangeProofs

\* The refinement mapping of Rows, by name.
PhaseMap == [t \in Exchange |-> RowPhase(phase[t])]
LockMap == IF runner.at = "idle" THEN NoExchange ELSE runner.ex

\* A thread only ever works on a row that exists, and one that asks adventures
\* for it on a row that is not resolved.
ThreadsSeeRows ==
    /\ \A t \in toExecute \cup waiting : phase[t] # "new"
    /\ runner.at # "idle" => phase[runner.ex] # "new"
    /\ runner.at \in Operations \cup {"session"} => phase[runner.ex] \notin Terminal

RowsInv == CableTypeOK /\ RunnerFollows /\ ThreadsSeeRows

MapsStay == decision' = decision /\ PhaseMap' = PhaseMap /\ LockMap' = LockMap
Kept == (Rows!RowNext \/ MapsStay) /\ ThreadsSeeRows'

------------------------------------------------------------------------------
(* The mapping.                                                                *)

LEMMA PhasesDiffer ==
    ASSUME NEW p \in Phases
    PROVE  /\ RowPhase(p) = "new" <=> p = "new"
           /\ RowPhase(p) = "resolved" <=> p \in Terminal
BY DEF Phases, Terminal, RowPhase

LEMMA PhasesMap ==
    /\ RowPhase("new") = "new" /\ RowPhase("preparing") = "preparing"
    /\ RowPhase("recovering") = "recovering"
    /\ RowPhase("connecting") = "active" /\ RowPhase("staging") = "active"
    /\ RowPhase("committed") = "active" /\ RowPhase("releasing") = "active"
    /\ RowPhase("aborting") = "active"
    /\ \A p \in Terminal : RowPhase(p) = "resolved"
    /\ {"preparing", "recovering", "connecting", "staging", "committed", "releasing",
         "aborting"} \cup Terminal \subseteq Phases
BY DEF RowPhase, Terminal, Phases

LEMMA OpenIsUnresolved ==
    ASSUME CableTypeOK
    PROVE  Rows!Open = Unresolved
BY PhasesDiffer DEF CableTypeOK, Rows!Open, Unresolved

LEMMA PhaseWritten ==
    ASSUME CableTypeOK, NEW t \in Exchange, NEW p \in Phases, NEW q, RowPhase(p) = q,
           phase' = [phase EXCEPT ![t] = p]
    PROVE  PhaseMap' = [PhaseMap EXCEPT ![t] = q]
<1>1. \A u \in Exchange : phase'[u] = IF u = t THEN p ELSE phase[u]
  BY DEF CableTypeOK
<1>2. \A u \in Exchange : RowPhase(phase'[u]) = IF u = t THEN q ELSE RowPhase(phase[u])
  BY <1>1
<1>3. PhaseMap' = [u \in Exchange |-> RowPhase(phase'[u])]
  BY DEF PhaseMap
<1>4. PhaseMap = [u \in Exchange |-> RowPhase(phase[u])]
  BY DEF PhaseMap
<1> QED
  BY <1>2, <1>3, <1>4

LEMMA PhaseKept ==
    ASSUME phase' = phase
    PROVE  PhaseMap' = PhaseMap
BY DEF PhaseMap

LEMMA LockMoves ==
    ASSUME CableTypeOK
    PROVE  /\ runner' = runner => LockMap' = LockMap
           /\ runner' = Idle => LockMap' = NoExchange
           /\ runner.at # "idle" => LockMap = runner.ex /\ runner.ex \in Exchange
           /\ \A at, t, e : RunAt(at, t, e) /\ at # "idle" =>
                 LockMap' = t /\ runner'.at = at /\ runner'.ex = t
           /\ \A a : Answered(a) => /\ LockMap' = LockMap
                                    /\ runner'.at = runner.at /\ runner'.ex = runner.ex
BY DEF CableTypeOK, Runners, LockMap, Idle, RunAt, Answered

------------------------------------------------------------------------------
(* The rows' operations, from what the coordinator writes.                     *)

LEMMA Advances ==
    ASSUME CableTypeOK, NEW p \in {"connecting", "staging", "releasing"},
           runner.at # "idle", phase[runner.ex] \notin Terminal \cup {"new"},
           phase' = [phase EXCEPT ![runner.ex] = p],
           decision' = decision, LockMap' = LockMap
    PROVE  Rows!Advance(runner.ex)
<1>1. PhaseMap' = [PhaseMap EXCEPT ![runner.ex] = "active"]
  <2>1. runner.ex \in Exchange /\ p \in Phases /\ RowPhase(p) = "active"
    BY PhasesMap DEF CableTypeOK
  <2> QED
    BY <2>1, PhaseWritten
<1>2. LockMap = runner.ex /\ runner.ex \in Rows!Open
  BY OpenIsUnresolved, LockMoves DEF Unresolved
<1> QED
  BY <1>1, <1>2 DEF Rows!Advance, PhaseMap, LockMap

LEMMA Aborts ==
    ASSUME CableTypeOK, NEW t \in Exchange, phase[t] # "new", decision[t] # "COMMIT",
           decision' = [decision EXCEPT ![t] = "ABORT"],
           phase' = [phase EXCEPT ![t] = "aborting"], LockMap' = LockMap
    PROVE  Rows!Abort(t)
<1>1. PhaseMap' = [PhaseMap EXCEPT ![t] = "active"]
  BY PhaseWritten, PhasesMap
<1>2. PhaseMap[t] # "new"
  BY PhasesDiffer DEF CableTypeOK, PhaseMap
<1> QED
  BY <1>1, <1>2 DEF Rows!Abort, PhaseMap, LockMap

LEMMA Resolves ==
    ASSUME CableTypeOK, NEW p \in Terminal,
           runner.at # "idle", phase[runner.ex] \notin Terminal \cup {"new"},
           decision[runner.ex] # "none", phase' = [phase EXCEPT ![runner.ex] = p],
           decision' = decision, LockMap' = LockMap
    PROVE  Rows!Resolve(runner.ex)
<1>1. PhaseMap' = [PhaseMap EXCEPT ![runner.ex] = "resolved"]
  <2>1. runner.ex \in Exchange /\ p \in Phases /\ RowPhase(p) = "resolved"
    BY PhasesMap DEF CableTypeOK
  <2> QED
    BY <2>1, PhaseWritten
<1>2. LockMap = runner.ex /\ runner.ex \in Rows!Open
  BY OpenIsUnresolved, LockMoves DEF Unresolved
<1> QED
  BY <1>1, <1>2 DEF Rows!Resolve, PhaseMap, LockMap

LEMMA Begins ==
    ASSUME CableTypeOK, NEW t \in Exchange, runner.at = "idle", phase[t] # "new",
           LockMap' = t, UNCHANGED rows
    PROVE  Rows!Begin(t)
<1>1. PhaseMap[t] # "new" /\ LockMap = NoExchange
  BY PhasesDiffer DEF CableTypeOK, PhaseMap, LockMap
<1>2. PhaseMap' = PhaseMap /\ decision' = decision
  BY PhaseKept DEF rows
<1> QED
  BY <1>1, <1>2 DEF Rows!Begin, PhaseMap, LockMap

LEMMA Releases ==
    ASSUME CableTypeOK, runner' = Idle, UNCHANGED rows
    PROVE  Rows!Release \/ MapsStay
<1>1. LockMap' = NoExchange /\ PhaseMap' = PhaseMap /\ decision' = decision
  BY PhaseKept, LockMoves DEF rows
<1> QED
  BY <1>1 DEF Rows!Release, MapsStay, PhaseMap, LockMap

LEMMA RaiseKeeps ==
    ASSUME RowsInv, runner.at # "idle", Raise, UNCHANGED <<toExecute, waiting>>
    PROVE  Kept
<1>0. CableTypeOK /\ runner.ex \in Exchange /\ phase[runner.ex] # "new"
  BY DEF RowsInv, CableTypeOK, ThreadsSeeRows
<1>1. CASE FailExchange
  <2>1. LockMap' = LockMap /\ runner'.at = "recover" /\ runner'.ex = runner.ex
    BY <1>0, <1>1, LockMoves DEF FailExchange
  <2>2. CASE UNCHANGED rows
    BY <1>0, <2>1, <2>2, PhaseKept DEF Kept, MapsStay, rows, RowsInv, ThreadsSeeRows, Operations
  <2>3. CASE /\ decision[runner.ex] = "none"
             /\ decision' = [decision EXCEPT ![runner.ex] = "ABORT"]
             /\ phase' = [phase EXCEPT ![runner.ex] = "aborting"]
    <3>1. Rows!RowNext
      BY <1>0, <2>1, <2>3, Aborts DEF Rows!RowNext
    <3>2. ThreadsSeeRows'
      BY <1>0, <2>1, <2>3 DEF RowsInv, ThreadsSeeRows, CableTypeOK, Operations
    <3> QED
      BY <3>1, <3>2 DEF Kept
  <2> QED
    BY <1>1, <2>2, <2>3 DEF FailExchange
<1>2. CASE RecoveryFails
  <2>1. CASE RunAt("recover", runner.ex, "park") /\ UNCHANGED rows
    <3>1. LockMap' = LockMap /\ runner'.at = "recover" /\ runner'.ex = runner.ex
      BY <1>0, <2>1, LockMoves
    <3> QED
      BY <1>0, <2>1, <3>1, PhaseKept DEF Kept, MapsStay, rows, RowsInv, ThreadsSeeRows, Operations
  <2>2. CASE runner' = Idle /\ phase' = [phase EXCEPT ![runner.ex] = "recovering"] /\ UNCHANGED decision
    <3>1. Rows!Park(runner.ex)
      <4>1. PhaseMap' = [PhaseMap EXCEPT ![runner.ex] = "recovering"]
        BY <1>0, <2>2, PhaseWritten, PhasesMap
      <4>2. LockMap = runner.ex /\ LockMap' = NoExchange
        BY <1>0, <2>2, LockMoves
      <4> QED
        BY <2>2, <4>1, <4>2 DEF Rows!Park, PhaseMap, LockMap
    <3>2. ThreadsSeeRows'
      BY <1>0, <2>2 DEF RowsInv, ThreadsSeeRows, CableTypeOK, Operations, Idle
    <3> QED
      BY <1>0, <3>1, <3>2 DEF Kept, Rows!RowNext
  <2>3. CASE runner' = Idle /\ UNCHANGED rows
    <3>1. ThreadsSeeRows'
      BY <1>0, <2>3 DEF RowsInv, ThreadsSeeRows, Operations, Idle, rows
    <3> QED
      BY <1>0, <2>3, <3>1, Releases DEF Kept, Rows!RowNext
  <2> QED
    BY <1>2, <2>1, <2>2, <2>3 DEF RecoveryFails
<1> QED
  BY <1>1, <1>2 DEF Raise

------------------------------------------------------------------------------
(* Every step of the composition.                                              *)

\* Rows and lock holder as they were, and no new thread.
Quiet ==
    /\ UNCHANGED rows
    /\ runner' = runner \/ \E a \in Adventure : Answered(a)
    /\ toExecute' \subseteq toExecute
    /\ waiting' \subseteq waiting \cup Unresolved

LEMMA QuietKeeps ==
    ASSUME RowsInv, Quiet
    PROVE  Kept
<1>1. LockMap' = LockMap /\ runner'.at = runner.at /\ runner'.ex = runner.ex
  BY LockMoves DEF RowsInv, Quiet
<1>2. MapsStay
  BY <1>1, PhaseKept DEF MapsStay, Quiet, rows
<1> QED
  BY <1>1, <1>2 DEF Kept, Quiet, rows, RowsInv, ThreadsSeeRows, Unresolved

LEMMA StepKeepsRows ==
    ASSUME RowsInv, [CableNext]_vars
    PROVE  Kept
<1>0. CableTypeOK /\ (runner.at # "idle" => runner.ex \in Exchange /\ phase[runner.ex] # "new")
  BY DEF RowsInv, CableTypeOK, ThreadsSeeRows
<1>1. ASSUME NEW a \in Adventure, Asks(a)
      PROVE  Kept
  <2>1. runner.at # "idle" /\ UNCHANGED <<toExecute, waiting>>
    BY <1>0, <1>1, AskCases DEF Operations
  <2> QED
    BY <1>0, <1>1, <2>1, AskCases, RaiseKeeps, QuietKeeps DEF Quiet
<1>2. ASSUME NEW a \in Adventure, Unreachable(a) \/ TimesOut(a) \/ SettleFails(a)
      PROVE  Kept
  BY <1>2, RaiseKeeps DEF Unreachable, TimesOut, SettleFails, Asking, Operations
<1>3. CASE PrepareCancelled \/ PrepareDeadline \/ SessionFails
  BY <1>3, RaiseKeeps DEF PrepareCancelled, PrepareDeadline, SessionFails, Raise
<1>4. CASE StartSession \/ SessionSucceeds
  <2>1. PICK p \in {"connecting", "staging"}, at \in {"session", "stage"} :
           /\ phase' = [phase EXCEPT ![runner.ex] = p] /\ RunAt(at, runner.ex, "park")
           /\ runner.at \in {"prepare", "session"} /\ UNCHANGED <<decision, toExecute, waiting>>
    BY <1>4 DEF StartSession, SessionSucceeds
  <2>2. phase[runner.ex] \notin Terminal \cup {"new"}
    BY <1>0, <2>1 DEF RowsInv, ThreadsSeeRows, Operations
  <2>3. LockMap' = LockMap /\ runner'.at = at /\ runner'.ex = runner.ex
    BY <1>0, <2>1, LockMoves
  <2>4. Rows!RowNext
    BY <1>0, <2>1, <2>2, <2>3, Advances DEF Rows!RowNext
  <2>5. ThreadsSeeRows'
    BY <1>0, <2>1, <2>3 DEF RowsInv, ThreadsSeeRows, CableTypeOK, Terminal
  <2> QED
    BY <2>4, <2>5 DEF Kept
<1>5. CASE Commit
  <2>1. /\ LockMap' = LockMap /\ LockMap = runner.ex
        /\ runner'.at = "recover" /\ runner'.ex = runner.ex
    BY <1>0, <1>5, LockMoves DEF Commit
  <2>2. decision[runner.ex] = "none" /\ runner.ex \in Rows!Open
    BY <1>0, <1>5, OpenIsUnresolved
    DEF Commit, RowsInv, RunnerFollows, ThreadsSeeRows, Operations, Unresolved
  <2>3. PhaseMap' = [PhaseMap EXCEPT ![runner.ex] = "active"]
    BY <1>0, <1>5, PhaseWritten, PhasesMap DEF Commit
  <2>4. Rows!CommitRow(runner.ex)
    BY <1>5, <2>1, <2>2, <2>3 DEF Commit, Rows!CommitRow, PhaseMap, LockMap
  <2>5. ThreadsSeeRows'
    BY <1>0, <1>5, <2>1 DEF Commit, RowsInv, ThreadsSeeRows, CableTypeOK, Operations
  <2> QED
    BY <1>0, <1>5, <2>4, <2>5 DEF Commit, Kept, Rows!RowNext
<1>6. CASE Recover
  <2>1. runner.at = "recover" /\ UNCHANGED <<toExecute, waiting>>
    BY <1>6 DEF Recover
  <2>2. CASE runner' = Idle /\ UNCHANGED rows
    <3>1. ThreadsSeeRows'
      BY <2>1, <2>2 DEF RowsInv, ThreadsSeeRows, Operations, Idle, rows
    <3> QED
      BY <1>0, <2>2, <3>1, Releases DEF Kept, Rows!RowNext
  <2>3. ASSUME NEW at \in {"apply", "abort"}, phase[runner.ex] \notin Terminal,
               RunAt(at, runner.ex, runner.onError), UNCHANGED rows
        PROVE  Kept
    <3>1. LockMap' = LockMap /\ runner'.at = at /\ runner'.ex = runner.ex
      BY <1>0, <2>1, <2>3, LockMoves
    <3> QED
      BY <1>0, <2>1, <2>3, <3>1, PhaseKept DEF Kept, MapsStay, rows, RowsInv, ThreadsSeeRows
  <2>4. CASE /\ decision[runner.ex] = "none"
             /\ decision' = [decision EXCEPT ![runner.ex] = "ABORT"]
             /\ phase' = [phase EXCEPT ![runner.ex] = "aborting"]
             /\ RunAt("abort", runner.ex, runner.onError)
    <3>1. LockMap' = LockMap /\ runner'.at = "abort" /\ runner'.ex = runner.ex
      BY <1>0, <2>1, <2>4, LockMoves
    <3>2. Rows!RowNext
      BY <1>0, <2>1, <2>4, <3>1, Aborts DEF Rows!RowNext
    <3>3. ThreadsSeeRows'
      BY <1>0, <2>1, <2>4, <3>1 DEF RowsInv, ThreadsSeeRows, CableTypeOK, Terminal
    <3> QED
      BY <3>2, <3>3 DEF Kept
  <2> QED
    BY <1>6, <2>2, <2>3, <2>4 DEF Recover
<1>7. CASE AllAnswered
  <2>1. /\ runner.at \in {"abort", "apply", "release"}
        /\ phase[runner.ex] \notin Terminal \cup {"new"}
        /\ UNCHANGED <<decision, toExecute, waiting>>
    BY <1>0, <1>7 DEF AllAnswered, RowsInv, ThreadsSeeRows, Operations
  <2>2. decision[runner.ex] # "none"
    BY <2>1 DEF RowsInv, RunnerFollows, Entitled
  <2>3. CASE phase' = [phase EXCEPT ![runner.ex] = "releasing"] /\ RunAt("release", runner.ex, runner.onError)
    <3>1. LockMap' = LockMap /\ runner'.at = "release" /\ runner'.ex = runner.ex
      BY <1>0, <2>1, <2>3, LockMoves
    <3>2. Rows!RowNext
      BY <1>0, <2>1, <2>3, <3>1, Advances DEF Rows!RowNext
    <3>3. ThreadsSeeRows'
      BY <1>0, <2>1, <2>3, <3>1 DEF RowsInv, ThreadsSeeRows, CableTypeOK, Terminal
    <3> QED
      BY <3>2, <3>3 DEF Kept
  <2>4. ASSUME NEW p \in Terminal, phase' = [phase EXCEPT ![runner.ex] = p],
               RunAt("settle", runner.ex, runner.onError)
        PROVE  Kept
    <3>1. LockMap' = LockMap /\ runner'.at = "settle" /\ runner'.ex = runner.ex
      BY <1>0, <2>1, <2>4, LockMoves
    <3>2. Rows!RowNext
      BY <1>0, <2>1, <2>2, <2>4, <3>1, Resolves DEF Rows!RowNext
    <3>3. ThreadsSeeRows'
      BY <1>0, <2>1, <2>4, <3>1 DEF RowsInv, ThreadsSeeRows, CableTypeOK, Operations, Terminal
    <3> QED
      BY <3>2, <3>3 DEF Kept
  <2> QED
    BY <1>7, <2>3, <2>4 DEF AllAnswered, Terminal
<1>8. CASE Settled \/ AppRestarts
  <2>1. /\ runner' = Idle /\ UNCHANGED rows
        /\ toExecute' \subseteq toExecute /\ waiting' \subseteq waiting \cup Unresolved
    BY <1>8 DEF Settled, AppRestarts, rows
  <2>2. ThreadsSeeRows'
    BY <2>1 DEF RowsInv, ThreadsSeeRows, Operations, Idle, rows, Unresolved
  <2> QED
    BY <1>0, <2>1, <2>2, Releases DEF Kept, Rows!RowNext
<1>9. ASSUME NEW t \in Exchange, Execute(t) \/ RecoverOne(t) \/ SchedulerRetries(t)
      PROVE  Kept
  <2>1. /\ runner.at = "idle" /\ phase[t] # "new" /\ UNCHANGED rows
        /\ toExecute' \subseteq toExecute /\ waiting' \subseteq waiting
    BY <1>9 DEF Execute, RecoverOne, SchedulerRetries, RowsInv, ThreadsSeeRows, Unresolved
  <2>2. \/ runner' = runner
        \/ \E e : RunAt("recover", t, e)
        \/ RunAt("prepare", t, "park") /\ phase[t] \notin Terminal
    BY <1>9 DEF Execute, RecoverOne, SchedulerRetries
  <2>3. CASE runner' = runner
    BY <2>1, <2>3, QuietKeeps DEF Quiet
  <2>4. CASE runner' # runner
    <3>1. /\ LockMap' = t /\ runner'.ex = t
          /\ runner'.at = "recover" \/ (runner'.at = "prepare" /\ phase[t] \notin Terminal)
      BY <1>0, <2>2, <2>4, LockMoves
    <3>2. Rows!RowNext
      BY <1>0, <2>1, <3>1, Begins DEF Rows!RowNext
    <3>3. ThreadsSeeRows'
      BY <2>1, <3>1 DEF RowsInv, ThreadsSeeRows, rows, Operations
    <3> QED
      BY <3>2, <3>3 DEF Kept
  <2> QED
    BY <2>3, <2>4
<1>10. ASSUME NEW t \in Exchange, Propose(t)
       PROVE  Kept
  <2>1. /\ phase[t] = "new" /\ Unresolved = {} /\ phase' = [phase EXCEPT ![t] = "preparing"]
        /\ UNCHANGED <<decision, runner, waiting>> /\ toExecute' = toExecute \cup {t}
    BY <1>10 DEF Propose
  <2>2. PhaseMap' = [PhaseMap EXCEPT ![t] = "preparing"] /\ PhaseMap[t] = "new"
    BY <1>0, <2>1, PhaseWritten, PhasesMap DEF PhaseMap
  <2>3. Rows!Create(t)
    BY <1>0, <2>1, <2>2, OpenIsUnresolved, LockMoves DEF Rows!Create, PhaseMap, LockMap
  <2>4. ThreadsSeeRows'
    BY <1>0, <2>1 DEF RowsInv, ThreadsSeeRows, CableTypeOK, Terminal, Operations
  <2> QED
    BY <2>3, <2>4 DEF Kept, Rows!RowNext
<1>11. ASSUME NEW t \in Exchange, Cancel(t) \/ SetAside(t)
       PROVE  Kept
  <2>1. /\ phase[t] \notin {"new"} \cup Terminal /\ decision[t] # "COMMIT"
        /\ decision' = [decision EXCEPT ![t] = "ABORT"]
        /\ phase' = [phase EXCEPT ![t] = "aborting"]
        /\ UNCHANGED <<runner, toExecute>> /\ waiting' \subseteq waiting \cup {t}
    BY <1>11 DEF Cancel, SetAside, Unresolved, threads, Terminal
  <2>2. Rows!Abort(t)
    BY <1>0, <2>1, Aborts, LockMoves
  <2>3. ThreadsSeeRows'
    BY <1>0, <2>1 DEF RowsInv, ThreadsSeeRows, CableTypeOK, Terminal
  <2> QED
    BY <2>2, <2>3 DEF Kept, Rows!RowNext
<1>12. ASSUME NEW t \in Exchange, ExecuteRefused(t) \/ OwnerRecovers(t)
       PROVE  Kept
  BY <1>12, QuietKeeps DEF ExecuteRefused, OwnerRecovers, Quiet, rows
<1>13. CASE CloseApp \/ UNCHANGED vars
  BY <1>13, QuietKeeps DEF CloseApp, vars, coordinatorVars, threads, Quiet
<1>14. ASSUME NEW a \in Adventure,
              \/ StartForRecovery(a) \/ Settle(a) \/ LateRequest(a) \/ OwnerStops(a)
              \/ OwnerStarts(a) \/ SupervisorStarts(a) \/ WorkerFails(a) \/ OrphanExits(a)
              \/ WorkerPlays(a)
       PROVE  Kept
  BY <1>14, QuietKeeps DEF StartForRecovery, Settle, LateRequest, OwnerStops, OwnerStarts,
     SupervisorStarts, WorkerFails, OrphanExits, WorkerPlays, coordinatorVars, threads, Quiet
<1> QED
  BY <1>1, <1>2, <1>3, <1>4, <1>5, <1>6, <1>7, <1>8, <1>9, <1>10, <1>11, <1>12, <1>13, <1>14
  DEF CableNext, RunnerStep, Asks

------------------------------------------------------------------------------

LEMMA RowsInitially ==
    ASSUME CableInit
    PROVE  ThreadsSeeRows /\ Rows!RowInit
<1>1. ThreadsSeeRows
  BY DEF CableInit, ThreadsSeeRows, Idle, Operations
<1>2. PhaseMap = [t \in Exchange |-> "new"] /\ LockMap = NoExchange
  BY PhasesMap DEF CableInit, PhaseMap, LockMap, Idle
<1> QED
  BY <1>1, <1>2 DEF CableInit, Rows!RowInit, PhaseMap, LockMap

\* A thread of the application never works on a row that was not recorded, and
\* asks no adventure for a row that is resolved.
THEOREM ThreadsAlwaysSeeRows == CableSpec => []ThreadsSeeRows
<1>1. CableInv /\ ThreadsSeeRows /\ [CableNext]_vars => ThreadsSeeRows'
  BY StepKeepsRows DEF CableInv, RowsInv, Kept
<1> QED
  BY <1>1, RowsInitially, CableAlwaysInv, PTL DEF CableSpec

\* The coordinator changes the rows and the execution lock only as the queue and
\* the scheduler may rely on (_admit, execute, _recover, cancel, recover_one).
THEOREM ImplementsExchangeRows == CableSpec => KeepsRowProtocol
<1>1. CableInv /\ ThreadsSeeRows /\ [CableNext]_vars
         => [Rows!RowNext]_<<decision, PhaseMap, LockMap>>
  BY StepKeepsRows DEF CableInv, RowsInv, Kept, MapsStay
<1> QED
  BY <1>1, RowsInitially, CableAlwaysInv, ThreadsAlwaysSeeRows, PTL
  DEF CableSpec, KeepsRowProtocol, Rows!RowSpec, Rows!rowVars, PhaseMap, LockMap
==============================================================================
