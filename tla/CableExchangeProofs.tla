------------------------- MODULE CableExchangeProofs -------------------------
(* What the coordinator promises about an exchange, proved for any set of       *)
(* adventures, any assignment of participants, any number of exchanges and any  *)
(* number of crashes, lost replies and restarts.                                *)
EXTENDS CableExchange, ParticipantProofs

USE NAssumption, MaxProgressAssumption, NothingAssumption, ParticipantsAssumption,
    StoppableAssumption, MaxFaultsAssumption DEF Exchange, NoExchange

------------------------------------------------------------------------------
(* The participants under the coordinator: every step of the composition is a  *)
(* step of one participant, of none, or the end of the application.            *)

\* The runner asks one adventure and gets an answer, a refusal or a failure.
Asks(a) == AskPrepare(a) \/ AskStage(a) \/ AskApply(a) \/ AskRelease(a) \/ AskAbort(a)

\* What the worker does with a request, whole or stopped half-way.
Outcome(a, op, t) ==
    \/ LateOutcome(a, op, t)
    \/ op = "apply" /\ ApplyInterrupted(a, t)
    \/ op = "abort" /\ AbortInterrupted(a, t)

LEMMA OutcomeIsRequest ==
    ASSUME NEW a \in Adventure, NEW op, NEW t \in Exchange, Outcome(a, op, t)
    PROVE  Requests(a, t)
BY DEF Outcome, LateOutcome, Requests

\* What one request of the runner does: the worker's outcome, and with it the
\* answer is awaited again, taken down, or an exception.
LEMMA AskCases ==
    ASSUME CableTypeOK, NEW a \in Adventure, Asks(a)
    PROVE  /\ runner.at \in Operations /\ a \in runner.left /\ runner.ex \in Exchange
           /\ Outcome(a, runner.at, runner.ex)
           /\ \/ UNCHANGED <<rows, runner>>
              \/ Answered(a) /\ UNCHANGED rows /\ Obeyed(runner.at, a, runner.ex)'
              \/ Raise /\ (runner.at \in {"prepare", "session", "stage"} =>
                             record' = record \/ PrepareRefused(a, runner.ex))
           /\ UNCHANGED <<desired, toExecute, waiting, closed, late>>
           /\ faults' \in 0 .. MaxFaults
<1> DEFINE t == runner.ex
<1>0. /\ runner.at \in Operations /\ a \in runner.left /\ t \in Exchange
      /\ runner \in Runners /\ ParticipantTypeOK /\ faults \in 0 .. MaxFaults
  BY DEF Asks, AskPrepare, AskStage, AskApply, AskRelease, AskAbort, Asking, Operations,
     CableTypeOK
<1>1. Answered(a) => runner'.at = runner.at /\ runner'.ex = runner.ex
  BY <1>0 DEF Answered, Runners
<1>2. Fault => faults' \in 0 .. MaxFaults
  BY <1>0 DEF Fault
<1>3. CASE AskPrepare(a)
  <2>1. runner.at = "prepare" /\ faults' = faults
    BY <1>3 DEF AskPrepare, Asking
  <2>2. Outcome(a, runner.at, t)
    BY <1>3, <2>1 DEF AskPrepare, Outcome, LateOutcome
  <2> QED
    BY <1>0, <1>1, <1>3, <2>1, <2>2 DEF AskPrepare, Obeyed
<1>4. CASE AskStage(a)
  <2>1. runner.at = "stage" /\ faults' = faults
    BY <1>4 DEF AskStage, Asking
  <2>2. Outcome(a, runner.at, t)
    BY <1>4, <2>1 DEF AskStage, Outcome, LateOutcome
  <2>3. StageSucceeds(a, t) => record'[a][t] = "staged"
    BY <1>0 DEF StageSucceeds, ParticipantTypeOK
  <2>4. StageRefused(a, t) => record' = record
    BY DEF StageRefused, participantVars
  <2> QED
    BY <1>0, <1>1, <1>4, <2>1, <2>2, <2>3, <2>4 DEF AskStage, Obeyed
<1>5. CASE AskApply(a)
  <2>1. runner.at = "apply" /\ faults' \in 0 .. MaxFaults
    BY <1>0, <1>2, <1>5 DEF AskApply, Asking
  <2>2. Outcome(a, runner.at, t)
    BY <1>5, <2>1 DEF AskApply, Outcome, LateOutcome
  <2>3. ApplySucceeds(a, t) => t \in Received(a)'
    BY <1>0 DEF ApplySucceeds, Promote, Received, ParticipantTypeOK
  <2> QED
    BY <1>0, <1>1, <1>5, <2>1, <2>2, <2>3 DEF AskApply, Obeyed
<1>6. CASE AskRelease(a)
  <2>1. runner.at = "release" /\ faults' = faults
    BY <1>6 DEF AskRelease, Asking
  <2>2. Outcome(a, runner.at, t)
    BY <1>6, <2>1 DEF AskRelease, Outcome, LateOutcome
  <2>3. ReleaseSucceeds(a, t) => record'[a][t] = "released"
    BY <1>0 DEF ReleaseSucceeds, ParticipantTypeOK
  <2> QED
    BY <1>0, <1>1, <1>6, <2>1, <2>2, <2>3 DEF AskRelease, Obeyed
<1>7. CASE AskAbort(a)
  <2>1. runner.at = "abort" /\ faults' \in 0 .. MaxFaults
    BY <1>0, <1>2, <1>7 DEF AskAbort, Asking
  <2>2. Outcome(a, runner.at, t)
    BY <1>7, <2>1 DEF AskAbort, Outcome, LateOutcome
  <2>3. AbortSucceeds(a, t) => record'[a][t] = "aborted"
    BY <1>0 DEF AbortSucceeds, ParticipantTypeOK
  <2> QED
    BY <1>0, <1>1, <1>7, <2>1, <2>2, <2>3 DEF AskAbort, Obeyed
<1> QED
  BY <1>3, <1>4, <1>5, <1>6, <1>7 DEF Asks

LEMMA ParticipantSteps ==
    ASSUME CableTypeOK, [CableNext]_vars, ~AppRestarts
    PROVE  [ParticipantNext]_participantVars
<1>1. ASSUME NEW a \in Adventure, Asks(a)
      PROVE  ParticipantNext
  BY <1>1, AskCases, OutcomeIsRequest DEF ParticipantNext
<1>2. ASSUME NEW a \in Adventure,
             \/ StartForRecovery(a) \/ SettleFails(a) \/ SupervisorStarts(a)
             \/ WorkerFails(a) \/ OrphanExits(a) \/ WorkerPlays(a)
      PROVE  ParticipantNext
  BY <1>2 DEF StartForRecovery, SettleFails, SupervisorStarts, WorkerFails, OrphanExits,
     WorkerPlays, ParticipantNext, WorkerLife
<1>3. ASSUME NEW a \in Adventure, Settle(a) \/ OwnerStops(a)
      PROVE  ParticipantNext \/ UNCHANGED participantVars
  BY <1>3 DEF Settle, OwnerStops, ParticipantNext, WorkerLife
<1>4. ASSUME NEW a \in Adventure, LateRequest(a)
      PROVE  ParticipantNext
  <2>1. PICK request \in late[a] : LateOutcome(a, request[1], request[2])
    BY <1>4 DEF LateRequest
  <2>2. request[2] \in Exchange
    BY <2>1 DEF CableTypeOK
  <2> QED
    BY <2>1, <2>2, OutcomeIsRequest DEF Outcome, ParticipantNext
<1>5. ASSUME NEW a \in Adventure, Unreachable(a) \/ TimesOut(a) \/ OwnerStarts(a)
      PROVE  UNCHANGED participantVars
  BY <1>5 DEF Unreachable, TimesOut, OwnerStarts
<1>6. CASE \/ PrepareCancelled \/ PrepareDeadline \/ StartSession
           \/ SessionSucceeds \/ SessionFails \/ Commit
           \/ Recover \/ AllAnswered \/ Settled \/ CloseApp
  BY <1>6 DEF PrepareCancelled, PrepareDeadline, StartSession, SessionSucceeds, SessionFails,
     Commit, Recover, AllAnswered, Settled, CloseApp
<1>7. ASSUME NEW t \in Exchange,
             \/ Propose(t) \/ Execute(t) \/ ExecuteRefused(t)
             \/ RecoverOne(t) \/ SchedulerRetries(t)
             \/ Cancel(t) \/ SetAside(t) \/ OwnerRecovers(t)
      PROVE  UNCHANGED participantVars
  BY <1>7 DEF Propose, Execute, ExecuteRefused, RecoverOne, SchedulerRetries, Cancel, SetAside,
     OwnerRecovers
<1>8. CASE UNCHANGED vars
  BY <1>8 DEF vars
<1> QED
  BY <1>1, <1>2, <1>3, <1>4, <1>5, <1>6, <1>7, <1>8 DEF CableNext, RunnerStep, Asks

\* The workers outlive their application with everything they had.
LEMMA OrphansKeepInv ==
    ASSUME ParticipantInv, AppRestarts
    PROVE  ParticipantInv'
<1>1. ParticipantTypeOK /\ \A b \in Adventure : AdventureInv(b)
  BY DEF ParticipantInv
<1>2. /\ worker' \in [Adventure -> {"down", "up", "orphan"}]
      /\ \A b \in Adventure : Running(b)' <=> Running(b)
      /\ UNCHANGED <<game, saves, barrier, hold, preparation, record, source>>
  BY <1>1 DEF AppRestarts, ParticipantTypeOK, Running, durable
<1>3. ParticipantTypeOK'
  BY <1>1, <1>2 DEF ParticipantTypeOK
<1>4. ASSUME NEW b \in Adventure
      PROVE  AdventureInv(b)'
  <2>1. /\ Unfinished(b)' = Unfinished(b) /\ Received(b)' = Received(b)
        /\ RestartPoint(b)' = RestartPoint(b)
    BY <1>2 DEF Unfinished, Received, RestartPoint
  <2>2. Reservation(b)' /\ Covered(b)' /\ BarrierHasSave(b)'
    BY <1>1, <1>2, <2>1 DEF AdventureInv, Reservation, Covered, BarrierHasSave, HeldFor
  <2>3. SourcesAreNewest(b)'
    BY <1>1, <1>2 DEF AdventureInv, SourcesAreNewest, Uncommitted, IsRestartPoint, Exchanged,
       Reloads, HeldFor
  <2>4. Lineage(b)'
    BY <1>1, <1>2, <2>1 DEF AdventureInv, Lineage
  <2> QED
    BY <2>2, <2>3, <2>4 DEF AdventureInv
<1> QED
  BY <1>3, <1>4 DEF ParticipantInv

\* Whatever the coordinator does, its participants keep their promises.
LEMMA ParticipantsKeepInv ==
    ASSUME CableTypeOK, ParticipantInv, [CableNext]_vars
    PROVE  ParticipantInv'
BY ParticipantSteps, OrphansKeepInv, InvStep

------------------------------------------------------------------------------
(* Records: what moved, and on whose authority.                                *)

\* One record moves, and beyond its result only as far as the row allows.
RecordMove(a, t) ==
    \/ /\ record[a][t] \in {"none", "preparing"}
       /\ Written(a, t, "preparing") \/ Written(a, t, "prepared")
    \/ /\ record[a][t] = "prepared" /\ a \in Participants[t]
       /\ Written(a, t, "staged")
    \/ /\ Committable(a, t) /\ Authorised("apply", a, t)
       /\ Written(a, t, "committed") \/ Written(a, t, "applied")
    \/ /\ record[a][t] = "applied" /\ Authorised("release", a, t)
       /\ Written(a, t, "released")
    \/ /\ record[a][t] \in {"none", "preparing", "prepared", "staged", "aborting"}
       /\ Authorised("abort", a, t)
       /\ Written(a, t, "aborting") \/ Written(a, t, "aborted")
    \/ record[a][t] \in AbortPhases /\ Written(a, t, "aborted")

LEMMA OutcomeMoves ==
    ASSUME NEW a \in Adventure, NEW op, NEW t \in Exchange,
           Outcome(a, op, t), Authorised(op, a, t)
    PROVE  record' = record \/ RecordMove(a, t)
<1>1. CASE \/ PrepareBegins(a, t) \/ PrepareWaits(a, t)
           \/ PrepareSucceeds(a, t) \/ PrepareRefused(a, t)
  BY <1>1 DEF PrepareBegins, PrepareWaits, PrepareSucceeds, PrepareRefused, RecordMove, Written,
     participantVars
<1>2. CASE StageSucceeds(a, t) \/ StageRefused(a, t)
  BY <1>2 DEF StageSucceeds, StageRefused, RecordMove, Written, participantVars, Authorised,
     Entitled
<1>3. CASE op = "apply" /\ (ApplySucceeds(a, t) \/ ApplyRefused(a, t) \/ ApplyInterrupted(a, t))
  BY <1>3 DEF ApplySucceeds, ApplyRefused, ApplyInterrupted, RecordMove, Written,
     participantVars
<1>4. CASE op = "release" /\ (ReleaseSucceeds(a, t) \/ ReleaseRefused(a, t))
  BY <1>4 DEF ReleaseSucceeds, ReleaseRefused, RecordMove, Written, participantVars
<1>5. CASE op = "abort" /\ (AbortSucceeds(a, t) \/ AbortRefused(a, t) \/ AbortInterrupted(a, t))
  <2>1. CASE AbortRefused(a, t)
    BY <2>1 DEF AbortRefused, participantVars
  <2>2. CASE AbortSucceeds(a, t) \/ AbortInterrupted(a, t)
    BY <1>5, <2>2 DEF AbortSucceeds, AbortInterrupted, Abortable, RecordMove, Written,
       AbortPhases
  <2> QED
    BY <1>5, <2>1, <2>2
<1> QED
  BY <1>1, <1>2, <1>3, <1>4, <1>5 DEF Outcome, LateOutcome

\* A restart only finishes what an abort began.
LEMMA RestartMoves ==
    ASSUME NEW a \in Adventure, WorkerStarts(a)
    PROVE  record' = record \/ \E t \in Exchange : RecordMove(a, t)
BY DEF WorkerStarts, RecoverNothing, RecoverCommit, RecoverAbort, RecoverUndecided, RecordMove,
   Written, AbortPhases

LEMMA RecordMoves ==
    ASSUME CableInv, [CableNext]_vars
    PROVE  record' = record \/ \E a \in Adventure, t \in Exchange : RecordMove(a, t)
<1>0. CableTypeOK /\ LateFollows /\ RunnerFollows
  BY DEF CableInv
<1>1. ASSUME NEW a \in Adventure, Asks(a)
      PROVE  record' = record \/ RecordMove(a, runner.ex)
  <2>1. /\ runner.at \in Operations /\ a \in runner.left /\ runner.ex \in Exchange
        /\ Outcome(a, runner.at, runner.ex)
    BY <1>0, <1>1, AskCases
  <2>2. Authorised(runner.at, a, runner.ex)
    BY <1>0, <2>1 DEF RunnerFollows, Authorised, Operations
  <2> QED
    BY <2>1, <2>2, OutcomeMoves
<1>2. ASSUME NEW a \in Adventure, LateRequest(a)
      PROVE  record' = record \/ \E t \in Exchange : RecordMove(a, t)
  <2>1. PICK request \in late[a] : LateOutcome(a, request[1], request[2])
    BY <1>2 DEF LateRequest
  <2>2. request[2] \in Exchange /\ Authorised(request[1], a, request[2])
    BY <1>0, <2>1 DEF CableTypeOK, LateFollows
  <2> QED
    BY <2>1, <2>2, OutcomeMoves DEF Outcome
<1>3. ASSUME NEW a \in Adventure, StartForRecovery(a) \/ SupervisorStarts(a)
      PROVE  record' = record \/ \E t \in Exchange : RecordMove(a, t)
  BY <1>3, RestartMoves DEF StartForRecovery, SupervisorStarts
<1>4. ASSUME NEW a \in Adventure,
             \/ SettleFails(a) \/ WorkerFails(a) \/ OrphanExits(a) \/ WorkerPlays(a)
             \/ Settle(a) \/ OwnerStops(a) \/ Unreachable(a) \/ TimesOut(a) \/ OwnerStarts(a)
      PROVE  record' = record
  BY <1>4 DEF SettleFails, WorkerFails, OrphanExits, WorkerPlays, Settle, OwnerStops,
     Unreachable,
     TimesOut, OwnerStarts, Gameplay, Play, Autosave, PreparationReady, PreparationInterrupted,
     PreparationEnds, WorkerCrashes, WorkerStops, durable, participantVars
<1>5. CASE \/ PrepareCancelled \/ PrepareDeadline \/ StartSession
           \/ SessionSucceeds \/ SessionFails \/ Commit
           \/ Recover \/ AllAnswered \/ Settled \/ CloseApp \/ AppRestarts
  BY <1>5 DEF PrepareCancelled, PrepareDeadline, StartSession, SessionSucceeds, SessionFails,
     Commit, Recover, AllAnswered, Settled, CloseApp, AppRestarts, durable, participantVars
<1>6. ASSUME NEW t \in Exchange,
             \/ Propose(t) \/ Execute(t) \/ ExecuteRefused(t)
             \/ RecoverOne(t) \/ SchedulerRetries(t)
             \/ Cancel(t) \/ SetAside(t) \/ OwnerRecovers(t)
      PROVE  record' = record
  BY <1>6 DEF Propose, Execute, ExecuteRefused, RecoverOne, SchedulerRetries, Cancel, SetAside,
     OwnerRecovers, participantVars
<1>7. CASE UNCHANGED vars
  BY <1>7 DEF vars, participantVars
<1>8. \A a \in Adventure : runner.ex \in Exchange \/ ~Asks(a)
  BY <1>0, AskCases
<1> QED
  BY <1>1, <1>2, <1>3, <1>4, <1>5, <1>6, <1>7, <1>8 DEF CableNext, RunnerStep, Asks

\* What an exchange that an adventure received stays received through.
LEMMA BarrierMoves ==
    ASSUME ParticipantTypeOK, [CableNext]_vars, CableTypeOK, NEW a \in Adventure
    PROVE  \/ barrier'[a] = barrier[a]
           \/ \E u \in Exchange : Committable(a, u) /\ barrier'[a] = u
<1>1. CASE AppRestarts
  BY <1>1 DEF AppRestarts, durable
<1>2. CASE [ParticipantNext]_participantVars
  <2>1. ASSUME NEW b \in Adventure, NEW t \in Exchange, Requests(b, t)
        PROVE  barrier' = barrier \/ (Committable(b, t) /\ Promote(b, t))
    <3>1. CASE ApplySucceeds(b, t) \/ ApplyInterrupted(b, t)
      BY <3>1 DEF ApplySucceeds, ApplyInterrupted
    <3>2. CASE ~(ApplySucceeds(b, t) \/ ApplyInterrupted(b, t))
      BY <2>1, <3>2 DEF Requests, PrepareBegins, PrepareWaits, PrepareSucceeds, PrepareRefused,
         StageSucceeds, StageRefused, ApplyRefused, ReleaseSucceeds, ReleaseRefused,
         AbortSucceeds, AbortRefused, AbortInterrupted, participantVars
    <3> QED
      BY <3>1, <3>2
  <2>2. ASSUME NEW b \in Adventure, Gameplay(b) \/ WorkerLife(b)
        PROVE  barrier' = barrier \/ \E t \in Exchange : Committable(b, t) /\ Promote(b, t)
    <3>1. CASE WorkerStarts(b)
      BY <3>1 DEF WorkerStarts, RecoverNothing, RecoverCommit, RecoverAbort, RecoverUndecided,
         Committable
    <3> QED
      BY <2>2, <3>1 DEF Gameplay, Play, Autosave, PreparationReady, PreparationInterrupted,
         PreparationEnds, WorkerLife, WorkerCrashes, WorkerStops, ParentLost, durable
  <2>3. ASSUME NEW b \in Adventure, NEW t \in Exchange, Committable(b, t), Promote(b, t)
        PROVE  barrier'[a] = barrier[a] \/ (Committable(a, t) /\ barrier'[a] = t)
    BY <2>3 DEF Promote, ParticipantTypeOK
  <2>4. \/ barrier' = barrier
        \/ \E b \in Adventure, t \in Exchange : Committable(b, t) /\ Promote(b, t)
    BY <1>2, <2>1, <2>2 DEF ParticipantNext, participantVars
  <2> QED
    BY <2>3, <2>4
<1> QED
  BY <1>1, <1>2, ParticipantSteps

\* What a step does to the records, seen from the decisions.
RecordStep ==
    \A a \in Adventure, t \in Exchange :
        /\ record[a][t] \in CommitPhases => record'[a][t] \in CommitPhases
        /\ record[a][t] \in Final => record'[a][t] = record[a][t]
        /\ record[a][t] = "staged" => record'[a][t] \in {"staged"} \cup CommitPhases \cup AbortPhases
        /\ a \in Participants[t] =>
              /\ record'[a][t] \in CommitPhases =>
                    record[a][t] \in CommitPhases \/ decision[t] = "COMMIT"
              /\ record'[a][t] \in AbortPhases =>
                    record[a][t] \in AbortPhases \/ decision[t] = "ABORT"
              /\ record'[a][t] = "released" =>
                    \/ record[a][t] = "released"
                    \/ \A b \in Participants[t] : t \in Received(b)

LEMMA RecordSteps ==
    ASSUME CableInv, [CableNext]_vars
    PROVE  RecordStep
<1>0. record \in [Adventure -> [Exchange -> RecordPhases]]
  BY DEF CableInv, CableTypeOK, ParticipantTypeOK
<1>1. CASE record' = record
  BY <1>1 DEF RecordStep
<1>2. ASSUME NEW a \in Adventure, NEW t \in Exchange, RecordMove(a, t)
      PROVE  RecordStep
  <2>1. \A b \in Adventure, u \in Exchange : b # a \/ u # t => record'[b][u] = record[b][u]
    BY <1>0, <1>2 DEF RecordMove, Written
  <2>2. \/ record[a][t] \in {"none", "preparing"} /\ record'[a][t] \in {"preparing", "prepared"}
        \/ record[a][t] = "prepared" /\ record'[a][t] = "staged"
        \/ /\ record[a][t] \in {"staged", "committed", "applied"}
           /\ record'[a][t] \in {"committed", "applied"}
           /\ decision[t] = "COMMIT"
        \/ /\ record[a][t] = "applied" /\ record'[a][t] = "released"
           /\ \A b \in Participants[t] : t \in Received(b)
        \/ /\ record[a][t] \in {"none", "preparing", "prepared", "staged", "aborting"}
           /\ record'[a][t] \in AbortPhases /\ decision[t] = "ABORT"
        \/ record[a][t] \in AbortPhases /\ record'[a][t] = "aborted"
    BY <1>0, <1>2 DEF RecordMove, Written, Committable, Authorised, Entitled, AbortPhases
  <2> QED
    BY <2>1, <2>2 DEF RecordStep, CommitPhases, AbortPhases, Final
<1> QED
  BY <1>1, <1>2, RecordMoves

LEMMA ReceivedStays ==
    ASSUME CableInv, [CableNext]_vars, NEW a \in Adventure, NEW t \in Exchange, t \in Received(a)
    PROVE  t \in Received(a)'
<1>0. CableTypeOK /\ ParticipantTypeOK /\ Reservation(a) /\ RecordStep
  BY RecordSteps DEF CableInv, CableTypeOK, ParticipantInv, AdventureInv
<1>1. record'[a][t] \in CommitPhases
  BY <1>0 DEF Received, RecordStep, CommitPhases
<1>2. CASE record[a][t] = "released"
  BY <1>0, <1>2 DEF RecordStep, Received, Final
<1>3. CASE record[a][t] # "released"
  <2>1. barrier[a] = t /\ t \in Unfinished(a)
    BY <1>3 DEF Received, Unfinished, Final
  <2>2. \A u \in Exchange : Committable(a, u) => u = t
    BY <1>0, <2>1 DEF Committable, Unfinished, Final, Reservation
  <2>3. barrier'[a] = t
    BY <1>0, <2>1, <2>2, BarrierMoves
  <2> QED
    BY <1>1, <2>3 DEF Received, CommitPhases
<1> QED
  BY <1>2, <1>3

------------------------------------------------------------------------------
(* Rows: who decides, and where the runner goes.                               *)

\* The threads and the row an exception leaves behind.
LEMMA RaiseCases ==
    ASSUME CableTypeOK, runner.at # "idle", Raise
    PROVE  /\ \/ runner' = Idle
              \/ RunAt("recover", runner.ex, "park")
           /\ \/ decision' = decision
              \/ /\ runner.at \in {"prepare", "session", "stage"}
                 /\ decision[runner.ex] = "none"
                 /\ decision' = [decision EXCEPT ![runner.ex] = "ABORT"]
           /\ \/ phase' = phase
              \/ phase' = [phase EXCEPT ![runner.ex] = "aborting"]
              \/ phase' = [phase EXCEPT ![runner.ex] = "recovering"]
BY DEF Raise, FailExchange, RecoveryFails, rows

\* A new decision: ABORT by an exception, by recovery or by the owner, COMMIT
\* by the runner with every result staged.
AbortDecided(t) ==
    /\ decision[t] \in {"none", "ABORT"}
    /\ decision' = [decision EXCEPT ![t] = "ABORT"]
    /\ record' = record \/ \E a \in Adventure : PrepareRefused(a, t)
    /\ runner.at = "stage" => runner'.at \in {"idle", "recover"}
CommitDecided(t) ==
    /\ decision[t] = "none"
    /\ decision' = [decision EXCEPT ![t] = "COMMIT"]
    /\ record' = record
    /\ \A a \in Participants[t] : record[a][t] = "staged"
    /\ runner'.at = "recover"
RowStep == \/ decision' = decision
           \/ \E t \in Exchange : AbortDecided(t) \/ CommitDecided(t)

LEMMA RaiseDecides ==
    ASSUME CableTypeOK, runner.at # "idle", Raise,
           runner.at \in {"prepare", "session", "stage"} =>
              record' = record \/ \E a \in Adventure : PrepareRefused(a, runner.ex)
    PROVE  RowStep
<1>1. runner.ex \in Exchange
  BY DEF CableTypeOK
<1>2. runner'.at \in {"idle", "recover"}
  BY RaiseCases DEF Idle, RunAt
<1> QED
  BY <1>1, <1>2, RaiseCases DEF RowStep, AbortDecided

LEMMA RowSteps ==
    ASSUME CableInv, [CableNext]_vars
    PROVE  RowStep
<1>0. CableTypeOK /\ RunnerFollows
  BY DEF CableInv
<1>1. ASSUME NEW a \in Adventure, Asks(a)
      PROVE  RowStep
  <2>1. runner.at # "idle"
    BY <1>0, <1>1, AskCases DEF Operations
  <2> QED
    BY <1>0, <1>1, <2>1, AskCases, RaiseDecides DEF RowStep, rows
<1>2. ASSUME NEW a \in Adventure, Unreachable(a) \/ TimesOut(a) \/ SettleFails(a)
      PROVE  RowStep
  <2>1. runner.at # "idle" /\ Raise
    BY <1>2 DEF Unreachable, TimesOut, SettleFails, Asking, Operations
  <2>2. runner.at = "settle" \/ UNCHANGED participantVars
    BY <1>2 DEF Unreachable, TimesOut, SettleFails, Asking
  <2> QED
    BY <1>0, <2>1, <2>2, RaiseDecides DEF participantVars
<1>3. CASE PrepareCancelled \/ PrepareDeadline \/ SessionFails
  <2>1. runner.at \in {"prepare", "session"} /\ Raise /\ UNCHANGED participantVars
    BY <1>3 DEF PrepareCancelled, PrepareDeadline, SessionFails, Raise
  <2> QED
    BY <1>0, <2>1, RaiseDecides DEF participantVars
<1>4. CASE Commit
  <2>1. /\ runner.ex \in Exchange /\ decision[runner.ex] = "none"
        /\ \A a \in Participants[runner.ex] : record[a][runner.ex] = "staged"
    BY <1>0, <1>4 DEF Commit, RunnerFollows, Obeyed, CableTypeOK
  <2>2. CommitDecided(runner.ex)
    BY <1>4, <2>1 DEF Commit, CommitDecided, RunAt, participantVars
  <2> QED
    BY <2>1, <2>2 DEF RowStep
<1>5. CASE Recover
  <2>1. runner.ex \in Exchange
    BY <1>0, <1>5 DEF Recover, CableTypeOK
  <2> QED
    BY <1>5, <2>1 DEF Recover, RowStep, AbortDecided, rows, participantVars
<1>6. ASSUME NEW t \in Exchange, Cancel(t) \/ SetAside(t)
      PROVE  AbortDecided(t)
  BY <1>0, <1>6 DEF Cancel, SetAside, AbortDecided, GuardFree, CableTypeOK, participantVars
<1>7. ASSUME NEW t \in Exchange,
             \/ Propose(t) \/ Execute(t) \/ ExecuteRefused(t)
             \/ RecoverOne(t) \/ SchedulerRetries(t) \/ OwnerRecovers(t)
      PROVE  decision' = decision
  BY <1>7 DEF Propose, Execute, ExecuteRefused, RecoverOne, SchedulerRetries, OwnerRecovers,
     rows
<1>8. CASE \/ StartSession \/ SessionSucceeds \/ AllAnswered \/ Settled \/ CloseApp
           \/ AppRestarts \/ UNCHANGED vars
  BY <1>8 DEF StartSession, SessionSucceeds, AllAnswered, Settled, CloseApp, AppRestarts, rows,
     vars, coordinatorVars, RowStep
<1>9. ASSUME NEW a \in Adventure,
             \/ StartForRecovery(a) \/ Settle(a) \/ LateRequest(a) \/ OwnerStops(a)
             \/ OwnerStarts(a) \/ SupervisorStarts(a) \/ WorkerFails(a) \/ OrphanExits(a)
             \/ WorkerPlays(a)
      PROVE  decision' = decision
  BY <1>9 DEF StartForRecovery, Settle, LateRequest, OwnerStops, OwnerStarts, SupervisorStarts,
     WorkerFails, OrphanExits, WorkerPlays, rows, coordinatorVars
<1> QED
  BY <1>1, <1>2, <1>3, <1>4, <1>5, <1>6, <1>7, <1>8, <1>9 DEF CableNext, RunnerStep, Asks,
     RowStep

\* A decision is final, and COMMIT is decided on staged results alone.
DecisionStays ==
    \A t \in Exchange :
        /\ decision[t] # "none" => decision'[t] = decision[t]
        /\ decision'[t] = "COMMIT" =>
              \/ decision[t] = "COMMIT"
              \/ record' = record /\ \A a \in Participants[t] : record[a][t] = "staged"

LEMMA DecisionSteps ==
    ASSUME CableInv, [CableNext]_vars
    PROVE  DecisionStays
<1>1. decision \in [Exchange -> {"none", "COMMIT", "ABORT"}] /\ RowStep
  BY RowSteps DEF CableInv, CableTypeOK
<1> QED
  BY <1>1 DEF RowStep, AbortDecided, CommitDecided, DecisionStays

\* Records and decisions move together.
LEMMA RowsStay ==
    ASSUME CableInv, [CableNext]_vars, NEW t \in Exchange
    PROVE  RecordsFollowRow(t)'
<1>0. /\ RecordStep /\ DecisionStays /\ RecordsFollowRow(t)
      /\ Participants[t] \subseteq Adventure
      /\ \A a \in Adventure : record[a][t] \in RecordPhases
  BY RecordSteps, DecisionSteps DEF CableInv, CableTypeOK, ParticipantTypeOK
<1>1. ASSUME NEW a \in Participants[t]
      PROVE  /\ record'[a][t] \in AbortPhases => decision'[t] = "ABORT"
             /\ record'[a][t] \in CommitPhases => decision'[t] = "COMMIT"
  BY <1>0, <1>1 DEF RecordStep, DecisionStays, RecordsFollowRow
<1>2. ASSUME NEW a \in Participants[t], decision'[t] = "COMMIT"
      PROVE  record'[a][t] \in {"staged"} \cup CommitPhases
  <2>1. record'[a][t] \notin AbortPhases
    BY <1>1, <1>2
  <2> QED
    BY <1>0, <1>2, <2>1 DEF RecordStep, DecisionStays, RecordsFollowRow
<1>3. ASSUME NEW a \in Participants[t], record'[a][t] = "released"
      PROVE  \A b \in Participants[t] : t \in Received(b)'
  <2>1. \A b \in Participants[t] : t \in Received(b)
    BY <1>0, <1>3 DEF RecordStep, RecordsFollowRow
  <2> QED
    BY <1>0, <2>1, ReceivedStays
<1> QED
  BY <1>1, <1>2, <1>3 DEF RecordsFollowRow

\* A row is only resolved when every participant has answered for it.
PhaseMove(t, p) ==
    /\ phase' = [phase EXCEPT ![t] = p]
    /\ p \in Terminal =>
          \A a \in Participants[t] :
              /\ p = "completed" => record'[a][t] = "released"
              /\ p = "aborted" => record'[a][t] = "aborted"
PhaseStep == phase' = phase \/ \E t \in Exchange, p \in Phases : PhaseMove(t, p)

LEMMA RaisePhases ==
    ASSUME CableTypeOK, runner.at # "idle", Raise
    PROVE  PhaseStep
<1>1. runner.ex \in Exchange /\ "aborting" \in Phases /\ "recovering" \in Phases
  BY DEF CableTypeOK, Phases
<1> QED
  BY <1>1, RaiseCases DEF PhaseStep, PhaseMove, Terminal

LEMMA PhaseSteps ==
    ASSUME CableInv, [CableNext]_vars
    PROVE  PhaseStep
<1>0. CableTypeOK /\ RunnerFollows
  BY DEF CableInv
<1>1. ASSUME NEW a \in Adventure, Asks(a)
      PROVE  PhaseStep
  <2>1. runner.at # "idle"
    BY <1>0, <1>1, AskCases DEF Operations
  <2> QED
    BY <1>0, <1>1, <2>1, AskCases, RaisePhases DEF PhaseStep, rows
<1>2. ASSUME NEW a \in Adventure, Unreachable(a) \/ TimesOut(a) \/ SettleFails(a)
      PROVE  PhaseStep
  BY <1>0, <1>2, RaisePhases DEF Unreachable, TimesOut, SettleFails, Asking, Operations
<1>3. CASE PrepareCancelled \/ PrepareDeadline \/ SessionFails
  <2>1. runner.at \in {"prepare", "session"} /\ Raise
    BY <1>3 DEF PrepareCancelled, PrepareDeadline, SessionFails, Raise
  <2> QED
    BY <1>0, <2>1, RaisePhases
<1>4. CASE AllAnswered
  <2>1. /\ runner.ex \in Exchange /\ record' = record
        /\ "aborted" \in Phases /\ "completed" \in Phases /\ "releasing" \in Phases
    BY <1>0, <1>4 DEF AllAnswered, CableTypeOK, participantVars, Phases, Terminal
  <2>2. \/ runner.at = "abort" /\ phase' = [phase EXCEPT ![runner.ex] = "aborted"]
        \/ runner.at = "apply" /\ phase' = [phase EXCEPT ![runner.ex] = "releasing"]
        \/ runner.at = "release" /\ phase' = [phase EXCEPT ![runner.ex] = "completed"]
    BY <1>4 DEF AllAnswered
  <2>3. \A a \in Participants[runner.ex] : Obeyed(runner.at, a, runner.ex)
    BY <1>0, <1>4, <2>2 DEF AllAnswered, RunnerFollows
  <2> QED
    BY <2>1, <2>2, <2>3 DEF PhaseStep, PhaseMove, Obeyed, Terminal
<1>5. CASE Commit \/ Recover \/ StartSession \/ SessionSucceeds
  <2>1. /\ runner.ex \in Exchange /\ "committed" \in Phases /\ "aborting" \in Phases
        /\ "connecting" \in Phases /\ "staging" \in Phases
    BY <1>0, <1>5 DEF Commit, Recover, StartSession, SessionSucceeds, CableTypeOK, Phases
  <2> QED
    BY <1>5, <2>1 DEF Commit, Recover, StartSession, SessionSucceeds, PhaseStep, PhaseMove,
       Terminal, rows
<1>6. ASSUME NEW t \in Exchange, Propose(t) \/ Cancel(t) \/ SetAside(t)
      PROVE  PhaseStep
  <2>1. "preparing" \in Phases /\ "aborting" \in Phases
    BY DEF Phases
  <2> QED
    BY <1>6, <2>1 DEF Propose, Cancel, SetAside, PhaseStep, PhaseMove, Terminal
<1>7. ASSUME NEW t \in Exchange,
             \/ Execute(t) \/ ExecuteRefused(t)
             \/ RecoverOne(t) \/ SchedulerRetries(t) \/ OwnerRecovers(t)
      PROVE  phase' = phase
  BY <1>7 DEF Execute, ExecuteRefused, RecoverOne, SchedulerRetries, OwnerRecovers, rows
<1>8. CASE Settled \/ CloseApp \/ AppRestarts \/ UNCHANGED vars
  BY <1>8 DEF Settled, CloseApp, AppRestarts, rows, vars, coordinatorVars, PhaseStep
<1>9. ASSUME NEW a \in Adventure,
             \/ StartForRecovery(a) \/ Settle(a) \/ LateRequest(a) \/ OwnerStops(a)
             \/ OwnerStarts(a) \/ SupervisorStarts(a) \/ WorkerFails(a) \/ OrphanExits(a)
             \/ WorkerPlays(a)
      PROVE  phase' = phase
  BY <1>9 DEF StartForRecovery, Settle, LateRequest, OwnerStops, OwnerStarts, SupervisorStarts,
     WorkerFails, OrphanExits, WorkerPlays, rows, coordinatorVars
<1> QED
  BY <1>1, <1>2, <1>3, <1>4, <1>5, <1>6, <1>7, <1>8, <1>9
  DEF CableNext, RunnerStep, Asks, PhaseStep

LEMMA ResolvedStays ==
    ASSUME CableInv, [CableNext]_vars, NEW t \in Exchange
    PROVE  ResolvedRow(t)'
<1>0. /\ phase \in [Exchange -> Phases] /\ Participants[t] \subseteq Adventure
      /\ ResolvedRow(t) /\ RecordStep /\ PhaseStep
  BY RecordSteps, PhaseSteps DEF CableInv, CableTypeOK
<1>1. CASE phase'[t] = phase[t]
  BY <1>0, <1>1 DEF ResolvedRow, RecordStep, Final
<1>2. CASE phase'[t] # phase[t]
  <2>1. PICK u \in Exchange, p \in Phases : PhaseMove(u, p)
    BY <1>0, <1>2 DEF PhaseStep
  <2>2. u = t /\ phase'[t] = p
    BY <1>0, <1>2, <2>1 DEF PhaseMove
  <2> QED
    BY <2>1, <2>2 DEF PhaseMove, ResolvedRow, Terminal
<1> QED
  BY <1>1, <1>2

------------------------------------------------------------------------------
(* Requests keep the authority they were sent with.                            *)

LEMMA EntitledStays ==
    ASSUME CableInv, [CableNext]_vars, NEW op, NEW t \in Exchange, Entitled(op, t)
    PROVE  Entitled(op, t)'
<1>1. DecisionStays /\ Participants[t] \subseteq Adventure
  BY DecisionSteps
<1> QED
  BY <1>1, ReceivedStays DEF DecisionStays, Entitled

LEMMA AuthorityStays ==
    ASSUME CableInv, [CableNext]_vars, NEW op, NEW t \in Exchange, NEW a, Authorised(op, a, t)
    PROVE  Authorised(op, a, t)'
<1>1. DecisionStays /\ Participants[t] \subseteq Adventure
  BY DecisionSteps
<1> QED
  BY <1>1, ReceivedStays DEF DecisionStays, Authorised, Entitled

\* Late requests end with their worker; new ones are the runner's own.
LateStep ==
    \A a \in Adventure :
        \/ late'[a] \subseteq late[a]
        \/ /\ runner.at \in Operations /\ a \in runner.left
           /\ late'[a] = late[a] \cup {<<runner.at, runner.ex>>}

LEMMA LateSteps ==
    ASSUME CableInv, [CableNext]_vars
    PROVE  LateStep /\ late' \in [Adventure -> SUBSET (Operations \X Exchange)]
<1>0. CableTypeOK
  BY DEF CableInv
<1>1. CASE late' = late
  BY <1>0, <1>1 DEF CableTypeOK, LateStep
<1>2. ASSUME NEW a \in Adventure, late' = [late EXCEPT ![a] = {}]
      PROVE  LateStep /\ late' \in [Adventure -> SUBSET (Operations \X Exchange)]
  BY <1>0, <1>2 DEF CableTypeOK, LateStep
<1>3. ASSUME NEW a \in Adventure, LateRequest(a)
      PROVE  LateStep /\ late' \in [Adventure -> SUBSET (Operations \X Exchange)]
  BY <1>0, <1>3 DEF CableTypeOK, LateStep, LateRequest
<1>4. ASSUME NEW a \in Adventure, TimesOut(a)
      PROVE  LateStep /\ late' \in [Adventure -> SUBSET (Operations \X Exchange)]
  <2>1. /\ runner.at \in Operations /\ a \in runner.left /\ runner.ex \in Exchange
        /\ late' = [late EXCEPT ![a] = @ \cup {<<runner.at, runner.ex>>}]
    BY <1>0, <1>4 DEF TimesOut, CableTypeOK, Operations
  <2> QED
    BY <1>0, <2>1 DEF CableTypeOK, LateStep
<1>5. ASSUME NEW a \in Adventure, Settle(a) \/ SettleFails(a) \/ OwnerStops(a) \/ WorkerFails(a)
                                  \/ OrphanExits(a)
      PROVE  late' = late \/ late' = [late EXCEPT ![a] = {}]
  BY <1>5 DEF Settle, SettleFails, OwnerStops, WorkerFails, OrphanExits
<1>6. ASSUME NEW a \in Adventure, Asks(a)
      PROVE  late' = late
  BY <1>0, <1>6, AskCases
<1>7. ASSUME NEW a \in Adventure,
             \/ StartForRecovery(a) \/ Unreachable(a) \/ OwnerStarts(a) \/ SupervisorStarts(a)
             \/ WorkerPlays(a)
      PROVE  late' = late
  BY <1>7 DEF StartForRecovery, Unreachable, OwnerStarts, SupervisorStarts, WorkerPlays,
     coordinatorVars
<1>8. ASSUME NEW t \in Exchange,
             \/ Propose(t) \/ Execute(t) \/ ExecuteRefused(t)
             \/ RecoverOne(t) \/ SchedulerRetries(t)
             \/ Cancel(t) \/ SetAside(t) \/ OwnerRecovers(t)
      PROVE  late' = late
  BY <1>8 DEF Propose, Execute, ExecuteRefused, RecoverOne, SchedulerRetries, Cancel, SetAside,
     OwnerRecovers
<1>9. ASSUME \/ PrepareCancelled \/ PrepareDeadline \/ StartSession
             \/ SessionSucceeds \/ SessionFails \/ Commit
             \/ Recover \/ AllAnswered \/ Settled \/ CloseApp \/ AppRestarts \/ UNCHANGED vars
      PROVE  late' = late
  BY <1>9 DEF PrepareCancelled, PrepareDeadline, StartSession, SessionSucceeds, SessionFails,
     Commit, Recover, AllAnswered, Settled, CloseApp, AppRestarts, vars, coordinatorVars
<1> QED
  BY <1>1, <1>2, <1>3, <1>4, <1>5, <1>6, <1>7, <1>8, <1>9 DEF CableNext, RunnerStep, Asks

LEMMA LateStays ==
    ASSUME CableInv, [CableNext]_vars
    PROVE  LateFollows'
<1>0. LateFollows /\ RunnerFollows /\ CableTypeOK /\ LateStep
  BY LateSteps DEF CableInv
<1> SUFFICES ASSUME NEW a \in Adventure, NEW request \in late'[a]
             PROVE  Authorised(request[1], a, request[2])'
  BY DEF LateFollows
<1>1. CASE request \in late[a]
  <2>1. request[2] \in Exchange /\ Authorised(request[1], a, request[2])
    BY <1>0, <1>1 DEF LateFollows, CableTypeOK
  <2> QED
    BY <2>1, AuthorityStays
<1>2. CASE request \notin late[a]
  <2>1. /\ runner.at \in Operations /\ a \in runner.left
        /\ request[1] = runner.at /\ request[2] = runner.ex
    BY <1>0, <1>2 DEF LateStep
  <2>2. runner.ex \in Exchange /\ Authorised(runner.at, a, runner.ex)
    BY <1>0, <2>1 DEF RunnerFollows, Authorised, CableTypeOK, Operations
  <2> QED
    BY <2>1, <2>2, AuthorityStays
<1> QED
  BY <1>1, <1>2

------------------------------------------------------------------------------
(* The runner: where it goes, and what it may rely on there.                   *)

Places == {"idle", "recover", "session", "settle"} \cup Operations
Errors == {"retry", "park", "raise"}

\* What must be known for the runner to go to a place.
MayGo(at, t) ==
    /\ at \in {"prepare", "session"} => decision[t] # "COMMIT" /\ decision' = decision
    /\ at = "stage" => decision[t] = "none" /\ decision' = decision
    /\ at = "abort" => decision'[t] = "ABORT"
    /\ at \in {"apply", "release"} => decision'[t] = "COMMIT"
    /\ at = "release" => \A a \in Participants[t] : t \in Received(a)
    /\ at # "recover" => record' = record

Goes == \E t \in Exchange, at \in Places \ {"idle"}, e \in Errors : RunAt(at, t, e) /\ MayGo(at, t)
Stays == runner' = runner /\ (runner.at = "stage" => decision' = decision)
Hears == \E a \in Adventure :
            a \in runner.left /\ Answered(a) /\ UNCHANGED decision /\ Obeyed(runner.at, a, runner.ex)'
RunnerMove == Stays \/ runner' = Idle \/ Goes \/ Hears

LEMMA RaiseMoves ==
    ASSUME CableTypeOK, runner.at # "idle", Raise
    PROVE  RunnerMove
<1>1. runner.ex \in Exchange /\ "recover" \in Places \ {"idle"} /\ "park" \in Errors
  BY DEF CableTypeOK, Places, Errors
<1>2. MayGo("recover", runner.ex)
  BY DEF MayGo
<1> QED
  BY <1>1, <1>2, RaiseCases DEF RunnerMove, Goes

LEMMA RunnerMoves ==
    ASSUME CableInv, [CableNext]_vars
    PROVE  RunnerMove
<1>0. CableTypeOK /\ RunnerFollows
  BY DEF CableInv
<1>p. /\ "recover" \in Places \ {"idle"} /\ "settle" \in Places \ {"idle"}
      /\ "session" \in Places \ {"idle"} /\ "prepare" \in Places \ {"idle"}
      /\ "stage" \in Places \ {"idle"} /\ "apply" \in Places \ {"idle"}
      /\ "release" \in Places \ {"idle"} /\ "abort" \in Places \ {"idle"}
      /\ "park" \in Errors /\ "retry" \in Errors /\ "raise" \in Errors
  BY DEF Places, Operations, Errors
<1>r. runner.at # "idle" => runner.ex \in Exchange /\ runner.onError \in Errors
  BY <1>0 DEF CableTypeOK, Runners, Errors
<1>1. ASSUME NEW a \in Adventure, Asks(a)
      PROVE  RunnerMove
  <2>1. runner.at # "idle"
    BY <1>0, <1>1, AskCases DEF Operations
  <2>2. CASE UNCHANGED <<rows, runner>>
    BY <2>2 DEF RunnerMove, Stays, rows
  <2>3. CASE Answered(a) /\ UNCHANGED rows /\ Obeyed(runner.at, a, runner.ex)'
    BY <1>0, <1>1, <2>3, AskCases DEF RunnerMove, Hears, rows
  <2> QED
    BY <1>0, <1>1, <2>1, <2>2, <2>3, AskCases, RaiseMoves
<1>2. ASSUME NEW a \in Adventure, Unreachable(a) \/ TimesOut(a) \/ SettleFails(a)
      PROVE  RunnerMove
  BY <1>0, <1>2, RaiseMoves DEF Unreachable, TimesOut, SettleFails, Asking, Operations
<1>3. CASE PrepareCancelled \/ PrepareDeadline \/ SessionFails
  <2>1. runner.at \in {"prepare", "session"} /\ Raise
    BY <1>3 DEF PrepareCancelled, PrepareDeadline, SessionFails, Raise
  <2> QED
    BY <1>0, <2>1, RaiseMoves
<1>4. CASE AllAnswered
  <2>1. /\ runner.ex \in Exchange /\ runner.onError \in Errors
        /\ record' = record /\ decision' = decision
    BY <1>r, <1>4 DEF AllAnswered, participantVars
  <2>2. \/ runner.at \in {"abort", "release"} /\ RunAt("settle", runner.ex, runner.onError)
        \/ runner.at = "apply" /\ RunAt("release", runner.ex, runner.onError)
    BY <1>4 DEF AllAnswered
  <2>3. MayGo("settle", runner.ex)
    BY <2>1 DEF MayGo
  <2>4. ASSUME runner.at = "apply"
        PROVE  MayGo("release", runner.ex)
    BY <1>0, <1>4, <2>1, <2>4 DEF AllAnswered, RunnerFollows, Obeyed, Authorised, Entitled,
       MayGo
  <2> QED
    BY <1>p, <2>1, <2>2, <2>3, <2>4 DEF RunnerMove, Goes
<1>5. CASE Commit
  BY <1>p, <1>r, <1>5 DEF Commit, RunnerMove, Goes, MayGo
<1>6. CASE Recover
  <2>1. runner.ex \in Exchange /\ runner.onError \in Errors /\ record' = record
    BY <1>r, <1>6 DEF Recover, participantVars
  <2>2. decision[runner.ex] = "none" /\ decision' = [decision EXCEPT ![runner.ex] = "ABORT"]
           => decision'[runner.ex] = "ABORT"
    BY <1>0, <2>1 DEF CableTypeOK
  <2>3. \/ runner' = Idle
        \/ decision'[runner.ex] = "ABORT" /\ RunAt("abort", runner.ex, runner.onError)
        \/ decision'[runner.ex] = "COMMIT" /\ RunAt("apply", runner.ex, runner.onError)
    BY <1>6, <2>2 DEF Recover, rows
  <2> QED
    BY <1>p, <2>1, <2>3 DEF RunnerMove, Goes, MayGo
<1>7. CASE StartSession \/ SessionSucceeds
  <2>1. /\ runner.ex \in Exchange /\ decision[runner.ex] \in {"none", "COMMIT", "ABORT"}
        /\ decision[runner.ex] # "COMMIT" /\ decision' = decision /\ record' = record
    BY <1>0, <1>r, <1>7 DEF StartSession, SessionSucceeds, RunnerFollows, CableTypeOK,
       participantVars
  <2> QED
    BY <1>p, <1>7, <2>1 DEF StartSession, SessionSucceeds, RunnerMove, Goes, MayGo
<1>8. ASSUME NEW t \in Exchange, Execute(t) \/ RecoverOne(t) \/ SchedulerRetries(t)
      PROVE  RunnerMove
  <2>1. record' = record /\ decision' = decision /\ runner.at = "idle"
    BY <1>8 DEF Execute, RecoverOne, SchedulerRetries, participantVars, rows
  <2>2. \/ runner' = runner \/ RunAt("recover", t, "raise") \/ RunAt("recover", t, "park")
        \/ decision[t] = "none" /\ RunAt("prepare", t, "park")
    BY <1>8 DEF Execute, RecoverOne, SchedulerRetries
  <2> QED
    BY <1>p, <2>1, <2>2 DEF RunnerMove, Goes, Stays, MayGo
<1>9. ASSUME NEW t \in Exchange,
             \/ Propose(t) \/ ExecuteRefused(t) \/ Cancel(t) \/ SetAside(t) \/ OwnerRecovers(t)
      PROVE  RunnerMove
  BY <1>9 DEF Propose, ExecuteRefused, Cancel, SetAside, OwnerRecovers, GuardFree, rows,
     threads,
     RunnerMove, Stays
<1>10. CASE Settled \/ CloseApp \/ AppRestarts \/ UNCHANGED vars
  BY <1>10 DEF Settled, CloseApp, AppRestarts, rows, threads, vars, coordinatorVars, RunnerMove,
     Stays
<1>11. ASSUME NEW a \in Adventure, Settle(a)
       PROVE  RunnerMove
  <2>1. a \in runner.left /\ Answered(a) /\ decision' = decision /\ runner.at = "settle"
    BY <1>11 DEF Settle, Asking, rows
  <2>2. runner'.at = "settle"
    BY <1>0, <2>1 DEF Answered, CableTypeOK, Runners
  <2>3. Obeyed(runner.at, a, runner.ex)'
    BY <2>2 DEF Obeyed
  <2> QED
    BY <2>1, <2>3 DEF RunnerMove, Hears
<1>12. ASSUME NEW a \in Adventure,
              \/ StartForRecovery(a) \/ LateRequest(a) \/ OwnerStops(a)
              \/ OwnerStarts(a) \/ SupervisorStarts(a) \/ WorkerFails(a) \/ OrphanExits(a)
              \/ WorkerPlays(a)
       PROVE  RunnerMove
  BY <1>12 DEF StartForRecovery, LateRequest, OwnerStops, OwnerStarts, SupervisorStarts,
     WorkerFails, OrphanExits, WorkerPlays, rows, threads, coordinatorVars, RunnerMove, Stays
<1> QED
  BY <1>1, <1>2, <1>3, <1>4, <1>5, <1>6, <1>7, <1>8, <1>9, <1>10, <1>11, <1>12
  DEF CableNext, RunnerStep, Asks

\* Whatever the runner relied on it still can.
LEMMA RunnerStays ==
    ASSUME CableInv, [CableNext]_vars
    PROVE  RunnerFollows'
<1>0. /\ RunnerFollows /\ CableTypeOK /\ RecordStep /\ DecisionStays /\ RowStep
      /\ RunnerMove /\ runner \in Runners
  BY RecordSteps, DecisionSteps, RowSteps, RunnerMoves DEF CableInv, CableTypeOK
<1>1. CASE runner'.at = "idle"
  BY <1>1 DEF RunnerFollows
<1>2. ASSUME runner.at # "idle", runner'.at = runner.at, runner'.ex = runner.ex,
             runner.at = "stage" => decision' = decision,
             runner'.left \subseteq runner.left,
             \A a \in runner.left \ runner'.left : Obeyed(runner.at, a, runner.ex)'
      PROVE  RunnerFollows'
  <2> DEFINE t == runner.ex
  <2>1. t \in Exchange /\ Participants[t] \subseteq Adventure
    BY <1>0, <1>2 DEF CableTypeOK
  <2>2. Entitled(runner.at, t)'
    BY <1>0, <1>2, <2>1, EntitledStays DEF RunnerFollows
  <2>3. ASSUME NEW a \in Participants[t], a \notin runner.left
        PROVE  Obeyed(runner.at, a, t)'
    <3>1. Obeyed(runner.at, a, t) /\ a \in Adventure
      BY <1>0, <1>2, <2>1, <2>3 DEF RunnerFollows
    <3>2. runner.at = "apply" => t \in Received(a)'
      BY <2>1, <3>1, ReceivedStays DEF Obeyed
    <3>3. runner.at = "stage" => record'[a][t] = "staged"
      BY <1>0, <1>2, <2>1, <2>3, <3>1 DEF Obeyed, RecordStep, RunnerFollows, CommitPhases,
         AbortPhases
    <3>4. runner.at \in {"release", "abort"} => record'[a][t] = record[a][t]
      BY <1>0, <2>1, <3>1 DEF Obeyed, RecordStep, Final
    <3> QED
      BY <1>2, <3>1, <3>2, <3>3, <3>4 DEF Obeyed
  <2>4. /\ runner.at \in {"prepare", "session"} => decision'[t] # "COMMIT"
        /\ runner.at = "stage" => decision'[t] = "none"
    <3>1. runner.at \in {"prepare", "session"} => decision[t] # "COMMIT" /\ runner'.at # "recover"
      BY <1>0, <1>2 DEF RunnerFollows
    <3>2. decision'[t] = "COMMIT" => decision[t] = "COMMIT" \/ runner'.at = "recover"
      BY <1>0, <2>1 DEF RowStep, AbortDecided, CommitDecided, CableTypeOK
    <3> QED
      BY <1>0, <1>2, <3>1, <3>2 DEF RunnerFollows
  <2> QED
    BY <1>0, <1>2, <2>1, <2>2, <2>3, <2>4 DEF RunnerFollows
<1>3. ASSUME NEW t \in Exchange, NEW at \in Places \ {"idle"}, NEW e \in Errors,
             RunAt(at, t, e), MayGo(at, t)
      PROVE  RunnerFollows'
  <2>1. runner'.at = at /\ runner'.ex = t /\ Participants[t] \subseteq Adventure
    BY <1>3 DEF RunAt
  <2>2. runner'.left = IF at = "recover" THEN {} ELSE Participants[t]
    BY <1>3 DEF RunAt
  <2>3. Entitled(at, t)'
    BY <1>3, <2>1, ReceivedStays DEF MayGo, Entitled
  <2> QED
    BY <1>3, <2>1, <2>2, <2>3 DEF RunnerFollows, MayGo, Obeyed
<1>4. CASE Stays
  BY <1>1, <1>2, <1>4 DEF Stays
<1>5. CASE runner' = Idle
  BY <1>1, <1>5 DEF Idle
<1>6. CASE Goes
  BY <1>3, <1>6 DEF Goes
<1>7. ASSUME NEW a \in Adventure, a \in runner.left, Answered(a), UNCHANGED decision,
             Obeyed(runner.at, a, runner.ex)'
      PROVE  RunnerFollows'
  <2>1. /\ runner'.at = runner.at /\ runner'.ex = runner.ex
        /\ runner'.left = runner.left \ {a}
    BY <1>0, <1>7 DEF Answered, Runners
  <2>2. \A b \in runner.left \ runner'.left : b = a
    BY <2>1
  <2> QED
    BY <1>1, <1>2, <1>7, <2>1, <2>2
<1> QED
  BY <1>0, <1>4, <1>5, <1>6, <1>7 DEF RunnerMove, Hears

------------------------------------------------------------------------------
(* Types, and the invariant as a whole.                                        *)

LEMMA RunnerTyped ==
    ASSUME CableInv, [CableNext]_vars
    PROVE  runner' \in Runners /\ (runner'.at # "idle" => runner'.ex \in Exchange)
<1>0. CableTypeOK /\ runner \in Runners /\ RunnerMove
  BY RunnerMoves DEF CableInv, CableTypeOK
<1>1. CASE Stays
  BY <1>0, <1>1 DEF Stays, CableTypeOK
<1>2. CASE runner' = Idle
  BY <1>2 DEF Idle, Runners
<1>3. ASSUME NEW t \in Exchange, NEW at \in Places \ {"idle"}, NEW e \in Errors, RunAt(at, t, e)
      PROVE  runner' \in Runners /\ runner'.ex \in Exchange
  <2>1. Participants[t] \in SUBSET Adventure /\ {} \in SUBSET Adventure
    OBVIOUS
  <2>2. runner' = [at |-> at, ex |-> t, onError |-> e,
                   left |-> IF at = "recover" THEN {} ELSE Participants[t]]
    BY <1>3 DEF RunAt
  <2> QED
    BY <2>1, <2>2 DEF Runners, Places, Errors
<1>4. ASSUME NEW a \in Adventure, Answered(a), a \in runner.left
      PROVE  runner' \in Runners /\ runner'.ex = runner.ex /\ runner'.at = runner.at
  BY <1>0, <1>4 DEF Answered, Runners
<1> QED
  BY <1>0, <1>1, <1>2, <1>3, <1>4 DEF RunnerMove, Goes, Hears, CableTypeOK

\* The variables that only count and list.
ListsTyped == /\ desired \in [Adventure -> {"running", "stopped"}]
              /\ toExecute \subseteq Exchange /\ waiting \subseteq Exchange
              /\ closed \in BOOLEAN /\ faults \in 0 .. MaxFaults

LEMMA ListsStayTyped ==
    ASSUME CableTypeOK, [CableNext]_vars
    PROVE  ListsTyped'
<1>0. /\ ListsTyped
      /\ Fault => faults' \in 0 .. MaxFaults
  BY DEF CableTypeOK, ListsTyped, Fault
<1>1. ASSUME NEW a \in Adventure, Asks(a)
      PROVE  ListsTyped'
  BY <1>0, <1>1, AskCases DEF ListsTyped
<1>2. ASSUME NEW a \in Adventure,
             \/ StartForRecovery(a) \/ Unreachable(a) \/ Settle(a) \/ TimesOut(a)
             \/ LateRequest(a) \/ SettleFails(a) \/ SupervisorStarts(a) \/ WorkerFails(a)
             \/ OrphanExits(a) \/ WorkerPlays(a)
      PROVE  ListsTyped'
  <2>1. UNCHANGED <<desired, toExecute, waiting, closed>>
    BY <1>2 DEF StartForRecovery, Unreachable, Settle, TimesOut, LateRequest, SettleFails,
       SupervisorStarts, WorkerFails, OrphanExits, WorkerPlays, coordinatorVars, threads
  <2>2. faults' = faults \/ Fault
    BY <1>2 DEF StartForRecovery, Unreachable, Settle, TimesOut, LateRequest, SettleFails,
       SupervisorStarts, WorkerFails, OrphanExits, WorkerPlays, coordinatorVars
  <2> QED
    BY <1>0, <2>1, <2>2 DEF ListsTyped
<1>3. ASSUME NEW a \in Adventure, OwnerStops(a) \/ OwnerStarts(a)
      PROVE  ListsTyped'
  BY <1>0, <1>3 DEF OwnerStops, OwnerStarts, ListsTyped, threads
<1>4. CASE \/ PrepareCancelled \/ PrepareDeadline \/ StartSession
           \/ SessionSucceeds \/ SessionFails \/ Commit
           \/ Recover \/ AllAnswered \/ Settled \/ UNCHANGED vars
  <2>1. UNCHANGED <<desired, toExecute, waiting, closed, faults>>
    BY <1>4 DEF PrepareCancelled, PrepareDeadline, StartSession, SessionSucceeds, SessionFails,
       Commit, Recover, AllAnswered, Settled, vars, coordinatorVars, threads
  <2> QED
    BY <1>0, <2>1 DEF ListsTyped
<1>5. ASSUME NEW t \in Exchange,
             \/ Propose(t) \/ Execute(t) \/ ExecuteRefused(t)
             \/ RecoverOne(t) \/ SchedulerRetries(t)
             \/ Cancel(t) \/ SetAside(t) \/ OwnerRecovers(t)
      PROVE  ListsTyped'
  BY <1>0, <1>5 DEF Propose, Execute, ExecuteRefused, RecoverOne, SchedulerRetries, Cancel,
     SetAside, OwnerRecovers, ListsTyped, threads
<1>6. CASE CloseApp \/ AppRestarts
  BY <1>0, <1>6 DEF CloseApp, AppRestarts, ListsTyped, threads, Unresolved
<1> QED
  BY <1>1, <1>2, <1>3, <1>4, <1>5, <1>6 DEF CableNext, RunnerStep, Asks

LEMMA CableTyped ==
    ASSUME CableInv, [CableNext]_vars
    PROVE  CableTypeOK'
<1>0. CableTypeOK
  BY DEF CableInv
<1>1. ParticipantTypeOK'
  BY <1>0, ParticipantsKeepInv DEF CableInv, ParticipantInv
<1>2. decision' \in [Exchange -> {"none", "COMMIT", "ABORT"}]
  BY <1>0, RowSteps DEF CableTypeOK, RowStep, AbortDecided, CommitDecided
<1>3. phase' \in [Exchange -> Phases]
  BY <1>0, PhaseSteps DEF CableTypeOK, PhaseStep, PhaseMove
<1> QED
  BY <1>0, <1>1, <1>2, <1>3, RunnerTyped, LateSteps, ListsStayTyped DEF CableTypeOK, ListsTyped

LEMMA CableInvInit == CableInit => CableInv
<1> SUFFICES ASSUME CableInit
             PROVE  CableInv
  OBVIOUS
<1>1. ParticipantInv
  BY InvInit DEF CableInit
<1>2. CableTypeOK
  <2>1. Idle \in Runners /\ Idle.at = "idle"
    BY DEF Idle, Runners
  <2>2. "new" \in Phases
    BY DEF Phases
  <2>3. /\ decision \in [Exchange -> {"none", "COMMIT", "ABORT"}]
        /\ phase \in [Exchange -> Phases]
        /\ desired \in [Adventure -> {"running", "stopped"}]
    BY <2>2 DEF CableInit
  <2>4. late \in [Adventure -> SUBSET (Operations \X Exchange)] /\ faults \in 0 .. MaxFaults
    BY DEF CableInit
  <2> QED
    BY <1>1, <2>1, <2>3, <2>4 DEF CableInit, CableTypeOK, ParticipantInv
<1>3. \A a \in Adventure, t \in Exchange : record[a][t] = "none"
  BY DEF CableInit, ParticipantInit
<1>4. ASSUME NEW t \in Exchange
      PROVE  RecordsFollowRow(t) /\ ResolvedRow(t)
  <2>1. Participants[t] \subseteq Adventure /\ decision[t] = "none" /\ phase[t] = "new"
    BY DEF CableInit
  <2> QED
    BY <1>3, <2>1 DEF RecordsFollowRow, ResolvedRow, AbortPhases, CommitPhases
<1>5. LateFollows /\ RunnerFollows
  BY DEF CableInit, LateFollows, RunnerFollows, Idle
<1> QED
  BY <1>1, <1>2, <1>4, <1>5 DEF CableInv

LEMMA CableInvStep == CableInv /\ [CableNext]_vars => CableInv'
<1> SUFFICES ASSUME CableInv, [CableNext]_vars
             PROVE  CableInv'
  OBVIOUS
<1>1. CableTypeOK' /\ ParticipantInv'
  BY CableTyped, ParticipantsKeepInv DEF CableInv
<1>2. \A t \in Exchange : RecordsFollowRow(t)' /\ ResolvedRow(t)'
  BY RowsStay, ResolvedStays
<1> QED
  BY <1>1, <1>2, LateStays, RunnerStays DEF CableInv

------------------------------------------------------------------------------
(* What follows for every behaviour of the composition. *)

\* Coordinator, participants and late requests keep the invariant through any
\* cancel, crash, lost reply, restart and recovery.
THEOREM CableAlwaysInv == CableSpec => []CableInv
BY CableInvInit, CableInvStep, PTL DEF CableSpec

LEMMA CableInvImplies ==
    CableInv => /\ CableTypeOK /\ Agreement /\ CommitNeedsEveryResult
                /\ PlayResumesAfterBothReceived /\ ResolvedLeavesNothing
                /\ RestartMatchesRecords
<1> SUFFICES ASSUME CableInv
             PROVE  /\ CableTypeOK /\ Agreement /\ CommitNeedsEveryResult
                    /\ PlayResumesAfterBothReceived /\ ResolvedLeavesNothing
                    /\ RestartMatchesRecords
  OBVIOUS
<1>1. /\ CableTypeOK /\ ParticipantInv
      /\ \A t \in Exchange : RecordsFollowRow(t) /\ ResolvedRow(t)
      /\ HoldCoversExchange /\ HoldHasOwner /\ RestartMatchesRecords
  BY InvImplies DEF CableInv
<1>2. \A t \in Exchange : Participants[t] \subseteq Adventure
  OBVIOUS
<1>3. Agreement
  BY <1>1 DEF Agreement, RecordsFollowRow
<1>4. CommitNeedsEveryResult
  BY <1>1 DEF CommitNeedsEveryResult, RecordsFollowRow
<1>5. PlayResumesAfterBothReceived
  <2> SUFFICES ASSUME NEW t \in Exchange, NEW a \in Participants[t], NEW b \in Participants[t],
                      t \in Received(a), ~HeldFor(a, t)
               PROVE  t \in Received(b)
    BY DEF PlayResumesAfterBothReceived
  <2>1. record[a][t] = "released"
    BY <1>1, <1>2 DEF HoldCoversExchange, Received
  <2> QED
    BY <1>1, <2>1 DEF RecordsFollowRow
<1>6. ResolvedLeavesNothing
  <2> SUFFICES ASSUME NEW t \in Exchange, NEW a \in Participants[t]
               PROVE  /\ phase[t] = "completed" => record[a][t] = "released"
                      /\ phase[t] = "aborted" => record[a][t] = "aborted"
                      /\ phase[t] \in Terminal => ~HeldFor(a, t) /\ preparation[a].id # t
    BY DEF ResolvedLeavesNothing
  <2>1. phase[t] \in Terminal => t \notin Unfinished(a)
    BY <1>1 DEF ResolvedRow, Terminal, Unfinished, Final
  <2>2. HeldFor(a, t) => t \in Unfinished(a)
    BY <1>1, <1>2, ExchangeIds DEF HoldHasOwner, HeldFor
  <2>3. preparation[a].id = t => t \in Unfinished(a)
    <3>1. Reservation(a)
      BY <1>1, <1>2 DEF ParticipantInv, AdventureInv
    <3> QED
      BY <3>1, ExchangeIds DEF Reservation
  <2> QED
    BY <1>1, <2>1, <2>2, <2>3 DEF ResolvedRow
<1> QED
  BY <1>1, <1>3, <1>4, <1>5, <1>6

\* No adventure keeps an exchange that the other one undid.
THEOREM AllOrNothing == CableSpec => []Agreement
BY CableAlwaysInv, CableInvImplies, PTL

\* A commit is decided, and known to any adventure, only while every participant
\* still has a result to publish.
THEOREM CommitIsBacked == CableSpec => []CommitNeedsEveryResult
BY CableAlwaysInv, CableInvImplies, PTL

\* The play of one adventure never goes on with a Pokemon the other still has.
THEOREM NothingPlaysTwice == CableSpec => []PlayResumesAfterBothReceived
BY CableAlwaysInv, CableInvImplies, PTL

\* A resolved row is over in both adventures, for good.
THEOREM ResolvedIsOver == CableSpec => []ResolvedLeavesNothing
BY CableAlwaysInv, CableInvImplies, PTL

\* What a participant promises to any caller it keeps under this coordinator,
\* through the restarts of the whole application.
THEOREM ComposedRestartIsExact == CableSpec => []RestartMatchesRecords
BY CableAlwaysInv, CableInvImplies, PTL

------------------------------------------------------------------------------
(* The participants' promises, kept under this coordinator. *)

\* The end of the application moves no record and no save.
LEMMA DecisionsCarry ==
    ASSUME CableInv, [CableNext]_vars
    PROVE  DecisionKept
<1>1. CASE AppRestarts
  BY <1>1 DEF AppRestarts, durable, DecisionKept
<1>2. CASE ~AppRestarts
  BY <1>2, ParticipantSteps, DecisionStep DEF CableInv
<1> QED
  BY <1>1, <1>2

LEMMA SavedPlayCarries ==
    ASSUME CableInv, [CableNext]_vars, NEW a \in Adventure
    PROVE  SavedPlay(a)
<1>1. ParticipantTypeOK /\ ParticipantInv
  BY DEF CableInv, ParticipantInv
<1>2. CASE AppRestarts
  <2>1. RestartPoint(a).progress \in Nat
    BY <1>1, AdventureTyped, StateFields
  <2> QED
    BY <1>2, <2>1 DEF AppRestarts, durable, SavedPlay, RestartPoint
<1>3. CASE ~AppRestarts
  BY <1>1, <1>3, ParticipantSteps, SavedPlaySteps DEF CableInv
<1> QED
  BY <1>2, <1>3

\* Under the coordinator too, one adventure is reserved for one exchange, held for
\* it until its end, and plays with exactly what it received.
THEOREM ParticipantsKeepPromises ==
    CableSpec => [](/\ OneReservation /\ HoldCoversExchange /\ HoldHasOwner
                    /\ PlayMatchesRecords /\ SourceIsRestartPoint)
<1>1. CableInv => /\ OneReservation /\ HoldCoversExchange /\ HoldHasOwner
                  /\ PlayMatchesRecords /\ SourceIsRestartPoint
  BY InvImplies DEF CableInv
<1> QED
  BY <1>1, CableAlwaysInv, PTL

\* No recovery, late request or restart of the application undoes a commit of an
\* adventure's record or revives an aborted one.
THEOREM ComposedDecisionIsFinal == CableSpec => RecordDecisionIsFinal
<1>1. CableInv /\ [CableNext]_vars => [DecisionKept]_participantVars
  BY DecisionsCarry
<1> QED
  BY <1>1, CableAlwaysInv, PTL DEF CableSpec, RecordDecisionIsFinal, DecisionKept

\* Nor does any of them send an adventure back behind the play it has saved.
THEOREM ComposedPlayIsKept == CableSpec => SavedPlayIsKept
<1>1. CableInv /\ [CableNext]_vars => \A a \in Adventure : SavedPlay(a)
  BY SavedPlayCarries
<1>2. CableInv /\ [CableNext]_vars
         => [\A a \in Adventure : RestartPoint(a)'.progress >= RestartPoint(a).progress]_participantVars
  BY <1>1 DEF SavedPlay
<1> QED
  BY <1>2, CableAlwaysInv, PTL DEF CableSpec, SavedPlayIsKept

\* The row's decision is taken once, and a commit only on staged results: the owner's
\* cancel, the executor and every recovery write it under that condition.
RowDecisionIsFinal ==
    [][\A t \in Exchange :
          /\ decision[t] # "none" => decision'[t] = decision[t]
          /\ decision'[t] = "COMMIT" /\ decision[t] # "COMMIT" =>
                \A a \in Participants[t] : record[a][t] = "staged"]_vars

\* Whatever thread, crash or late answer comes in between, a decided row keeps its
\* decision, and COMMIT is written only over staged records.
THEOREM RowDecisionStays == CableSpec => RowDecisionIsFinal
<1>1. CableInv /\ [CableNext]_vars
         => [\A t \in Exchange :
                /\ decision[t] # "none" => decision'[t] = decision[t]
                /\ decision'[t] = "COMMIT" /\ decision[t] # "COMMIT" =>
                      \A a \in Participants[t] : record[a][t] = "staged"]_vars
  BY DecisionSteps DEF DecisionStays
<1> QED
  BY <1>1, CableAlwaysInv, PTL DEF CableSpec, RowDecisionIsFinal

\* What a row says of a finished exchange is what the owners find: in the save that a
\* restart resumes from, and in the game that plays.
ResolvedIsWhatOwnersHave ==
    \A t \in Exchange : \A a \in Participants[t] :
        /\ phase[t] = "completed" => t \in RestartPoint(a).got
        /\ phase[t] = "aborted" => t \notin RestartPoint(a).got
        /\ phase[t] \in Terminal /\ Running(a) /\ hold[a] = NoHold =>
              (t \in game[a].got <=> phase[t] = "completed")

\* A completed exchange is in the save and in the game of both adventures, an aborted
\* one in neither.
THEOREM OwnersHaveTheOutcome == CableSpec => []ResolvedIsWhatOwnersHave
<1>1. ASSUME CableInv, NEW t \in Exchange, NEW a \in Participants[t]
      PROVE  /\ phase[t] = "completed" => t \in RestartPoint(a).got
             /\ phase[t] = "aborted" => t \notin RestartPoint(a).got
             /\ phase[t] \in Terminal /\ Running(a) /\ hold[a] = NoHold =>
                   (t \in game[a].got <=> phase[t] = "completed")
  <2>1. /\ a \in Adventure /\ ResolvedLeavesNothing /\ RestartMatchesRecords /\ PlayMatchesRecords
    BY <1>1, CableInvImplies, InvImplies DEF CableInv
  <2>2. /\ phase[t] = "completed" => t \in Received(a)
        /\ phase[t] = "aborted" => t \notin Received(a)
    BY <1>1, <2>1 DEF ResolvedLeavesNothing, Received
  <2>3. /\ RestartPoint(a).got = Received(a)
        /\ Running(a) /\ hold[a] = NoHold => game[a].got = Received(a)
    BY <2>1 DEF RestartMatchesRecords, PlayMatchesRecords
  <2> QED
    BY <2>2, <2>3 DEF Terminal
<1>2. CableInv => ResolvedIsWhatOwnersHave
  BY <1>1 DEF ResolvedIsWhatOwnersHave
<1> QED
  BY <1>2, CableAlwaysInv, PTL

\* No restart point loses a Pokemon that it had received.
ReceivedIsKept == [][\A a \in Adventure : RestartPoint(a).got \subseteq RestartPoint(a)'.got]_vars

\* What an adventure has received stays in the save it would restart from, through
\* later exchanges, aborts, crashes and the end of the application.
THEOREM ReceivedAlwaysStays == CableSpec => ReceivedIsKept
<1>1. ASSUME CableInv, [CableNext]_vars, NEW a \in Adventure
      PROVE  RestartPoint(a).got \subseteq RestartPoint(a)'.got
  <2>1. CableInv'
    BY <1>1, CableInvStep
  <2>2. RestartMatchesRecords /\ RestartMatchesRecords'
    BY <1>1, <2>1, CableInvImplies, PTL
  <2>3. RestartPoint(a).got = Received(a) /\ RestartPoint(a)'.got = Received(a)'
    BY <2>2 DEF RestartMatchesRecords
  <2>4. \A t \in Received(a) : t \in Exchange
    BY DEF Received
  <2> QED
    BY <1>1, <2>3, <2>4, ReceivedStays
<1>2. CableInv /\ [CableNext]_vars
         => [\A a \in Adventure : RestartPoint(a).got \subseteq RestartPoint(a)'.got]_vars
  BY <1>1
<1> QED
  BY <1>2, CableAlwaysInv, PTL DEF CableSpec, ReceivedIsKept

------------------------------------------------------------------------------
(* The composition implements the atomic exchange. *)

\* The refinement mapping of Atomic, by name.
OutcomeMap == [t \in Exchange |-> IF decision[t] = "none" THEN "open" ELSE decision[t]]
SideMap == [a \in Adventure |-> [t \in Exchange |-> SideOf(record[a][t])]]

LEMMA SidesDiffer ==
    /\ SideOf("none") = "own" /\ SideOf("preparing") = "own" /\ SideOf("prepared") = "own"
    /\ SideOf("staged") = "ready"
    /\ SideOf("committed") = "swapped" /\ SideOf("applied") = "swapped"
    /\ SideOf("released") = "swapped"
    /\ SideOf("aborting") = "kept" /\ SideOf("aborted") = "kept"
BY DEF SideOf, CommitPhases, AbortPhases

LEMMA AtomicInitMaps == CableInit => Atomic!AtomicInit
<1> SUFFICES ASSUME CableInit
             PROVE  Atomic!AtomicInit
  OBVIOUS
<1>1. OutcomeMap = [t \in Exchange |-> "open"]
  BY DEF CableInit, OutcomeMap
<1>2. SideMap = [a \in Adventure |-> [t \in Exchange |-> "own"]]
  <2>1. \A a \in Adventure, t \in Exchange : SideOf(record[a][t]) = "own"
    BY SidesDiffer DEF CableInit, ParticipantInit
  <2> QED
    BY <2>1 DEF SideMap
<1> QED
  BY <1>1, <1>2 DEF Atomic!AtomicInit, OutcomeMap, SideMap

\* One written record is one written side.
LEMMA SideWritten ==
    ASSUME CableTypeOK, NEW a \in Adventure, NEW t \in Exchange, NEW p, Written(a, t, p)
    PROVE  SideMap' = [SideMap EXCEPT ![a][t] = SideOf(p)]
<1>1. /\ record \in [Adventure -> [Exchange -> RecordPhases]]
      /\ \A b \in Adventure, u \in Exchange :
            record'[b][u] = IF b = a /\ u = t THEN p ELSE record[b][u]
  BY DEF CableTypeOK, ParticipantTypeOK, Written
<1>2. \A b \in Adventure, u \in Exchange :
         SideOf(record'[b][u]) = IF b = a /\ u = t THEN SideOf(p) ELSE SideOf(record[b][u])
  BY <1>1
<1>3. SideMap' = [b \in Adventure |-> [u \in Exchange |-> SideOf(record'[b][u])]]
  BY DEF SideMap
<1>4. SideMap = [b \in Adventure |-> [u \in Exchange |-> SideOf(record[b][u])]]
  BY DEF SideMap
<1> QED
  BY <1>2, <1>3, <1>4

LEMMA SideKept ==
    ASSUME CableTypeOK, NEW a \in Adventure, NEW t \in Exchange, NEW p, Written(a, t, p),
           SideOf(p) = SideOf(record[a][t])
    PROVE  SideMap' = SideMap
<1>1. SideMap' = [SideMap EXCEPT ![a][t] = SideOf(p)]
  BY SideWritten
<1>2. SideMap[a][t] = SideOf(p)
  BY DEF SideMap
<1>3. SideMap \in [Adventure -> [Exchange -> {SideOf(record[b][u]) : b \in Adventure, u \in Exchange}]]
  BY DEF SideMap
<1> QED
  BY <1>1, <1>2, <1>3

AtomicStep == Atomic!AtomicNext \/ (OutcomeMap' = OutcomeMap /\ SideMap' = SideMap)

\* A record that moves is a result that is ready, an outcome learnt, or nothing.
LEMMA MoveIsAtomic ==
    ASSUME CableTypeOK, NEW a \in Adventure, NEW t \in Exchange, RecordMove(a, t),
           decision' = decision
    PROVE  AtomicStep
<1>1. OutcomeMap' = OutcomeMap /\ SideMap[a][t] = SideOf(record[a][t])
  BY DEF OutcomeMap, SideMap
<1>2. ASSUME a \in Participants[t], SideMap[a][t] = "own",
             SideMap' = [SideMap EXCEPT ![a][t] = "ready"]
      PROVE  Atomic!AtomicNext
  BY <1>1, <1>2 DEF Atomic!AtomicNext, Atomic!Ready, OutcomeMap, SideMap
<1>3. ASSUME a \in Participants[t],
             \/ /\ decision[t] = "COMMIT" /\ SideMap[a][t] = "ready"
                /\ SideMap' = [SideMap EXCEPT ![a][t] = "swapped"]
             \/ /\ decision[t] = "ABORT" /\ SideMap[a][t] \in {"own", "ready"}
                /\ SideMap' = [SideMap EXCEPT ![a][t] = "kept"]
      PROVE  Atomic!AtomicNext
  <2>1. OutcomeMap[t] = decision[t]
    BY <1>3 DEF OutcomeMap
  <2> QED
    BY <1>1, <1>3, <2>1 DEF Atomic!AtomicNext, Atomic!Learn, OutcomeMap, SideMap
<1>4. CASE /\ record[a][t] \in {"none", "preparing"}
           /\ Written(a, t, "preparing") \/ Written(a, t, "prepared")
  BY <1>1, <1>4, SideKept, SidesDiffer DEF AtomicStep
<1>5. CASE /\ record[a][t] = "prepared" /\ a \in Participants[t]
           /\ Written(a, t, "staged")
  BY <1>1, <1>2, <1>5, SideWritten, SidesDiffer DEF AtomicStep
<1>6. CASE /\ Committable(a, t) /\ Authorised("apply", a, t)
           /\ Written(a, t, "committed") \/ Written(a, t, "applied")
  <2>1. CASE record[a][t] = "staged"
    BY <1>1, <1>3, <1>6, <2>1, SideWritten, SidesDiffer DEF AtomicStep, Authorised, Entitled
  <2>2. CASE record[a][t] \in {"committed", "applied"}
    BY <1>1, <1>6, <2>2, SideKept, SidesDiffer DEF AtomicStep
  <2> QED
    BY <1>6, <2>1, <2>2 DEF Committable
<1>7. CASE record[a][t] = "applied" /\ Written(a, t, "released")
  BY <1>1, <1>7, SideKept, SidesDiffer DEF AtomicStep
<1>8. CASE /\ record[a][t] \in {"none", "preparing", "prepared", "staged", "aborting"}
           /\ Authorised("abort", a, t)
           /\ Written(a, t, "aborting") \/ Written(a, t, "aborted")
  <2>1. CASE record[a][t] = "aborting"
    BY <1>1, <1>8, <2>1, SideKept, SidesDiffer DEF AtomicStep
  <2>2. CASE record[a][t] # "aborting"
    <3>1. SideMap[a][t] \in {"own", "ready"}
      BY <1>1, <1>8, <2>2, SidesDiffer
    <3>2. SideMap' = [SideMap EXCEPT ![a][t] = "kept"]
      BY <1>8, SideWritten, SidesDiffer
    <3> QED
      BY <1>3, <1>8, <3>1, <3>2 DEF AtomicStep, Authorised, Entitled
  <2> QED
    BY <2>1, <2>2
<1>9. CASE record[a][t] \in AbortPhases /\ Written(a, t, "aborted")
  BY <1>1, <1>9, SideKept, SidesDiffer DEF AtomicStep, AbortPhases
<1> QED
  BY <1>4, <1>5, <1>6, <1>7, <1>8, <1>9 DEF RecordMove

LEMMA StepIsAtomic ==
    ASSUME CableInv, [CableNext]_vars
    PROVE  AtomicStep
<1>0. CableTypeOK /\ RowStep /\ (record' = record => SideMap' = SideMap)
  BY RowSteps DEF CableInv, SideMap
<1>1. CASE decision' = decision
  <2>1. CASE record' = record
    BY <1>0, <1>1, <2>1 DEF AtomicStep, OutcomeMap
  <2> QED
    BY <1>0, <1>1, <2>1, RecordMoves, MoveIsAtomic
<1>2. ASSUME NEW t \in Exchange, AbortDecided(t)
      PROVE  AtomicStep
  <2>1. SideMap' = SideMap
    <3>1. ASSUME NEW a \in Adventure, PrepareRefused(a, t)
          PROVE  record' = record \/ (record[a][t] = "none" /\ Written(a, t, "preparing"))
      BY <3>1 DEF PrepareRefused, Written
    <3> QED
      BY <1>0, <1>2, <3>1, SideKept, SidesDiffer DEF AbortDecided
  <2>2. CASE decision[t] = "ABORT"
    <3>1. decision' = decision
      BY <1>0, <1>2, <2>2 DEF AbortDecided, CableTypeOK
    <3> QED
      BY <2>1, <3>1 DEF AtomicStep, OutcomeMap
  <2>3. CASE decision[t] = "none"
    <3>1. OutcomeMap[t] = "open" /\ OutcomeMap' = [OutcomeMap EXCEPT ![t] = "ABORT"]
      BY <1>0, <1>2, <2>3 DEF AbortDecided, CableTypeOK, OutcomeMap
    <3>2. SideMap' = [a \in Adventure |-> IF a \in {} THEN [SideMap[a] EXCEPT ![t] = "kept"] ELSE SideMap[a]]
      BY <2>1 DEF SideMap
    <3>3. \E settled \in SUBSET {a \in Participants[t] : SideMap[a][t] = "own"} :
             SideMap' = [a \in Adventure |->
                           IF a \in settled THEN [SideMap[a] EXCEPT ![t] = "kept"] ELSE SideMap[a]]
      <4> WITNESS {} \in SUBSET {a \in Participants[t] : SideMap[a][t] = "own"}
      <4> QED
        BY <3>2
    <3>4. Atomic!DecideAbort(t)
      BY <3>1, <3>3 DEF Atomic!DecideAbort, OutcomeMap, SideMap
    <3> QED
      BY <3>4 DEF AtomicStep, Atomic!AtomicNext
  <2> QED
    BY <1>2, <2>2, <2>3 DEF AbortDecided
<1>3. ASSUME NEW t \in Exchange, CommitDecided(t)
      PROVE  AtomicStep
  <2>1. SideMap' = SideMap
    BY <1>0, <1>3 DEF CommitDecided
  <2>2. OutcomeMap[t] = "open" /\ OutcomeMap' = [OutcomeMap EXCEPT ![t] = "COMMIT"]
    BY <1>0, <1>3 DEF CommitDecided, CableTypeOK, OutcomeMap
  <2>3. \A a \in Participants[t] : SideMap[a][t] = "ready"
    BY <1>3, SidesDiffer DEF CommitDecided, SideMap
  <2> QED
    BY <2>1, <2>2, <2>3 DEF AtomicStep, Atomic!AtomicNext, Atomic!DecideCommit, OutcomeMap,
       SideMap
<1> QED
  BY <1>0, <1>1, <1>2, <1>3 DEF RowStep

\* Coordinator, workers, failures and retries implement the atomic exchange.
THEOREM ImplementsAtomicExchange == CableSpec => ExchangeIsAtomic
<1>1. CableInv /\ [CableNext]_vars => [Atomic!AtomicNext]_<<OutcomeMap, SideMap>>
  BY StepIsAtomic DEF AtomicStep
<1> QED
  BY <1>1, AtomicInitMaps, CableAlwaysInv, PTL
  DEF CableSpec, ExchangeIsAtomic, Atomic!AtomicSpec, OutcomeMap, SideMap

\* Coordinator, rows, threads and late requests stay well typed, whatever fails.
THEOREM CableTypeCorrect == CableSpec => []CableTypeOK
<1>1. CableInv => CableTypeOK
  BY DEF CableInv
<1> QED
  BY <1>1, CableAlwaysInv, PTL
==============================================================================
