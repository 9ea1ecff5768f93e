---------------------------- MODULE CableExchange ----------------------------
(***************************************************************************)
(* The coordinator of Cable Club exchanges (app/coordinator.py) over the   *)
(* durable interaction rows of app/registry.py, driving the participants   *)
(* of module Participant through their workers.                            *)
(*                                                                         *)
(* One thread at a time holds the execution lock: it is the runner.  Other *)
(* threads wait for the lock to recover an exchange, give up when they     *)
(* were to execute one, or change rows under the guard lock while the      *)
(* runner is between two requests.  A request is one step with its reply;  *)
(* one the coordinator stopped waiting for may still run later.            *)
(***************************************************************************)
EXTENDS Participant

CONSTANTS
    Participants,  \* the two adventures of each exchange
    Stoppable,     \* bound: the adventures whose owner stops and starts them
    MaxFaults      \* bound on crashes, lost replies and failed handlers

ASSUME ParticipantsAssumption == Participants \in [Exchange -> SUBSET Adventure]
ASSUME StoppableAssumption == Stoppable \subseteq Adventure
ASSUME MaxFaultsAssumption == MaxFaults \in Nat

VARIABLES
    decision,   \* the durable decision of each row
    phase,      \* its phase, "new" before the row exists
    desired,    \* desired_state of each adventure
    runner,     \* the holder of the execution lock and where it is
    toExecute,  \* rows whose proposer is about to call execute
    waiting,    \* rows some thread waits to recover_one
    closed,     \* the application is shutting down
    late,       \* requests given up on that the worker may still run
    faults      \* how many faults have happened

rows == <<decision, phase>>
threads == <<runner, toExecute, waiting>>
coordinatorVars == <<rows, desired, threads, closed, late, faults>>
vars == <<participantVars, coordinatorVars>>

Terminal == {"completed", "aborted"}
Phases == {"new", "preparing", "connecting", "staging", "committed",
           "releasing", "aborting", "recovering"} \cup Terminal
Operations == {"prepare", "stage", "apply", "release", "abort"}

\* Where the runner is, for which row, whom it still has to ask, and what an
\* exception does: execute tries the recovery again or parks the row for the
\* scheduler; execute on a decided row lets the exception end the thread.
Runners == [at : {"idle", "recover", "session", "settle"} \cup Operations,
            ex : 0 .. N, left : SUBSET Adventure, onError : {"retry", "park", "raise"}]
Idle == [at |-> "idle", ex |-> NoExchange, left |-> {}, onError |-> "raise"]

CableTypeOK ==
    /\ ParticipantTypeOK
    /\ decision \in [Exchange -> {"none", "COMMIT", "ABORT"}]
    /\ phase \in [Exchange -> Phases]
    /\ desired \in [Adventure -> {"running", "stopped"}]
    /\ runner \in Runners
    /\ runner.at # "idle" => runner.ex \in Exchange
    /\ toExecute \subseteq Exchange
    /\ waiting \subseteq Exchange
    /\ closed \in BOOLEAN
    /\ late \in [Adventure -> SUBSET (Operations \X Exchange)]
    /\ faults \in 0 .. MaxFaults

CableInit ==
    /\ ParticipantInit
    /\ decision = [t \in Exchange |-> "none"]
    /\ phase = [t \in Exchange |-> "new"]
    /\ desired = [a \in Adventure |-> "running"]
    /\ runner = Idle
    /\ toExecute = {} /\ waiting = {} /\ closed = FALSE
    /\ late = [a \in Adventure |-> {}]
    /\ faults = 0

------------------------------------------------------------------------------

Unresolved == {t \in Exchange : phase[t] \notin Terminal \cup {"new"}}
Reserved(a) == \E t \in Unresolved : a \in Participants[t]
Fault == faults < MaxFaults /\ faults' = faults + 1

\* execute holds the guard from the last check of the decision to the commit.
GuardFree == runner.at # "stage"

RunAt(at, t, onError) ==
    runner' = [at |-> at, ex |-> t, onError |-> onError,
               left |-> IF at = "recover" THEN {} ELSE Participants[t]]
Answered(a) == runner' = [runner EXCEPT !.left = @ \ {a}]

\* Variant: only a row that reserves one of the two adventures is in the way.
ProposeIfFree(t) ==
    /\ phase[t] = "new" /\ \A u \in Exchange : u < t => phase[u] # "new"
    /\ ~closed /\ GuardFree /\ \A a \in Participants[t] : hold[a].id = NoExchange
    /\ \A a \in Participants[t] : desired[a] = "running" /\ worker[a] = "up"
    /\ phase' = [phase EXCEPT ![t] = "preparing"]
    /\ toExecute' = toExecute \cup {t}
    /\ UNCHANGED <<participantVars, decision, desired, runner, waiting, closed, late, faults>>

\* _admit: nothing unresolved anywhere and both adventures running.  The
\* inventories, and with them "holding", were read before the locks were taken.
Propose(t) ==
    /\ phase[t] = "new" /\ \A u \in Exchange : u < t => phase[u] # "new"
    /\ ~closed /\ GuardFree /\ Unresolved = {}
    /\ \A a \in Participants[t] : desired[a] = "running" /\ worker[a] = "up"
    /\ phase' = [phase EXCEPT ![t] = "preparing"]
    /\ toExecute' = toExecute \cup {t}
    /\ UNCHANGED <<participantVars, decision, desired, runner, waiting, closed, late, faults>>

\* execute takes the execution lock or, when it is taken, returns the row as it is.
Execute(t) ==
    /\ t \in toExecute /\ runner.at = "idle"
    /\ toExecute' = toExecute \ {t}
    /\ \/ phase[t] \in Terminal /\ UNCHANGED runner
       \/ phase[t] \notin Terminal /\ decision[t] # "none" /\ RunAt("recover", t, "raise")
       \/ phase[t] \notin Terminal /\ decision[t] = "none" /\ RunAt("prepare", t, "park")
    /\ UNCHANGED <<participantVars, rows, desired, waiting, closed, late, faults>>

ExecuteRefused(t) ==
    /\ t \in toExecute /\ runner.at # "idle"
    /\ toExecute' = toExecute \ {t}
    /\ UNCHANGED <<participantVars, rows, desired, runner, waiting, closed, late, faults>>

------------------------------------------------------------------------------
(* What an exception does. *)

\* Before the decision: the exchange is aborted, unless a cancel was faster.
FailExchange ==
    LET t == runner.ex IN
    /\ IF decision[t] = "none"
         THEN /\ decision' = [decision EXCEPT ![t] = "ABORT"]
              /\ phase' = [phase EXCEPT ![t] = "aborting"]
         ELSE UNCHANGED rows
    /\ RunAt("recover", t, "park")

\* Variant: the row is not handed to the scheduler.
RecoveryForgets ==
    /\ IF runner.onError = "retry" THEN RunAt("recover", runner.ex, "park") ELSE runner' = Idle
    /\ UNCHANGED rows

\* During recovery: try once more, leave it to the scheduler, or nobody.
RecoveryFails ==
    \/ runner.onError = "retry" /\ RunAt("recover", runner.ex, "park") /\ UNCHANGED rows
    \/ /\ runner.onError = "park" /\ runner' = Idle
       /\ phase' = [phase EXCEPT ![runner.ex] = "recovering"]
       /\ UNCHANGED decision
    \/ runner.onError = "raise" /\ runner' = Idle /\ UNCHANGED rows

Raise == IF runner.at \in {"prepare", "session", "stage"} THEN FailExchange ELSE RecoveryFails

------------------------------------------------------------------------------
(* The requests of the runner. *)

Asking(op, a) == runner.at = op /\ a \in runner.left
Reachable(a) == worker[a] = "up" /\ ~closed

AskPrepare(a) ==
    /\ Asking("prepare", a) /\ Reachable(a)
    /\ \/ PrepareBegins(a, runner.ex) /\ UNCHANGED <<rows, runner>>
       \/ PrepareWaits(a, runner.ex) /\ UNCHANGED <<rows, runner>>
       \/ PrepareSucceeds(a, runner.ex) /\ Answered(a) /\ UNCHANGED rows
       \/ PrepareRefused(a, runner.ex) /\ Raise
    /\ UNCHANGED <<desired, toExecute, waiting, closed, late, faults>>

AskStage(a) ==
    /\ Asking("stage", a) /\ Reachable(a)
    /\ \/ StageSucceeds(a, runner.ex) /\ Answered(a) /\ UNCHANGED rows
       \/ StageRefused(a, runner.ex) /\ Raise
    /\ UNCHANGED <<desired, toExecute, waiting, closed, late, faults>>

AskApply(a) ==
    /\ Asking("apply", a) /\ Reachable(a)
    /\ \/ ApplySucceeds(a, runner.ex) /\ Answered(a) /\ UNCHANGED <<rows, faults>>
       \/ ApplyRefused(a, runner.ex) /\ Raise /\ UNCHANGED faults
       \/ ApplyInterrupted(a, runner.ex) /\ Raise /\ Fault
    /\ UNCHANGED <<desired, toExecute, waiting, closed, late>>

AskRelease(a) ==
    /\ Asking("release", a) /\ Reachable(a)
    /\ \/ ReleaseSucceeds(a, runner.ex) /\ Answered(a) /\ UNCHANGED rows
       \/ ReleaseRefused(a, runner.ex) /\ Raise
    /\ UNCHANGED <<desired, toExecute, waiting, closed, late, faults>>

AskAbort(a) ==
    /\ Asking("abort", a) /\ Reachable(a)
    /\ \/ AbortSucceeds(a, runner.ex) /\ Answered(a) /\ UNCHANGED <<rows, faults>>
       \/ AbortRefused(a, runner.ex) /\ Raise /\ UNCHANGED faults
       \/ AbortInterrupted(a, runner.ex) /\ Raise /\ Fault
    /\ UNCHANGED <<desired, toExecute, waiting, closed, late>>

\* abort and apply start a stopped worker first; prepare, stage and release do not.
StartForRecovery(a) ==
    /\ Asking("abort", a) \/ Asking("apply", a)
    /\ ~closed
    /\ WorkerStarts(a)
    /\ UNCHANGED coordinatorVars

\* No answer can come: shutting down, no worker to ask, or the old worker still
\* holds the adventure's lock.  A start that fails by itself is a fault.
Unreachable(a) ==
    /\ runner.at \in Operations /\ a \in runner.left
    /\ \/ /\ \/ closed \/ worker[a] = "orphan"
             \/ worker[a] = "down" /\ runner.at \in {"prepare", "stage", "release"}
          /\ UNCHANGED faults
       \/ worker[a] = "down" /\ runner.at \in {"abort", "apply"} /\ Fault
    /\ Raise
    /\ UNCHANGED <<participantVars, desired, toExecute, waiting, closed, late>>

\* The coordinator stops waiting; the worker may still run the request.
TimesOut(a) ==
    /\ runner.at \in Operations /\ a \in runner.left /\ Reachable(a)
    /\ late' = [late EXCEPT ![a] = @ \cup {<<runner.at, runner.ex>>}]
    /\ Fault /\ Raise
    /\ UNCHANGED <<participantVars, desired, toExecute, waiting, closed>>

LateOutcome(a, op, t) ==
    \/ op = "prepare" /\ \/ PrepareBegins(a, t) \/ PrepareWaits(a, t)
                         \/ PrepareSucceeds(a, t) \/ PrepareRefused(a, t)
    \/ op = "stage" /\ (StageSucceeds(a, t) \/ StageRefused(a, t))
    \/ op = "apply" /\ (ApplySucceeds(a, t) \/ ApplyRefused(a, t))
    \/ op = "release" /\ (ReleaseSucceeds(a, t) \/ ReleaseRefused(a, t))
    \/ op = "abort" /\ (AbortSucceeds(a, t) \/ AbortRefused(a, t))

\* Requests queued on the worker run in whatever order its threads queued them.
LateRequest(a) ==
    \E request \in late[a] :
        /\ LateOutcome(a, request[1], request[2])
        /\ late' = [late EXCEPT ![a] = @ \ {request}]
        /\ UNCHANGED <<rows, desired, threads, closed, faults>>

------------------------------------------------------------------------------
(* execute between its requests. *)

\* Checked between two polling rounds.
PrepareCancelled ==
    /\ runner.at = "prepare" /\ runner.left # {}
    /\ closed \/ decision[runner.ex] = "ABORT"
    /\ FailExchange
    /\ UNCHANGED <<participantVars, desired, toExecute, waiting, closed, late, faults>>

PrepareDeadline ==
    /\ runner.at = "prepare" /\ runner.left # {}
    /\ FailExchange
    /\ UNCHANGED <<participantVars, desired, toExecute, waiting, closed, late, faults>>

\* Both are prepared: the phase is written without looking at the decision.
StartSession ==
    /\ runner.at = "prepare" /\ runner.left = {}
    /\ phase' = [phase EXCEPT ![runner.ex] = "connecting"]
    /\ RunAt("session", runner.ex, "park")
    /\ UNCHANGED <<participantVars, decision, desired, toExecute, waiting, closed, late, faults>>

\* Variant: the decision is not looked at again after the session.
SessionUnchecked ==
    /\ runner.at = "session" /\ ~closed
    /\ phase' = [phase EXCEPT ![runner.ex] = "staging"]
    /\ RunAt("stage", runner.ex, "park")
    /\ UNCHANGED <<participantVars, decision, desired, toExecute, waiting, closed, late, faults>>

\* A verified session, and the guard taken with nobody having cancelled.
SessionSucceeds ==
    /\ runner.at = "session"
    /\ ~closed /\ decision[runner.ex] # "ABORT"
    /\ phase' = [phase EXCEPT ![runner.ex] = "staging"]
    /\ RunAt("stage", runner.ex, "park")
    /\ UNCHANGED <<participantVars, decision, desired, toExecute, waiting, closed, late, faults>>

\* Cancelled, shut down, timed out, failed, or refused by the verification.
SessionFails ==
    /\ runner.at = "session"
    /\ FailExchange
    /\ UNCHANGED <<participantVars, desired, toExecute, waiting, closed, late, faults>>

\* Variant: the last adventure's result is not waited for.
CommitEarly ==
    /\ runner.at = "stage" /\ Cardinality(runner.left) <= 1
    /\ decision' = [decision EXCEPT ![runner.ex] = "COMMIT"]
    /\ phase' = [phase EXCEPT ![runner.ex] = "committed"]
    /\ RunAt("recover", runner.ex, "retry")
    /\ UNCHANGED <<participantVars, desired, toExecute, waiting, closed, late, faults>>

Commit ==
    /\ runner.at = "stage" /\ runner.left = {}
    /\ decision' = [decision EXCEPT ![runner.ex] = "COMMIT"]
    /\ phase' = [phase EXCEPT ![runner.ex] = "committed"]
    /\ RunAt("recover", runner.ex, "retry")
    /\ UNCHANGED <<participantVars, desired, toExecute, waiting, closed, late, faults>>

------------------------------------------------------------------------------
(* _recover: finish what was decided, and decide ABORT where nothing was. *)

\* Variant: a row parked for recovery is undone whatever was decided.
RecoverByPhase ==
    LET t == runner.ex IN
    /\ runner.at = "recover"
    /\ \/ phase[t] \in Terminal /\ runner' = Idle
       \/ phase[t] = "committed" /\ RunAt("apply", t, runner.onError)
       \/ phase[t] \notin Terminal \cup {"committed"} /\ RunAt("abort", t, runner.onError)
    /\ UNCHANGED <<participantVars, rows, desired, toExecute, waiting, closed, late, faults>>

Recover ==
    LET t == runner.ex IN
    /\ runner.at = "recover"
    /\ \/ phase[t] \in Terminal /\ runner' = Idle /\ UNCHANGED rows
       \/ /\ phase[t] \notin Terminal /\ decision[t] = "COMMIT"
          /\ RunAt("apply", t, runner.onError) /\ UNCHANGED rows
       \/ /\ phase[t] \notin Terminal /\ decision[t] = "ABORT"
          /\ RunAt("abort", t, runner.onError) /\ UNCHANGED rows
       \/ /\ phase[t] \notin Terminal /\ decision[t] = "none"
          /\ decision' = [decision EXCEPT ![t] = "ABORT"]
          /\ phase' = [phase EXCEPT ![t] = "aborting"]
          /\ RunAt("abort", t, runner.onError)
    /\ UNCHANGED <<participantVars, desired, toExecute, waiting, closed, late, faults>>

\* Variant: the first adventure is released before the second has applied.
AnyAnswered ==
    LET t == runner.ex
        Advance(to, next) == /\ phase' = [phase EXCEPT ![t] = to]
                             /\ RunAt(next, t, runner.onError)
    IN
    /\ runner.at \in {"abort", "apply", "release"} /\ runner.left # Participants[t]
    /\ \/ runner.at = "abort" /\ Advance("aborted", "settle")
       \/ runner.at = "apply" /\ Advance("releasing", "release")
       \/ runner.at = "release" /\ Advance("completed", "settle")
    /\ UNCHANGED <<participantVars, decision, desired, toExecute, waiting, closed, late, faults>>

\* Variant: the row takes over the phase its participants reported.
AllReported ==
    /\ runner.left = {} /\ runner.at = "apply"
    /\ phase' = [phase EXCEPT ![runner.ex] = "applied"]
    /\ RunAt("release", runner.ex, runner.onError)
    /\ UNCHANGED <<participantVars, decision, desired, toExecute, waiting, closed, late, faults>>

AllAnswered ==
    LET t == runner.ex
        Advance(to, next) == /\ phase' = [phase EXCEPT ![t] = to]
                             /\ RunAt(next, t, runner.onError)
    IN
    /\ runner.left = {}
    /\ \/ runner.at = "abort" /\ Advance("aborted", "settle")
       \/ runner.at = "apply" /\ Advance("releasing", "release")
       \/ runner.at = "release" /\ Advance("completed", "settle")
    /\ UNCHANGED <<participantVars, decision, desired, toExecute, waiting, closed, late, faults>>

\* Each adventure goes on or, when its owner asked meanwhile, stops.
Settle(a) ==
    /\ Asking("settle", a)
    /\ \/ /\ desired[a] = "running" \/ worker[a] # "up"
          /\ UNCHANGED <<participantVars, late>>
       \/ /\ desired[a] = "stopped" /\ worker[a] = "up" /\ WorkerStops(a)
          /\ late' = [late EXCEPT ![a] = {}]
    /\ Answered(a)
    /\ UNCHANGED <<rows, desired, toExecute, waiting, closed, faults>>

\* A stop past its deadline kills the worker and raises.
SettleFails(a) ==
    /\ Asking("settle", a)
    /\ desired[a] = "stopped" /\ worker[a] = "up"
    /\ WorkerCrashes(a) \/ WorkerStops(a)
    /\ late' = [late EXCEPT ![a] = {}]
    /\ Fault /\ Raise
    /\ UNCHANGED <<desired, toExecute, waiting, closed>>

Settled ==
    /\ runner.at = "settle" /\ runner.left = {}
    /\ runner' = Idle
    /\ UNCHANGED <<participantVars, rows, desired, toExecute, waiting, closed, late, faults>>

------------------------------------------------------------------------------
(* The other threads. *)

\* cancel and the recover route queue for the execution lock.
RecoverOne(t) ==
    /\ t \in waiting /\ runner.at = "idle"
    /\ waiting' = waiting \ {t}
    /\ RunAt("recover", t, "park")
    /\ UNCHANGED <<participantVars, rows, desired, toExecute, closed, late, faults>>

\* The scheduler looks at the newest unresolved row only.
SchedulerRetries(t) ==
    /\ runner.at = "idle" /\ ~closed
    /\ t \in Unresolved /\ \A u \in Unresolved : u <= t
    /\ phase[t] = "recovering"
    /\ RunAt("recover", t, "park")
    /\ UNCHANGED <<participantVars, rows, desired, toExecute, waiting, closed, late, faults>>

\* Variant: the owner's cancel overrules a decision.
CancelAnyway(t) ==
    /\ GuardFree /\ t \in Unresolved
    /\ decision' = [decision EXCEPT ![t] = "ABORT"]
    /\ phase' = [phase EXCEPT ![t] = "aborting"]
    /\ waiting' = waiting \cup {t}
    /\ UNCHANGED <<participantVars, desired, runner, toExecute, closed, late, faults>>

Cancel(t) ==
    /\ GuardFree /\ t \in Unresolved /\ decision[t] # "COMMIT"
    /\ decision' = [decision EXCEPT ![t] = "ABORT"]
    /\ phase' = [phase EXCEPT ![t] = "aborting"]
    /\ waiting' = waiting \cup {t}
    /\ UNCHANGED <<participantVars, desired, runner, toExecute, closed, late, faults>>

\* A trade the owner chose is waiting: an automatic one that only travels gives way.
SetAside(t) ==
    /\ GuardFree /\ phase[t] = "preparing" /\ decision[t] = "none"
    /\ decision' = [decision EXCEPT ![t] = "ABORT"]
    /\ phase' = [phase EXCEPT ![t] = "aborting"]
    /\ UNCHANGED <<participantVars, desired, threads, closed, late, faults>>

OwnerRecovers(t) ==
    /\ t \in Unresolved
    /\ waiting' = waiting \cup {t}
    /\ UNCHANGED <<participantVars, rows, desired, runner, toExecute, closed, late, faults>>

\* A reserved adventure only notes the wish; the exchange's end stops it.
OwnerStops(a) ==
    /\ a \in Stoppable /\ desired[a] = "running"
    /\ desired' = [desired EXCEPT ![a] = "stopped"]
    /\ IF Reserved(a) \/ worker[a] # "up"
         THEN UNCHANGED <<participantVars, late>>
         ELSE WorkerStops(a) /\ late' = [late EXCEPT ![a] = {}]
    /\ UNCHANGED <<rows, threads, closed, faults>>

OwnerStarts(a) ==
    /\ desired[a] = "stopped"
    /\ desired' = [desired EXCEPT ![a] = "running"]
    /\ UNCHANGED <<participantVars, rows, threads, closed, late, faults>>

\* Application start, owner start and the monitor's restarts.
SupervisorStarts(a) ==
    /\ desired[a] = "running" /\ ~closed
    /\ WorkerStarts(a)
    /\ UNCHANGED coordinatorVars

------------------------------------------------------------------------------
(* Processes end. *)

WorkerFails(a) ==
    /\ WorkerCrashes(a) \/ WorkerStops(a)
    /\ late' = [late EXCEPT ![a] = {}]
    /\ Fault
    /\ UNCHANGED <<rows, desired, threads, closed>>

OrphanExits(a) ==
    /\ worker[a] = "orphan"
    /\ WorkerStops(a)
    /\ late' = [late EXCEPT ![a] = {}]
    /\ UNCHANGED <<rows, desired, threads, closed, faults>>

CloseApp ==
    /\ ~closed /\ closed' = TRUE /\ Fault
    /\ UNCHANGED <<participantVars, rows, desired, threads, late>>

\* Variant: the next start leaves unresolved rows to the scheduler.
AppRestartsLazily ==
    /\ \/ closed /\ UNCHANGED faults
       \/ ~closed /\ Fault
    /\ closed' = FALSE
    /\ runner' = Idle /\ toExecute' = {} /\ waiting' = {}
    /\ worker' = [a \in Adventure |-> IF worker[a] = "up" THEN "orphan" ELSE worker[a]]
    /\ UNCHANGED <<game, durable, rows, desired, late>>

\* The application's threads are gone; its next start recovers every
\* unresolved row while the old workers may still be exiting.
AppRestarts ==
    /\ \/ closed /\ UNCHANGED faults
       \/ ~closed /\ Fault
    /\ closed' = FALSE
    /\ runner' = Idle /\ toExecute' = {} /\ waiting' = Unresolved
    /\ worker' = [a \in Adventure |-> IF worker[a] = "up" THEN "orphan" ELSE worker[a]]
    /\ UNCHANGED <<game, durable, rows, desired, late>>

\* What happens inside the worker without the coordinator.
WorkerPlays(a) ==
    /\ Gameplay(a)
    /\ UNCHANGED coordinatorVars

------------------------------------------------------------------------------

RunnerStep ==
    \/ \E a \in Adventure :
          \/ AskPrepare(a) \/ AskStage(a) \/ AskApply(a) \/ AskRelease(a) \/ AskAbort(a)
          \/ StartForRecovery(a) \/ Unreachable(a) \/ Settle(a)
    \/ PrepareCancelled \/ PrepareDeadline \/ StartSession
    \/ SessionSucceeds \/ SessionFails \/ Commit
    \/ Recover \/ AllAnswered \/ Settled

CableNext ==
    \/ RunnerStep
    \/ \E t \in Exchange :
          \/ Propose(t) \/ Execute(t) \/ ExecuteRefused(t)
          \/ RecoverOne(t) \/ SchedulerRetries(t)
          \/ Cancel(t) \/ SetAside(t) \/ OwnerRecovers(t)
    \/ \E a \in Adventure :
          \/ TimesOut(a) \/ LateRequest(a) \/ SettleFails(a)
          \/ OwnerStops(a) \/ OwnerStarts(a) \/ SupervisorStarts(a)
          \/ WorkerFails(a) \/ OrphanExits(a) \/ WorkerPlays(a)
    \/ CloseApp \/ AppRestarts

CableSpec == CableInit /\ [][CableNext]_vars

------------------------------------------------------------------------------
(* What the exchange promises. *)

\* All or nothing: one adventure never keeps an exchange that the other undid,
\* whatever was cancelled, lost, delayed or restarted on the way.
Agreement ==
    \A t \in Exchange : \A a, b \in Participants[t] :
        ~(record[a][t] \in CommitPhases /\ record[b][t] \in AbortPhases)

\* No commit receipt reaches an adventure, and no row decides to commit, unless
\* every participant keeps a verified result that a restart can still publish.
CommitNeedsEveryResult ==
    \A t \in Exchange :
        (decision[t] = "COMMIT" \/ \E a \in Participants[t] : record[a][t] \in CommitPhases) =>
            \A b \in Participants[t] : record[b][t] \in {"staged"} \cup CommitPhases

\* No Pokemon exists twice in play: an adventure plays on with what it received
\* only after the other side's restart point no longer holds what it sent.
PlayResumesAfterBothReceived ==
    \A t \in Exchange : \A a, b \in Participants[t] :
        t \in Received(a) /\ ~HeldFor(a, t) => t \in Received(b)

\* A resolved row leaves nothing behind: no late request of it, no restart and
\* no failed handler holds an adventure for it or prepares one for it again.
ResolvedLeavesNothing ==
    \A t \in Exchange : \A a \in Participants[t] :
        /\ phase[t] = "completed" => record[a][t] = "released"
        /\ phase[t] = "aborted" => record[a][t] = "aborted"
        /\ phase[t] \in Terminal => ~HeldFor(a, t) /\ preparation[a].id # t

\* "At most one interaction reserves an adventure at a time", as the rows that
\* are not resolved say it.
OneReservationPerAdventure ==
    \A t, u \in Unresolved : t # u => Participants[t] \cap Participants[u] = {}

\* Each row's decision is the exchange's outcome, and each record its side.
SideOf(p) ==
    CASE p \in {"none", "preparing", "prepared"} -> "own"
      [] p = "staged" -> "ready"
      [] p \in CommitPhases -> "swapped"
      [] p \in AbortPhases -> "kept"

Atomic == INSTANCE AtomicExchange WITH
    outcome <- [t \in Exchange |-> IF decision[t] = "none" THEN "open" ELSE decision[t]],
    side <- [a \in Adventure |-> [t \in Exchange |-> SideOf(record[a][t])]]

\* Coordinator, workers, crashes and retries together implement the atomic
\* exchange: decided once, committed only when both results are staged, and
\* every adventure follows the decision.
ExchangeIsAtomic == Atomic!AtomicSpec

\* What the queue and the scheduler may rely on: every step of coordinator,
\* workers and failures changes rows and execution lock only as ExchangeRows says.
RowPhase(p) == CASE p \in {"new", "preparing", "recovering"} -> p
                 [] p \in Terminal -> "resolved"
                 [] OTHER -> "active"

Rows == INSTANCE ExchangeRows WITH
    Row <- Exchange, NoRow <- NoExchange,
    phase <- [t \in Exchange |-> RowPhase(phase[t])],
    executing <- IF runner.at = "idle" THEN NoExchange ELSE runner.ex

KeepsRowProtocol == Rows!RowSpec

------------------------------------------------------------------------------
(* Why these hold: the inductive invariant over rows, runner and requests. *)

\* What gives the coordinator the right to send a request, which a late one
\* still has when the worker runs it.
Entitled(op, t) ==
    /\ op = "abort" => decision[t] = "ABORT"
    /\ op \in {"apply", "release"} => decision[t] = "COMMIT"
    /\ op = "release" => \A b \in Participants[t] : t \in Received(b)
Authorised(op, a, t) == a \in Participants[t] /\ Entitled(op, t)

\* What an adventure that answered a request keeps on showing.
Obeyed(op, a, t) ==
    /\ op = "stage" => record[a][t] = "staged"
    /\ op = "apply" => t \in Received(a)
    /\ op = "release" => record[a][t] = "released"
    /\ op = "abort" => record[a][t] = "aborted"

\* A record goes beyond its result only where the row decided, and the row
\* decides to commit only where every result is there.
RecordsFollowRow(t) ==
    \A a \in Participants[t] :
        /\ record[a][t] \in AbortPhases => decision[t] = "ABORT"
        /\ record[a][t] \in CommitPhases => decision[t] = "COMMIT"
        /\ decision[t] = "COMMIT" => record[a][t] \in {"staged"} \cup CommitPhases
        /\ record[a][t] = "released" => \A b \in Participants[t] : t \in Received(b)

ResolvedRow(t) ==
    \A a \in Participants[t] :
        /\ phase[t] = "completed" => record[a][t] = "released"
        /\ phase[t] = "aborted" => record[a][t] = "aborted"

LateFollows ==
    \A a \in Adventure : \A request \in late[a] : Authorised(request[1], a, request[2])

RunnerFollows ==
    LET t == runner.ex IN
    runner.at # "idle" =>
        /\ runner.left \subseteq Participants[t]
        /\ runner.at \in {"prepare", "session"} => decision[t] # "COMMIT"
        /\ runner.at = "stage" => decision[t] = "none"
        /\ Entitled(runner.at, t)
        /\ \A a \in Participants[t] \ runner.left : Obeyed(runner.at, a, t)

\* Rows, records, runner and late requests always agree on what was decided.
CableInv ==
    /\ CableTypeOK
    /\ ParticipantInv
    /\ \A t \in Exchange : RecordsFollowRow(t) /\ ResolvedRow(t)
    /\ LateFollows
    /\ RunnerFollows

------------------------------------------------------------------------------
(* Progress: the threads of the application and the processes they wait for  *)
(* keep running; locks are granted; every wait of the code has a timeout.    *)

Fairness ==
    /\ WF_vars(RunnerStep)
    /\ \A t \in Exchange :
          /\ WF_vars(Execute(t) \/ ExecuteRefused(t))
          /\ WF_vars(RecoverOne(t))
          /\ WF_vars(SchedulerRetries(t))
    /\ \A a \in Adventure : WF_vars(OrphanExits(a))
    /\ WF_vars(closed /\ AppRestarts)

FairCableSpec == CableSpec /\ Fairness

\* An adventure held for an exchange is always given back in the end.
HeldIsReturned ==
    \A a \in Adventure : hold[a].id # NoExchange ~> hold[a].id = NoExchange

\* A committed exchange reaches both adventures in the end.
CommittedIsReceived ==
    \A t \in Exchange :
        decision[t] = "COMMIT" ~> \A a \in Participants[t] : record[a][t] = "released"

\* "interrupted exchanges retry durable recovery automatically": a row whose
\* outcome is decided is resolved in the end.
DecidedIsResolved ==
    \A t \in Exchange : decision[t] # "none" ~> phase[t] \in Terminal
==============================================================================
