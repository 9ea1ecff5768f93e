----------------------------- MODULE ManualQueue -----------------------------
(***************************************************************************)
(* The queue of trades the owner chose and the scheduler of automatic ones *)
(* (app/coordinator.py), over the exchange rows of module ExchangeRows.    *)
(*                                                                         *)
(* Four kinds of thread work on them: requests of the owner, the one drain *)
(* loop (whoever holds manual_drain runs it), the scheduler's pass, and    *)
(* recoveries.  Each read of shared state that the code does not repeat    *)
(* under a lock is a step of its own.                                      *)
(***************************************************************************)
EXTENDS ExchangeRows, Integers, FiniteSets

CONSTANTS
    M,             \* chosen trades 1 .. M, in the order they are enqueued
    Automatic,     \* rows that automatic trading may create
    Pair,          \* the adventures of each exchange
    KeepManual,    \* KEEP_MANUAL: how many ended entries are kept
    MaxFaults      \* bound on restarts, held adventures, failed and repeated recoveries

Chosen == 1 .. M

ASSUME RowsAssumption == M \in Nat /\ Row = Chosen \cup Automatic /\ Chosen \cap Automatic = {}
ASSUME KeepAssumption == KeepManual \in Nat \ {0}
ASSUME FaultsAssumption == MaxFaults \in Nat

VARIABLES
    state,       \* of each queue entry; "none" before it is enqueued
    cancelled,   \* entries with cancel_requested
    drain,       \* the drain loop: where it is and for which entry
    calls,       \* threads about to call drain_manual
    sched,       \* the scheduler's pass
    run,         \* which thread executes, and whether it has resolved its row
    guarded,     \* the row whose cancel has been admitted but not written
    recoverers,  \* rows some thread waits to recover_one
    paused,      \* "suspended" by maintenance, "closed" by shutdown
    faults       \* how many faults have happened

queueVars == <<state, cancelled>>
vars == <<rowVars, queueVars, drain, calls, sched, run, guarded, recoverers, paused, faults>>

\* MANUAL_WAITING; every other entry counts as ended when the list is pruned.
WaitingStates == {"queued", "starting"}
EndedStates == {"started", "rejected", "cancelled"}
Waiting == {m \in Chosen : state[m] \in WaitingStates}

Kick == 0        \* the caller of drain_manual that is no owner's request
Nobody == [by |-> "nobody", done |-> FALSE]
NoDrain == [at |-> "idle", m |-> Kick, last |-> FALSE, by |-> "thread"]
NoPass == [at |-> "idle", seen |-> {}, t |-> NoRow]

QueueTypeOK ==
    /\ RowTypeOK
    /\ state \in [Chosen -> WaitingStates \cup EndedStates \cup {"none", "dropped"}]
    /\ cancelled \subseteq Chosen
    /\ drain \in [at : {"idle", "repair", "look", "set_aside", "claim", "propose", "created",
                        "execute", "cancel", "recover", "running", "leave"},
                  m : Row \cup {Kick}, last : BOOLEAN, by : {"thread", "scheduler"}]
    /\ calls \subseteq Chosen \cup {Kick}
    /\ sched \in [at : {"idle", "drain", "redrain", "score", "check", "create", "execute", "running"},
                  seen : SUBSET Chosen, t : Automatic \cup {NoRow}]
    /\ run \in [by : {"nobody", "drain", "scheduler", "recovery"}, done : BOOLEAN]
    /\ guarded \in Row \cup {NoRow}
    /\ recoverers \subseteq Row
    /\ paused \in {"no", "suspended", "closed"}
    /\ faults \in 0 .. MaxFaults

QueueInit ==
    /\ RowInit
    /\ state = [m \in Chosen |-> "none"] /\ cancelled = {}
    /\ drain = NoDrain /\ calls = {} /\ sched = NoPass
    /\ run = Nobody /\ guarded = NoRow /\ recoverers = {}
    /\ paused = "no" /\ faults = 0

------------------------------------------------------------------------------

Fault == faults < MaxFaults /\ faults' = faults + 1

\* The guard is held between the two halves of a cancel or a set-aside.
GuardFree == guarded = NoRow /\ drain.at # "set_aside"

\* Variant: a trade that is starting counts among the finished ones.
SaveCountsStarting(new) ==
    LET ended == {m \in Chosen : new[m] \in EndedStates \cup {"starting"}}
        newer(m) == {k \in ended : k > m}
    IN  state' = [m \in Chosen |-> IF m \in ended /\ Cardinality(newer(m)) >= KeepManual
                                     THEN "dropped" ELSE new[m]]

\* Each save keeps only the newest KeepManual entries that have ended.
Save(new) ==
    LET ended == {m \in Chosen : new[m] \in EndedStates}
        newer(m) == {k \in ended : k > m}
    IN  state' = [m \in Chosen |-> IF m \in ended /\ Cardinality(newer(m)) >= KeepManual
                                     THEN "dropped" ELSE new[m]]
Update(m, s) == Save([state EXCEPT ![m] = s])

At(place, m) == drain' = [drain EXCEPT !.at = place, !.m = m]
Leave == drain' = [drain EXCEPT !.at = "leave", !.m = Kick]
Busy == executing # NoRow \/ Open # {}

------------------------------------------------------------------------------
(* The owner. *)

\* builder.create: the entry, and a background thread that calls drain_manual.
Enqueue(m) ==
    /\ paused = "no"
    /\ state[m] = "none" /\ \A k \in Chosen : k < m => state[k] # "none"
    /\ Update(m, "queued")
    /\ calls' = calls \cup {m}
    /\ UNCHANGED <<rowVars, cancelled, drain, sched, run, guarded, recoverers, paused, faults>>

CancelQueued(m) ==
    /\ state[m] = "queued"
    /\ Update(m, "cancelled")
    /\ UNCHANGED <<rowVars, cancelled, drain, calls, sched, run, guarded, recoverers, paused, faults>>

\* cancel_manual of an entry that is starting; of one that has started it is Cancel.
CancelStarting(m) ==
    /\ state[m] = "starting"
    /\ cancelled' = cancelled \cup {m}
    /\ UNCHANGED <<rowVars, state, drain, calls, sched, run, guarded, recoverers, paused, faults>>

\* cancel reads the row under the guard, which keeps commits and new rows out
\* (bound: cancelling an aborted row once more is one of the faults) ...
CancelReads(t) ==
    /\ GuardFree
    /\ t \in Open
    /\ \/ decision[t] = "none" /\ UNCHANGED faults
       \/ decision[t] = "ABORT" /\ t \notin recoverers /\ Fault
    /\ guarded' = t
    /\ UNCHANGED <<rowVars, queueVars, drain, calls, sched, run, recoverers, paused>>

\* ... and writes it, whatever the recovery wrote in between, which has no guard.
CancelWrites(t) ==
    /\ guarded = t
    /\ Abort(t)
    /\ guarded' = NoRow /\ recoverers' = recoverers \cup {t}
    /\ UNCHANGED <<queueVars, drain, calls, sched, run, paused, faults>>

\* An open row that no thread holds, waits for or retries.
Abandoned(t) ==
    /\ t \in Open /\ phase[t] # "recovering" /\ executing # t
    /\ t \notin recoverers /\ guarded # t
    /\ ~(drain.m = t /\ drain.at # "set_aside") /\ sched.t # t

\* The recover route takes any row; bound: one that is not abandoned costs a fault.
OwnerRecovers(t) ==
    /\ phase[t] # "new" /\ t \notin recoverers
    /\ IF Abandoned(t) THEN UNCHANGED faults ELSE Fault
    /\ recoverers' = recoverers \cup {t}
    /\ UNCHANGED <<rowVars, queueVars, drain, calls, sched, run, guarded, paused>>

------------------------------------------------------------------------------
(* The drain loop. *)

\* manual_drain is taken without waiting; a call that finds it taken returns.
Call(c) ==
    /\ c \in calls /\ calls' = calls \ {c}
    /\ IF drain.at = "idle" THEN drain' = [NoDrain EXCEPT !.at = "repair"] ELSE UNCHANGED drain
    /\ UNCHANGED <<rowVars, queueVars, sched, run, guarded, recoverers, paused, faults>>

\* Variant: what was cut off by a restart is always taken for not started.
RepairRequeues ==
    /\ drain.at = "repair"
    /\ Save([m \in Chosen |-> IF state[m] = "starting" THEN "queued" ELSE state[m]])
    /\ At("look", Kick)
    /\ UNCHANGED <<rowVars, cancelled, calls, sched, run, guarded, recoverers, paused, faults>>

\* Only this loop moves an entry to starting, so one seen now was cut off.
Repair ==
    /\ drain.at = "repair"
    /\ Save([m \in Chosen |-> IF state[m] # "starting" THEN state[m]
                              ELSE IF phase[m] # "new" THEN "started" ELSE "queued"])
    /\ At("look", Kick)
    /\ UNCHANGED <<rowVars, cancelled, calls, sched, run, guarded, recoverers, paused, faults>>

\* The oldest queued entry, unless the Cable Club is busy: then an automatic
\* trade that only travels is read for setting it aside.
Look ==
    LET queued == {m \in Chosen : state[m] = "queued"}
        travelling == {t \in Open \cap Automatic : decision[t] = "none" /\ phase[t] = "preparing"}
    IN
    /\ drain.at = "look"
    /\ \/ (paused # "no" \/ queued = {}) /\ Leave
       \/ /\ paused = "no" /\ queued # {} /\ Busy
          /\ IF travelling = {} THEN Leave
             ELSE GuardFree /\ \E t \in travelling : At("set_aside", t)
       \/ /\ paused = "no" /\ ~Busy
          /\ \E m \in queued : (\A k \in queued : m <= k) /\ At("claim", m)
    /\ UNCHANGED <<rowVars, queueVars, calls, sched, run, guarded, recoverers, paused, faults>>

SetAside ==
    /\ drain.at = "set_aside"
    /\ Abort(drain.m) /\ Leave
    /\ UNCHANGED <<queueVars, calls, sched, run, guarded, recoverers, paused, faults>>

\* Variant: the entry read before is taken without looking at it again.
ClaimAnyway ==
    /\ drain.at = "claim"
    /\ Update(drain.m, "starting") /\ At("propose", drain.m)
    /\ UNCHANGED <<rowVars, cancelled, calls, sched, run, guarded, recoverers, paused, faults>>

Claim ==
    /\ drain.at = "claim"
    /\ IF state[drain.m] = "queued"
         THEN Update(drain.m, "starting") /\ At("propose", drain.m)
         ELSE UNCHANGED state /\ At("look", Kick)
    /\ UNCHANGED <<rowVars, cancelled, calls, sched, run, guarded, recoverers, paused, faults>>

\* propose answers with the new row ...
ProposeCreates ==
    /\ drain.at = "propose" /\ GuardFree /\ paused = "no"
    /\ Create(drain.m) /\ At("created", drain.m)
    /\ UNCHANGED <<queueVars, calls, sched, run, guarded, recoverers, paused, faults>>

\* Variant: an entry that has to wait is passed over.
ProposeSkips ==
    /\ drain.at = "propose"
    /\ \/ (paused # "no" \/ Open # {}) /\ UNCHANGED faults
       \/ Fault
    /\ Update(drain.m, "queued")
    /\ \/ \E k \in Chosen : k > drain.m /\ state[k] = "queued" /\ At("claim", k)
       \/ Leave
    /\ UNCHANGED <<rowVars, cancelled, calls, sched, run, guarded, recoverers, paused>>

\* ... or Waiting, when an adventure is held or another row came first ...
ProposeWaits ==
    /\ drain.at = "propose"
    /\ \/ (paused # "no" \/ Open # {}) /\ UNCHANGED faults
       \/ Fault
    /\ Update(drain.m, "queued") /\ Leave
    /\ UNCHANGED <<rowVars, cancelled, calls, sched, run, guarded, recoverers, paused>>

\* ... or says why this trade cannot be: the Pokemon left, an adventure stopped.
ProposeRejects ==
    /\ drain.at = "propose"
    /\ Update(drain.m, "rejected") /\ At("look", Kick)
    /\ UNCHANGED <<rowVars, cancelled, calls, sched, run, guarded, recoverers, paused, faults>>

\* Variant: a cancel that came while the trade was starting is not looked for.
StartedAnyway ==
    /\ drain.at = "created"
    /\ Update(drain.m, "started")
    /\ At("execute", drain.m)
    /\ UNCHANGED <<rowVars, cancelled, calls, sched, run, guarded, recoverers, paused, faults>>

Started ==
    /\ drain.at = "created"
    /\ Update(drain.m, "started")
    /\ At(IF drain.m \in cancelled THEN "cancel" ELSE "execute", drain.m)
    /\ UNCHANGED <<rowVars, cancelled, calls, sched, run, guarded, recoverers, paused, faults>>

\* execute gives the row back as it is when the execution lock is taken.
DrainExecutes ==
    /\ drain.at = "execute"
    /\ drain' = [drain EXCEPT !.at = IF executing = NoRow /\ drain.m \in Open THEN "running" ELSE "look",
                              !.last = TRUE]
    /\ IF executing = NoRow /\ drain.m \in Open
         THEN Begin(drain.m) /\ run' = [by |-> "drain", done |-> FALSE]
         ELSE UNCHANGED <<rowVars, run>>
    /\ UNCHANGED <<queueVars, calls, sched, guarded, recoverers, paused, faults>>

\* cancel: at once when the row is resolved, else through recover_one.
DrainCancels ==
    /\ drain.at = "cancel" /\ GuardFree
    /\ IF drain.m \in Open
         THEN Abort(drain.m) /\ At("recover", drain.m)
         ELSE UNCHANGED rowVars /\ drain' = [drain EXCEPT !.at = "look", !.last = TRUE]
    /\ UNCHANGED <<queueVars, calls, sched, run, guarded, recoverers, paused, faults>>

DrainRecovers ==
    /\ drain.at = "recover"
    /\ Begin(drain.m) /\ run' = [by |-> "drain", done |-> phase[drain.m] = "resolved"]
    /\ drain' = [drain EXCEPT !.at = "running", !.last = TRUE]
    /\ UNCHANGED <<queueVars, calls, sched, guarded, recoverers, paused, faults>>

\* The lock is given back; a scheduler's pass that drained goes on when its
\* trade waits for a held adventure and nothing else runs.
DrainLeaves ==
    /\ drain.at = "leave"
    /\ drain' = NoDrain
    /\ IF drain.by = "scheduler"
         THEN sched' = IF sched.at = "drain" /\ ~drain.last /\ Waiting # {} /\ ~Busy
                         THEN [NoPass EXCEPT !.at = "score", !.seen = Waiting] ELSE NoPass
         ELSE UNCHANGED sched
    /\ UNCHANGED <<rowVars, queueVars, calls, run, guarded, recoverers, paused, faults>>

------------------------------------------------------------------------------
(* The scheduler's pass. *)

\* Variant: the pass counts on the end of each exchange to wake the queue.
PassLeavesQueue ==
    /\ sched.at = "idle" /\ paused = "no" /\ ~Busy /\ Waiting # {}
    /\ sched' = [NoPass EXCEPT !.at = "score", !.seen = Waiting]
    /\ UNCHANGED <<rowVars, queueVars, drain, calls, run, guarded, recoverers, paused, faults>>

\* Chosen trades first: the pass runs the drain itself, or finds it running.
PassDrains ==
    /\ sched.at = "idle" /\ paused = "no" /\ ~Busy /\ Waiting # {}
    /\ IF drain.at = "idle"
         THEN /\ drain' = [NoDrain EXCEPT !.at = "repair", !.by = "scheduler"]
              /\ sched' = [NoPass EXCEPT !.at = "drain"]
         ELSE /\ sched' = [NoPass EXCEPT !.at = "score", !.seen = Waiting]
              /\ UNCHANGED drain
    /\ UNCHANGED <<rowVars, queueVars, calls, run, guarded, recoverers, paused, faults>>

PassScores ==
    /\ sched.at = "idle" /\ paused = "no" /\ ~Busy /\ Waiting = {}
    /\ sched' = [NoPass EXCEPT !.at = "score"]
    /\ UNCHANGED <<rowVars, queueVars, drain, calls, run, guarded, recoverers, paused, faults>>

\* Variant: only entries still in line keep their adventures to themselves.
PassPicksQueued ==
    /\ sched.at = "score"
    /\ \/ sched' = NoPass
       \/ \E t \in Automatic :
            /\ phase[t] = "new" /\ \A m \in Waiting : state[m] = "queued" => Pair[m] \cap Pair[t] = {}
            /\ sched' = [sched EXCEPT !.at = "check", !.t = t]
    /\ UNCHANGED <<rowVars, queueVars, drain, calls, run, guarded, recoverers, paused, faults>>

\* The best candidate, none of whose adventures has a chosen trade in line.
PassPicks ==
    /\ sched.at = "score"
    /\ \/ sched' = NoPass
       \/ \E t \in Automatic :
            /\ phase[t] = "new" /\ \A m \in Waiting : Pair[m] \cap Pair[t] = {}
            /\ sched' = [sched EXCEPT !.at = "check", !.t = t]
    /\ UNCHANGED <<rowVars, queueVars, drain, calls, run, guarded, recoverers, paused, faults>>

\* A chosen trade that arrived while candidates were scored goes first.
PassChecks ==
    /\ sched.at = "check"
    /\ IF Waiting \subseteq sched.seen
         THEN sched' = [sched EXCEPT !.at = "create"] /\ UNCHANGED drain
         ELSE IF drain.at = "idle"
           THEN /\ drain' = [NoDrain EXCEPT !.at = "repair", !.by = "scheduler"]
                /\ sched' = [NoPass EXCEPT !.at = "redrain"]
           ELSE sched' = NoPass /\ UNCHANGED drain
    /\ UNCHANGED <<rowVars, queueVars, calls, run, guarded, recoverers, paused, faults>>

\* propose reads two inventories and may find the pair ineligible by then.
PassCreates ==
    /\ sched.at = "create"
    /\ \/ /\ GuardFree /\ paused = "no" /\ Create(sched.t)
          /\ sched' = [sched EXCEPT !.at = "execute"]
       \/ sched' = NoPass /\ UNCHANGED rowVars
    /\ UNCHANGED <<queueVars, drain, calls, run, guarded, recoverers, paused, faults>>

PassExecutes ==
    /\ sched.at = "execute"
    /\ IF executing = NoRow /\ sched.t \in Open
         THEN /\ Begin(sched.t) /\ run' = [by |-> "scheduler", done |-> FALSE]
              /\ sched' = [sched EXCEPT !.at = "running"]
         ELSE sched' = NoPass /\ UNCHANGED <<rowVars, run>>
    /\ UNCHANGED <<queueVars, drain, calls, guarded, recoverers, paused, faults>>

------------------------------------------------------------------------------
(* Recoveries. *)

\* recover_one once the execution lock is free.
RecoverOne(t) ==
    /\ t \in recoverers
    /\ Begin(t) /\ run' = [by |-> "recovery", done |-> phase[t] = "resolved"]
    /\ recoverers' = recoverers \ {t}
    /\ UNCHANGED <<queueVars, drain, calls, sched, guarded, paused, faults>>

\* The newest open row, if it is to be recovered. Row numbers do not say which of
\* several open rows is the newest: it may be any.
PassRecovers(t) ==
    /\ sched.at = "idle" /\ paused = "no" /\ phase[t] = "recovering"
    /\ Begin(t) /\ run' = [by |-> "recovery", done |-> FALSE]
    /\ UNCHANGED <<queueVars, drain, calls, sched, guarded, recoverers, paused, faults>>

------------------------------------------------------------------------------
(* Under the execution lock. *)

Executor == run.by \in {"drain", "scheduler"} /\ ~run.done

\* The exchange is carried out; only execute takes it to its commit.
Connects ==
    /\ Executor /\ decision[executing] = "none" /\ phase[executing] = "preparing"
    /\ Advance(executing)
    /\ UNCHANGED <<queueVars, drain, calls, sched, run, guarded, recoverers, paused, faults>>

Commits ==
    /\ Executor /\ GuardFree /\ paused # "closed"
    /\ phase[executing] = "active"
    /\ CommitRow(executing)
    /\ UNCHANGED <<queueVars, drain, calls, sched, run, guarded, recoverers, paused, faults>>

\* The exchange failed, or a recovery finds it undecided.
Aborts ==
    /\ executing # NoRow /\ ~run.done /\ decision[executing] = "none"
    /\ Abort(executing)
    /\ UNCHANGED <<queueVars, drain, calls, sched, run, guarded, recoverers, paused, faults>>

Resolves ==
    /\ executing # NoRow /\ ~run.done
    /\ Resolve(executing)
    /\ run' = [run EXCEPT !.done = TRUE]
    /\ UNCHANGED <<queueVars, drain, calls, sched, guarded, recoverers, paused, faults>>

\* The executing thread goes on; execute wakes the queue, recover_one does not.
ThreadReturns ==
    /\ run' = Nobody
    /\ drain' = IF run.by = "drain" THEN [drain EXCEPT !.at = "look", !.m = Kick] ELSE drain
    /\ sched' = IF run.by = "scheduler" THEN NoPass ELSE sched
    /\ calls' = IF run.by = "scheduler" /\ paused # "closed" /\ drain.at = "idle" /\ Waiting # {}
                   THEN calls \cup {Kick} ELSE calls

Ends ==
    /\ run.done /\ Release /\ ThreadReturns
    /\ UNCHANGED <<queueVars, guarded, recoverers, paused, faults>>

\* A request went unanswered, or settling an adventure failed.
Parks ==
    /\ executing # NoRow /\ decision[executing] # "none"
    /\ Fault
    /\ Park(executing) /\ ThreadReturns
    /\ UNCHANGED <<queueVars, guarded, recoverers, paused>>

------------------------------------------------------------------------------
(* Maintenance, shutdown and restart. *)

Suspend ==
    /\ paused = "no" /\ Fault /\ paused' = "suspended"
    /\ UNCHANGED <<rowVars, queueVars, drain, calls, sched, run, guarded, recoverers>>

Resume ==
    /\ paused = "suspended" /\ paused' = "no"
    /\ UNCHANGED <<rowVars, queueVars, drain, calls, sched, run, guarded, recoverers, faults>>

Close ==
    /\ paused # "closed" /\ Fault /\ paused' = "closed"
    /\ UNCHANGED <<rowVars, queueVars, drain, calls, sched, run, guarded, recoverers>>

\* All threads are gone; the start recovers every row that is not resolved.
Restart ==
    /\ \/ paused = "closed" /\ UNCHANGED faults
       \/ paused # "closed" /\ Fault
    /\ IF executing = NoRow THEN UNCHANGED rowVars ELSE Release
    /\ drain' = NoDrain /\ calls' = {} /\ sched' = NoPass
    /\ run' = Nobody /\ guarded' = NoRow /\ recoverers' = Open /\ paused' = "no"
    /\ UNCHANGED queueVars

------------------------------------------------------------------------------

DrainStep ==
    \/ Repair \/ Look \/ SetAside \/ Claim
    \/ ProposeCreates \/ ProposeWaits \/ ProposeRejects
    \/ Started \/ DrainExecutes \/ DrainCancels \/ DrainRecovers \/ DrainLeaves

PassMoves == PassDrains \/ PassScores \/ PassPicks \/ PassChecks \/ PassCreates \/ PassExecutes

PassStep == PassMoves \/ \E t \in Row : PassRecovers(t)

RunStep == Connects \/ Commits \/ Aborts \/ Resolves \/ Ends

QueueNext ==
    \/ \E m \in Chosen : Enqueue(m) \/ CancelQueued(m) \/ CancelStarting(m)
    \/ \E t \in Row : CancelReads(t) \/ CancelWrites(t) \/ OwnerRecovers(t) \/ RecoverOne(t)
    \/ \E c \in Chosen \cup {Kick} : Call(c)
    \/ DrainStep \/ PassStep \/ RunStep \/ Parks
    \/ Suspend \/ Resume \/ Close \/ Restart

QueueSpec == QueueInit /\ [][QueueNext]_vars

------------------------------------------------------------------------------
(* What the owner can rely on. *)

\* A chosen trade has a row exactly from the moment it starts: no row of an
\* entry still in line, cancelled or rejected, and none missing once it started;
\* an entry in between is in the hands of the drain, or the next drain repairs it.
RowsFollowEntries ==
    \A m \in Chosen :
        /\ phase[m] # "new" => state[m] \in {"starting", "started", "dropped"}
        /\ state[m] = "started" => phase[m] # "new"
        /\ state[m] = "starting" => drain.m = m \/ drain.at \in {"idle", "repair"}

\* "Cancel a chosen trade before it commits": a cancel accepted while the trade
\* was starting is honoured, through restarts and the repair of the queue.
CancelIsHonoured ==
    \A m \in cancelled : decision[m] # "COMMIT"

\* "Run queued manual trades in order": no chosen trade starts while one that
\* the owner queued before it is still in line.
InOrder ==
    [][\A m, k \in Chosen :
          k < m /\ phase[m] = "new" /\ phase'[m] # "new" => state[k] # "queued"]_vars

\* An entry that left the line never comes back into it: a cancelled trade stays
\* cancelled though the drain had read it before, and none runs a second time.
EndedStays ==
    [][\A m \in Chosen :
          state[m] \notin WaitingStates \cup {"none"} => state'[m] \in {state[m], "dropped"}]_vars

\* An entry leaves the line in a step of its own: another's end, its pruning of the
\* finished ones, a new entry or a repair never takes it out.
LeavesAlone ==
    [][\A m \in Waiting \ Waiting' : \A k \in Chosen \ {m} :
          state'[k] = state[k] \/ (state[k] \in EndedStates /\ state'[k] = "dropped")]_vars

\* Automatic trading takes no adventure of a chosen trade that was in line when
\* its pass began and still is.
AutomaticLeavesChosen ==
    [][\A t \in Automatic : phase[t] = "new" /\ phase'[t] # "new" =>
          \A m \in sched.seen \cap Waiting : Pair[m] \cap Pair[t] = {}]_vars

\* "A chosen trade that waits comes before any new automatic trade for its two
\* adventures" (a comment of schedule_once).
ChosenComesFirst ==
    [][\A t \in Automatic : phase[t] = "new" /\ phase'[t] # "new" =>
          \A m \in Waiting : Pair[m] \cap Pair[t] = {}]_vars

------------------------------------------------------------------------------
(* Progress: threads run, waits end, and maintenance ends. The pass is sure to recover *)
(* a row only when every open row, and so the newest, is to be recovered.             *)

Fairness ==
    /\ WF_vars(DrainStep) /\ WF_vars(RunStep)
    /\ WF_vars(PassMoves \/ ((\A k \in Open : phase[k] = "recovering") /\ \E t \in Row : PassRecovers(t)))
    /\ \A t \in Row : WF_vars(RecoverOne(t)) /\ WF_vars(CancelWrites(t))
    /\ \A c \in Chosen \cup {Kick} : WF_vars(Call(c))
    /\ WF_vars(Resume) /\ WF_vars(paused = "closed" /\ Restart)

FairQueueSpec == QueueSpec /\ Fairness

\* A chosen trade leaves the line in the end, without anyone asking again,
\* unless a row that nobody executes keeps the Cable Club busy.
QueueMoves ==
    \A m \in Chosen : m \in Waiting ~> m \notin Waiting \/ \E t \in Row : Abandoned(t)
==============================================================================
