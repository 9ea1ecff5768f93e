-------------------------- MODULE ManualQueueProofs --------------------------
(* What is proved of ManualQueue for every number of chosen trades, every set *)
(* of automatic rows and every assignment of adventures to them, and of the   *)
(* rows it writes for whoever keeps to their protocol.                        *)
EXTENDS ManualQueue, TLAPS

------------------------------------------------------------------------------
(* The inductive invariant. *)

\* What is executed, picked or proposed is a row of its kind.
RowsFit ==
    /\ executing # NoRow => phase[executing] # "new"
    /\ executing = NoRow => run.by = "nobody"
    /\ sched.at \in {"check", "create", "execute"} => sched.t \in Automatic
    /\ drain.at = "set_aside" => drain.m \in Automatic

\* Where the drain is with its entry: in line, then starting, then over.
DrainFits ==
    /\ drain.at \in {"claim", "propose", "created", "execute", "cancel", "recover"} => drain.m \in Chosen
    /\ drain.at = "claim" => state[drain.m] # "none"
    /\ drain.at = "propose" => state[drain.m] = "starting" /\ phase[drain.m] = "new"
    /\ drain.at = "created" => state[drain.m] = "starting" /\ phase[drain.m] # "new"
    /\ drain.at \in {"execute", "cancel", "recover"} => state[drain.m] \in {"started", "dropped"}
    /\ run.by = "drain" => drain.at = "running"

\* Only the drain starts an entry, and a row stands for every entry that started.
EntriesFit ==
    \A m \in Chosen :
        /\ phase[m] # "new" => state[m] \in {"starting", "started", "dropped"}
        /\ state[m] = "started" => phase[m] # "new"
        /\ state[m] = "starting" =>
              \/ drain.at \in {"propose", "created"} /\ drain.m = m
              \/ drain.at \in {"idle", "repair"}

\* A chosen trade is carried out only after its entry has started, and not when
\* it was cancelled before.
CancelFits ==
    /\ \A m \in Chosen : decision[m] = "COMMIT" => m \notin cancelled /\ state[m] \in {"started", "dropped"}
    /\ drain.at = "execute" => drain.m \notin cancelled
    /\ drain.at = "recover" => decision[drain.m] = "ABORT"
    /\ executing \in Chosen /\ run.by \in {"drain", "scheduler"} =>
          /\ state[executing] \in {"started", "dropped"}
          /\ executing \in cancelled => decision[executing] = "ABORT"

\* Entries are enqueued in the order of their numbers; the drain takes the oldest.
OrderFits ==
    /\ \A m, k \in Chosen : k < m /\ state[m] # "none" => state[k] # "none"
    /\ drain.at \in {"claim", "propose"} => \A k \in Chosen : k < drain.m => state[k] # "queued"

\* What the pass picked shares no adventure with what it saw in line.
PassFits ==
    /\ \A m \in sched.seen : state[m] # "none"
    /\ sched.at \in {"check", "create"} =>
          \A m \in sched.seen \cap Waiting : Pair[m] \cap Pair[sched.t] = {}

QueueInv == QueueTypeOK /\ RowsFit /\ DrainFits /\ EntriesFit /\ CancelFits /\ OrderFits /\ PassFits
------------------------------------------------------------------------------
(* How the parts of a step change the state. *)

States == WaitingStates \cup EndedStates \cup {"none", "dropped"}
Drains == [at : {"idle", "repair", "look", "set_aside", "claim", "propose", "created",
                 "execute", "cancel", "recover", "running", "leave"},
           m : Row \cup {Kick}, last : BOOLEAN, by : {"thread", "scheduler"}]
Passes == [at : {"idle", "drain", "redrain", "score", "check", "create", "execute", "running"},
           seen : SUBSET Chosen, t : Automatic \cup {NoRow}]

\* An entry that ended may be dropped, every other is what was saved.
Follows(new) ==
    /\ state' \in [Chosen -> States]
    /\ \A k \in Chosen : \/ state'[k] = new[k]
                         \/ new[k] \in EndedStates /\ state'[k] = "dropped"

LEMMA SaveMoves ==
    ASSUME NEW new \in [Chosen -> States], Save(new)
    PROVE  Follows(new)
<1> DEFINE ended == {m \in Chosen : new[m] \in EndedStates}
           old == {m \in ended : Cardinality({k \in ended : k > m}) >= KeepManual}
<1>1. \A m \in Chosen : state'[m] = IF m \in old THEN "dropped" ELSE new[m]
  BY DEF Save
<1>2. \A m \in old : new[m] \in EndedStates
  OBVIOUS
<1>3. state' \in [Chosen -> States]
  BY DEF Save, States
<1> HIDE DEF old
<1> QED
  BY <1>1, <1>2, <1>3 DEF Follows

LEMMA UpdateMoves ==
    ASSUME QueueTypeOK, NEW m \in Chosen, NEW s \in WaitingStates \cup EndedStates, Update(m, s)
    PROVE  /\ state' \in [Chosen -> States]
           /\ state'[m] \in {s, "dropped"}
           /\ s \in WaitingStates => state'[m] = s
           /\ \A k \in Chosen : k # m => \/ state'[k] = state[k]
                                         \/ state[k] \in EndedStates /\ state'[k] = "dropped"
<1> DEFINE new == [state EXCEPT ![m] = s]
<1>1. new \in [Chosen -> States] /\ new[m] = s /\ \A k \in Chosen : k # m => new[k] = state[k]
  BY DEF QueueTypeOK, States
<1>2. Save(new)
  BY DEF Update
<1> HIDE DEF new
<1>3. Follows(new)
  BY <1>1, <1>2, SaveMoves
<1> QED
  BY <1>1, <1>3 DEF Follows, WaitingStates, EndedStates

LEMMA AtMoves ==
    ASSUME QueueTypeOK,
           NEW place \in {"look", "set_aside", "claim", "propose", "created", "execute", "cancel", "recover"},
           NEW m \in Row \cup {Kick}, At(place, m)
    PROVE  drain' \in Drains /\ drain'.at = place /\ drain'.m = m
  BY DEF QueueTypeOK, Drains, At

LEMMA LeaveMoves ==
    ASSUME QueueTypeOK, Leave
    PROVE  drain' \in Drains /\ drain'.at = "leave"
  BY DEF QueueTypeOK, Drains, Leave

LEMMA LookMoves ==
    ASSUME QueueInv, Look
    PROVE  /\ UNCHANGED <<rowVars, queueVars, calls, sched, run, guarded, recoverers, paused, faults>>
           /\ run.by # "drain" /\ drain' \in Drains
           /\ \/ drain'.at = "leave"
              \/ drain'.at = "set_aside" /\ drain'.m \in Automatic
              \/ /\ drain'.at = "claim" /\ drain'.m \in Chosen /\ state[drain'.m] = "queued"
                 /\ \A k \in Chosen : state[k] = "queued" => drain'.m <= k
<1>1. /\ QueueTypeOK /\ run.by # "drain"
      /\ UNCHANGED <<rowVars, queueVars, calls, sched, run, guarded, recoverers, paused, faults>>
  BY DEF Look, QueueInv, DrainFits
<1>2. \/ Leave
      \/ \E t \in Automatic : At("set_aside", t)
      \/ \E m \in Chosen : /\ state[m] = "queued" /\ \A k \in Chosen : state[k] = "queued" => m <= k
                           /\ At("claim", m)
  BY DEF Look
<1>3. CASE Leave
  BY <1>1, <1>3, LeaveMoves
<1>4. ASSUME NEW t \in Automatic, At("set_aside", t)
      PROVE  drain' \in Drains /\ drain'.at = "set_aside" /\ drain'.m = t
  <2>1. t \in Row \cup {Kick}
    BY RowsAssumption
  <2> QED
    BY <1>1, <1>4, <2>1, AtMoves
<1>5. ASSUME NEW m \in Chosen, At("claim", m)
      PROVE  drain' \in Drains /\ drain'.at = "claim" /\ drain'.m = m
  <2>1. m \in Row \cup {Kick}
    BY RowsAssumption
  <2> QED
    BY <1>1, <1>5, <2>1, AtMoves
<1> QED
  BY <1>1, <1>2, <1>3, <1>4, <1>5

LEMMA ClaimMoves ==
    ASSUME QueueInv, Claim
    PROVE  /\ UNCHANGED <<rowVars, cancelled, calls, sched, run, guarded, recoverers, paused, faults>>
           /\ drain.m \in Chosen /\ run.by # "drain" /\ drain' \in Drains
           /\ \A k \in Chosen : k < drain.m => state[k] # "queued"
           /\ \/ /\ drain'.at = "propose" /\ drain'.m = drain.m /\ state[drain.m] = "queued"
                 /\ state' \in [Chosen -> States] /\ state'[drain.m] = "starting"
                 /\ \A k \in Chosen : k # drain.m => \/ state'[k] = state[k]
                                                     \/ state[k] \in EndedStates /\ state'[k] = "dropped"
              \/ UNCHANGED state /\ drain'.at = "look"
<1>1. /\ drain.m \in Chosen /\ drain.m \in Row \cup {Kick} /\ QueueTypeOK /\ run.by # "drain"
      /\ \A k \in Chosen : k < drain.m => state[k] # "queued"
      /\ UNCHANGED <<rowVars, cancelled, calls, sched, run, guarded, recoverers, paused, faults>>
  BY RowsAssumption DEF Claim, QueueInv, DrainFits, OrderFits
<1>2. CASE state[drain.m] = "queued"
  <2>1. Update(drain.m, "starting") /\ At("propose", drain.m)
    BY <1>2 DEF Claim
  <2>2. drain' \in Drains /\ drain'.at = "propose" /\ drain'.m = drain.m
    BY <1>1, <2>1, AtMoves
  <2>3. "starting" \in WaitingStates
    BY DEF WaitingStates
  <2>4. /\ state' \in [Chosen -> States] /\ state'[drain.m] = "starting"
        /\ \A k \in Chosen : k # drain.m => \/ state'[k] = state[k]
                                            \/ state[k] \in EndedStates /\ state'[k] = "dropped"
    BY <1>1, <2>1, <2>3, UpdateMoves
  <2> QED
    BY <1>1, <1>2, <2>2, <2>4
<1>3. CASE state[drain.m] # "queued"
  <2>1. UNCHANGED state /\ At("look", Kick)
    BY <1>3 DEF Claim
  <2> QED
    BY <1>1, <2>1, AtMoves
<1> QED
  BY <1>2, <1>3

LEMMA ReturnMoves ==
    ASSUME QueueInv, ThreadReturns
    PROVE  /\ run' = Nobody /\ drain' \in Drains /\ sched' \in Passes
           /\ calls' \subseteq Chosen \cup {Kick}
           /\ \/ UNCHANGED drain
              \/ drain.at = "running" /\ drain'.at = "look"
<1>1. run' = Nobody /\ calls' \subseteq Chosen \cup {Kick}
  BY DEF QueueInv, QueueTypeOK, ThreadReturns
<1>2. CASE run.by = "drain"
  BY <1>1, <1>2 DEF QueueInv, QueueTypeOK, DrainFits, ThreadReturns, Drains, Passes
<1>3. CASE run.by = "scheduler"
  BY <1>1, <1>3 DEF QueueInv, QueueTypeOK, ThreadReturns, NoPass, Drains, Passes
<1>4. CASE run.by \notin {"drain", "scheduler"}
  BY <1>1, <1>4 DEF QueueInv, QueueTypeOK, ThreadReturns, Drains, Passes
<1> QED
  BY <1>2, <1>3, <1>4

------------------------------------------------------------------------------
(* Every step keeps the invariant. *)

LEMMA EnqueueKeeps ==
    ASSUME QueueInv, NEW m \in Chosen, Enqueue(m)
    PROVE  QueueInv'
<1>1. QueueTypeOK'
  BY DEF QueueInv, Enqueue, QueueTypeOK, Update, rowVars, RowTypeOK, WaitingStates, Save
<1>2. RowsFit' /\ DrainFits' /\ EntriesFit' /\ CancelFits'
  BY DEF QueueInv, Enqueue, RowsFit, Update, rowVars, Save, EndedStates, DrainFits, EntriesFit,
     CancelFits
<1>3. OrderFits'
  BY DEF QueueInv, Enqueue, DrainFits, OrderFits, Update, EndedStates, Save
<1>4. PassFits'
  BY DEF QueueInv, Enqueue, PassFits, QueueTypeOK, Update, Waiting, WaitingStates, Save
<1> QED
  BY <1>1, <1>2, <1>3, <1>4 DEF QueueInv

LEMMA CancelQueuedKeeps ==
    ASSUME QueueInv, NEW m \in Chosen, CancelQueued(m)
    PROVE  QueueInv'
<1>1. QueueTypeOK'
  BY DEF QueueInv, CancelQueued, QueueTypeOK, Update, rowVars, RowTypeOK, EndedStates, Save
<1>2. RowsFit' /\ DrainFits' /\ EntriesFit' /\ CancelFits' /\ OrderFits'
  BY DEF QueueInv, CancelQueued, RowsFit, Update, rowVars, Save, EndedStates, DrainFits,
     EntriesFit,
     CancelFits, OrderFits
<1>3. PassFits'
  BY DEF QueueInv, CancelQueued, PassFits, QueueTypeOK, Update, Waiting, WaitingStates, Save
<1> QED
  BY <1>1, <1>2, <1>3 DEF QueueInv

LEMMA CancelStartingKeeps ==
    ASSUME QueueInv, NEW m \in Chosen, CancelStarting(m)
    PROVE  QueueInv'
<1>1. QueueTypeOK'
  BY DEF QueueInv, CancelStarting, QueueTypeOK, rowVars, RowTypeOK
<1>2. RowsFit' /\ DrainFits' /\ EntriesFit' /\ OrderFits' /\ PassFits'
  BY DEF QueueInv, CancelStarting, RowsFit, rowVars, DrainFits, EntriesFit, OrderFits, PassFits,
     Waiting
<1>3. CancelFits'
  BY DEF QueueInv, CancelStarting, DrainFits, CancelFits, rowVars
<1> QED
  BY <1>1, <1>2, <1>3 DEF QueueInv

LEMMA CancelReadsKeeps ==
    ASSUME QueueInv, NEW t \in Row, CancelReads(t)
    PROVE  QueueInv'
<1>1. QueueTypeOK'
  BY FaultsAssumption DEF QueueInv, CancelReads, QueueTypeOK, Fault, rowVars, queueVars,
     RowTypeOK
<1>2. RowsFit' /\ DrainFits' /\ EntriesFit' /\ CancelFits' /\ OrderFits' /\ PassFits'
  BY DEF QueueInv, CancelReads, RowsFit, rowVars, queueVars, DrainFits, EntriesFit, CancelFits,
     OrderFits, PassFits, Waiting
<1> QED
  BY <1>1, <1>2 DEF QueueInv

LEMMA CancelWritesKeeps ==
    ASSUME QueueInv, NEW t \in Row, CancelWrites(t)
    PROVE  QueueInv'
<1>1. QueueTypeOK'
  BY DEF QueueInv, CancelWrites, QueueTypeOK, Abort, queueVars, RowTypeOK
<1>2. RowsFit' /\ DrainFits' /\ EntriesFit' /\ CancelFits' /\ OrderFits' /\ PassFits'
  BY DEF QueueInv, CancelWrites, RowsFit, Abort, queueVars, DrainFits, EntriesFit, CancelFits,
     OrderFits,
     PassFits, Waiting
<1> QED
  BY <1>1, <1>2 DEF QueueInv

LEMMA OwnerRecoversKeeps ==
    ASSUME QueueInv, NEW t \in Row, OwnerRecovers(t)
    PROVE  QueueInv'
<1>1. QueueTypeOK'
  BY FaultsAssumption DEF QueueInv, OwnerRecovers, QueueTypeOK, Fault, rowVars, queueVars,
     RowTypeOK
<1>2. RowsFit' /\ DrainFits' /\ EntriesFit' /\ CancelFits' /\ OrderFits' /\ PassFits'
  BY DEF QueueInv, OwnerRecovers, RowsFit, rowVars, queueVars, DrainFits, EntriesFit,
     CancelFits,
     OrderFits, PassFits, Waiting
<1> QED
  BY <1>1, <1>2 DEF QueueInv

LEMMA RecoverOneKeeps ==
    ASSUME QueueInv, NEW t \in Row, RecoverOne(t)
    PROVE  QueueInv'
<1>1. QueueTypeOK'
  BY DEF QueueInv, RecoverOne, QueueTypeOK, Begin, queueVars, RowTypeOK
<1>2. RowsFit'
  BY NoRowAssumption DEF QueueInv, RecoverOne, RowsFit, Begin
<1>3. DrainFits' /\ EntriesFit' /\ CancelFits' /\ OrderFits' /\ PassFits'
  BY DEF QueueInv, RecoverOne, DrainFits, Begin, queueVars, EntriesFit, CancelFits, OrderFits,
     PassFits,
     Waiting
<1> QED
  BY <1>1, <1>2, <1>3 DEF QueueInv

LEMMA PassRecoversKeeps ==
    ASSUME QueueInv, NEW t \in Row, PassRecovers(t)
    PROVE  QueueInv'
<1>1. QueueTypeOK'
  BY DEF QueueInv, PassRecovers, QueueTypeOK, Begin, queueVars, RowTypeOK
<1>2. RowsFit'
  BY NoRowAssumption DEF QueueInv, PassRecovers, RowsFit, Begin
<1>3. DrainFits' /\ EntriesFit' /\ CancelFits' /\ OrderFits' /\ PassFits'
  BY DEF QueueInv, PassRecovers, DrainFits, Begin, queueVars, EntriesFit, CancelFits, OrderFits,
     PassFits
<1> QED
  BY <1>1, <1>2, <1>3 DEF QueueInv

LEMMA CallKeeps ==
    ASSUME QueueInv, NEW c \in Chosen \cup {Kick}, Call(c)
    PROVE  QueueInv'
<1>1. QueueTypeOK'
  <2>1. CASE drain.at = "idle"
    BY <2>1
    DEF QueueInv, Call, QueueTypeOK, RowTypeOK, Chosen, WaitingStates, EndedStates, NoDrain, rowVars,
       queueVars, Kick
  <2>2. CASE drain.at # "idle"
    BY <2>2 DEF QueueInv, Call, QueueTypeOK, RowTypeOK, Chosen, WaitingStates, EndedStates,
       rowVars, queueVars
  <2> QED
    BY <2>1, <2>2
<1>2. RowsFit' /\ DrainFits' /\ EntriesFit' /\ CancelFits' /\ OrderFits' /\ PassFits'
  BY DEF QueueInv, Call, RowsFit, NoDrain, rowVars, queueVars, DrainFits, EntriesFit,
     CancelFits,
     OrderFits, PassFits, Waiting
<1> QED
  BY <1>1, <1>2 DEF QueueInv

LEMMA RepairKeeps ==
    ASSUME QueueInv, Repair
    PROVE  QueueInv'
<1>1. QueueTypeOK'
  BY DEF QueueInv, Repair, QueueTypeOK, Save, At, rowVars, RowTypeOK, WaitingStates, EndedStates
<1>2. RowsFit' /\ DrainFits' /\ EntriesFit' /\ CancelFits' /\ OrderFits'
  BY DEF QueueInv, Repair, RowsFit, Save, At, rowVars, EndedStates, DrainFits, EntriesFit,
     CancelFits,
     OrderFits
<1>3. PassFits'
  BY DEF QueueInv, Repair, PassFits, QueueTypeOK, Save, Waiting, WaitingStates
<1> QED
  BY <1>1, <1>2, <1>3 DEF QueueInv

LEMMA LookKeeps ==
    ASSUME QueueInv, Look
    PROVE  QueueInv'
<1>1. QueueTypeOK'
  BY LookMoves DEF QueueInv, QueueTypeOK, RowTypeOK, rowVars, queueVars, Drains
<1>2. RowsFit'
  BY DEF QueueInv, Look, RowsFit, QueueTypeOK, Open, Leave, Busy, GuardFree, At, rowVars
<1>3. DrainFits'
  BY LookMoves DEF QueueInv, DrainFits, rowVars, queueVars, Drains
<1>4. EntriesFit' /\ PassFits'
  BY DEF QueueInv, Look, EntriesFit, rowVars, queueVars, PassFits, Waiting
<1>5. CancelFits'
  BY DEF QueueInv, Look, CancelFits, QueueTypeOK, Leave, At, rowVars, queueVars
<1>6. OrderFits'
  BY LookMoves, RowsAssumption DEF QueueInv, QueueTypeOK, OrderFits, Chosen, queueVars, Drains
<1> QED
  BY <1>1, <1>2, <1>3, <1>4, <1>5, <1>6 DEF QueueInv

LEMMA SetAsideKeeps ==
    ASSUME QueueInv, SetAside
    PROVE  QueueInv'
<1>1. QueueTypeOK'
  BY DEF QueueInv, SetAside, QueueTypeOK, Abort, Leave, queueVars, RowTypeOK
<1>2. RowsFit' /\ DrainFits' /\ EntriesFit' /\ CancelFits' /\ OrderFits' /\ PassFits'
  BY DEF QueueInv, SetAside, RowsFit, Abort, Leave, queueVars, DrainFits, EntriesFit,
     CancelFits,
     OrderFits, PassFits, Waiting
<1> QED
  BY <1>1, <1>2 DEF QueueInv

LEMMA ClaimKeeps ==
    ASSUME QueueInv, Claim
    PROVE  QueueInv'
<1>1. QueueTypeOK'
  BY ClaimMoves DEF QueueInv, QueueTypeOK, RowTypeOK, rowVars, Drains, States
<1>2. RowsFit'
  BY DEF QueueInv, Claim, RowsFit, QueueTypeOK, At, rowVars, RowTypeOK
<1>3. DrainFits'
  BY ClaimMoves DEF QueueInv, DrainFits, EntriesFit, rowVars
<1>4. EntriesFit'
  BY ClaimMoves DEF QueueInv, EntriesFit, DrainFits, rowVars, EndedStates, Claim
<1>5. CancelFits'
  BY ClaimMoves DEF QueueInv, CancelFits, rowVars, EndedStates
<1>6. OrderFits'
  BY ClaimMoves DEF QueueInv, OrderFits, EndedStates, Chosen
<1>7. PassFits'
  BY ClaimMoves DEF QueueInv, PassFits, QueueTypeOK, Waiting, WaitingStates, EndedStates
<1> QED
  BY <1>1, <1>2, <1>3, <1>4, <1>5, <1>6, <1>7 DEF QueueInv

LEMMA ProposeCreatesKeeps ==
    ASSUME QueueInv, ProposeCreates
    PROVE  QueueInv'
<1>1. QueueTypeOK'
  BY DEF QueueInv, ProposeCreates, QueueTypeOK, Create, At, queueVars, RowTypeOK
<1>2. RowsFit' /\ CancelFits' /\ OrderFits' /\ PassFits'
  BY DEF QueueInv, ProposeCreates, RowsFit, Create, At, queueVars, CancelFits, OrderFits,
     PassFits, Waiting
<1>3. DrainFits'
  BY RowsAssumption DEF QueueInv, ProposeCreates, DrainFits, QueueTypeOK, Create, At, queueVars,
     RowTypeOK
<1>4. EntriesFit'
  BY DEF QueueInv, ProposeCreates, DrainFits, EntriesFit, Create, At, queueVars
<1> QED
  BY <1>1, <1>2, <1>3, <1>4 DEF QueueInv

LEMMA ProposeWaitsKeeps ==
    ASSUME QueueInv, ProposeWaits
    PROVE  QueueInv'
<1>1. QueueTypeOK'
  <2>1. drain.m \in Chosen /\ drain' = [drain EXCEPT !.at = "leave", !.m = Kick]
    BY DEF QueueInv, ProposeWaits, DrainFits, Leave
  <2>2. state' \in [Chosen -> States]
    BY <2>1, UpdateMoves DEF QueueInv, ProposeWaits, WaitingStates
  <2>3. faults' \in 0 .. MaxFaults
    BY FaultsAssumption DEF QueueInv, QueueTypeOK, ProposeWaits, Fault
  <2> QED
    BY <2>1, <2>2, <2>3 DEF QueueInv, ProposeWaits, QueueTypeOK, RowTypeOK, rowVars, Kick,
       States
<1>2. RowsFit' /\ DrainFits'
  BY DEF QueueInv, ProposeWaits, RowsFit, Leave, rowVars, DrainFits
<1>3. EntriesFit'
  BY DEF QueueInv, ProposeWaits, QueueTypeOK, DrainFits, EntriesFit, Update, rowVars, Save
<1>4. CancelFits'
  BY DEF QueueInv, ProposeWaits, DrainFits, CancelFits, Update, Leave, rowVars, Save
<1>5. OrderFits'
  BY DEF QueueInv, ProposeWaits, DrainFits, OrderFits, Update, Leave, EndedStates, Save
<1>6. PassFits'
  BY DEF QueueInv, ProposeWaits, QueueTypeOK, DrainFits, PassFits, Update, WaitingStates,
     Waiting, Save
<1> QED
  BY <1>1, <1>2, <1>3, <1>4, <1>5, <1>6 DEF QueueInv

LEMMA ProposeRejectsKeeps ==
    ASSUME QueueInv, ProposeRejects
    PROVE  QueueInv'
<1>1. QueueTypeOK'
  BY DEF QueueInv, ProposeRejects, QueueTypeOK, Update, At, rowVars, RowTypeOK, EndedStates,
     Save
<1>2. RowsFit' /\ DrainFits'
  BY DEF QueueInv, ProposeRejects, RowsFit, At, rowVars, DrainFits
<1>3. EntriesFit'
  BY DEF QueueInv, ProposeRejects, QueueTypeOK, DrainFits, EntriesFit, Update, rowVars, Save
<1>4. CancelFits'
  BY DEF QueueInv, ProposeRejects, DrainFits, CancelFits, Update, At, rowVars, Save
<1>5. OrderFits'
  BY DEF QueueInv, ProposeRejects, DrainFits, OrderFits, Update, At, EndedStates, Save
<1>6. PassFits'
  BY DEF QueueInv, ProposeRejects, PassFits, QueueTypeOK, Update, Waiting, WaitingStates, Save
<1> QED
  BY <1>1, <1>2, <1>3, <1>4, <1>5, <1>6 DEF QueueInv

LEMMA StartedKeeps ==
    ASSUME QueueInv, Started
    PROVE  QueueInv'
<1>1. QueueTypeOK'
  BY DEF QueueInv, Started, QueueTypeOK, Update, At, rowVars, RowTypeOK, EndedStates, Save
<1>2. RowsFit' /\ CancelFits'
  BY DEF QueueInv, Started, RowsFit, Update, At, rowVars, Save, CancelFits
<1>3. DrainFits'
  BY DEF QueueInv, Started, DrainFits, QueueTypeOK, Update, At, Save
<1>4. EntriesFit'
  BY DEF QueueInv, Started, QueueTypeOK, DrainFits, EntriesFit, Update, rowVars, Save
<1>5. OrderFits'
  BY DEF QueueInv, Started, DrainFits, OrderFits, Update, At, EndedStates, Save
<1>6. PassFits'
  BY DEF QueueInv, Started, PassFits, QueueTypeOK, Update, Waiting, WaitingStates, Save
<1> QED
  BY <1>1, <1>2, <1>3, <1>4, <1>5, <1>6 DEF QueueInv

LEMMA DrainExecutesKeeps ==
    ASSUME QueueInv, DrainExecutes
    PROVE  QueueInv'
<1>1. QueueTypeOK'
  <2>1. drain.m \in Chosen /\ drain.m \in Row
    BY RowsAssumption DEF QueueInv, DrainExecutes, DrainFits
  <2>2. RowTypeOK'
    BY <2>1 DEF QueueInv, DrainExecutes, Begin, QueueTypeOK, RowTypeOK, rowVars
  <2>3. drain' \in Drains
    BY DEF QueueInv, DrainExecutes, QueueTypeOK, Drains
  <2>4. run' \in [by : {"nobody", "drain", "scheduler", "recovery"}, done : BOOLEAN]
    <3>1. CASE executing = NoRow /\ drain.m \in Open
      <4>1. run' = [by |-> "drain", done |-> FALSE]
        BY <3>1 DEF DrainExecutes
      <4> QED
        BY <4>1
    <3>2. CASE ~(executing = NoRow /\ drain.m \in Open)
      BY <3>2 DEF QueueInv, DrainExecutes, QueueTypeOK
    <3> QED
      BY <3>1, <3>2
  <2> QED
    BY <2>2, <2>3, <2>4 DEF QueueInv, DrainExecutes, QueueTypeOK, queueVars, Drains
<1>2. RowsFit'
  BY RowsAssumption, NoRowAssumption DEF QueueInv, DrainExecutes, RowsFit, DrainFits, Begin,
     rowVars
<1>3. DrainFits' /\ EntriesFit' /\ OrderFits' /\ PassFits'
  BY DEF QueueInv, DrainExecutes, DrainFits, Begin, rowVars, queueVars, EntriesFit, OrderFits,
     PassFits,
     Waiting
<1>4. CancelFits'
  BY DEF QueueInv, DrainExecutes, DrainFits, CancelFits, Begin, rowVars, queueVars
<1> QED
  BY <1>1, <1>2, <1>3, <1>4 DEF QueueInv

LEMMA DrainCancelsKeeps ==
    ASSUME QueueInv, DrainCancels
    PROVE  QueueInv'
<1>1. drain.m \in Chosen /\ drain.m \in Row /\ run.by # "drain" /\ QueueTypeOK
  BY RowsAssumption DEF QueueInv, DrainCancels, DrainFits
<1>2. CASE drain.m \in Open
  <2>1. Abort(drain.m) /\ At("recover", drain.m)
    BY <1>2 DEF DrainCancels
  <2>2. drain' \in Drains /\ drain'.at = "recover" /\ drain'.m = drain.m
    BY <1>1, <2>1, AtMoves
  <2>3. QueueTypeOK'
    BY <1>1, <2>1, <2>2 DEF QueueInv, DrainCancels, Abort, RowTypeOK, QueueTypeOK, queueVars,
       Drains
  <2>4. RowsFit' /\ DrainFits' /\ OrderFits'
    BY <1>1, <2>1, <2>2
    DEF QueueInv, DrainCancels, Abort, RowsFit, DrainFits, OrderFits, RowTypeOK, QueueTypeOK, queueVars
  <2>5. EntriesFit'
    BY <1>1, <2>1, <2>2, RowsAssumption
    DEF QueueInv, DrainCancels, Abort, EntriesFit, DrainFits, RowTypeOK, QueueTypeOK, queueVars
  <2>6. CancelFits'
    BY <1>1, <2>1, <2>2, RowsAssumption
    DEF QueueInv, DrainCancels, Abort, CancelFits, RowTypeOK, QueueTypeOK, queueVars
  <2>7. PassFits'
    BY DEF QueueInv, DrainCancels, PassFits, queueVars, Waiting
  <2> QED
    BY <2>3, <2>4, <2>5, <2>6, <2>7 DEF QueueInv
<1>3. CASE drain.m \notin Open
  <2>1. UNCHANGED rowVars /\ drain' \in Drains /\ drain'.at = "look"
    BY <1>1, <1>3 DEF DrainCancels, QueueTypeOK, Drains
  <2>2. QueueTypeOK'
    BY <1>1, <2>1 DEF QueueInv, DrainCancels, rowVars, RowTypeOK, QueueTypeOK, queueVars, Drains
  <2>3. RowsFit' /\ DrainFits' /\ OrderFits'
    BY <1>1, <2>1
    DEF QueueInv, DrainCancels, rowVars, RowsFit, DrainFits, OrderFits, RowTypeOK, QueueTypeOK, queueVars
  <2>4. EntriesFit'
    BY <1>1, <2>1, RowsAssumption
    DEF QueueInv, DrainCancels, rowVars, EntriesFit, DrainFits, RowTypeOK, QueueTypeOK, queueVars
  <2>5. CancelFits'
    BY <1>1, <2>1, RowsAssumption
    DEF QueueInv, DrainCancels, rowVars, CancelFits, RowTypeOK, QueueTypeOK, queueVars
  <2>6. PassFits'
    BY DEF QueueInv, DrainCancels, PassFits, queueVars, Waiting
  <2> QED
    BY <2>2, <2>3, <2>4, <2>5, <2>6 DEF QueueInv
<1> QED
  BY <1>2, <1>3

LEMMA DrainRecoversKeeps ==
    ASSUME QueueInv, DrainRecovers
    PROVE  QueueInv'
<1>1. QueueTypeOK'
  BY RowsAssumption DEF QueueInv, DrainRecovers, QueueTypeOK, DrainFits, Begin, queueVars,
     RowTypeOK
<1>2. RowsFit'
  BY RowsAssumption, NoRowAssumption DEF QueueInv, DrainRecovers, RowsFit, DrainFits, Begin
<1>3. DrainFits' /\ EntriesFit' /\ OrderFits' /\ PassFits'
  BY DEF QueueInv, DrainRecovers, DrainFits, Begin, queueVars, EntriesFit, OrderFits, PassFits,
     Waiting
<1>4. CancelFits'
  <2>1. /\ drain.m \in Chosen /\ executing' = drain.m /\ run'.by = "drain" /\ drain'.at = "running"
        /\ UNCHANGED <<decision, phase, state, cancelled>>
    BY DEF QueueInv, DrainRecovers, DrainFits, QueueTypeOK, Begin, queueVars
  <2>2. state[drain.m] \in {"started", "dropped"} /\ (drain.m \in cancelled => decision[drain.m] = "ABORT")
    BY DEF QueueInv, DrainRecovers, DrainFits, CancelFits
  <2> QED
    BY <2>1, <2>2 DEF QueueInv, CancelFits
<1> QED
  BY <1>1, <1>2, <1>3, <1>4 DEF QueueInv

LEMMA DrainLeavesKeeps ==
    ASSUME QueueInv, DrainLeaves
    PROVE  QueueInv'
<1>1. QueueTypeOK'
  <2>1. CASE UNCHANGED sched
    BY <2>1
    DEF QueueInv, DrainLeaves, NoDrain, NoPass, Kick, QueueTypeOK, RowTypeOK, Chosen, WaitingStates,
       EndedStates, Waiting, RowsFit, PassFits, rowVars, queueVars
  <2>2. CASE sched' = NoPass
    BY <2>2
    DEF QueueInv, DrainLeaves, NoDrain, NoPass, Kick, QueueTypeOK, RowTypeOK, Chosen, WaitingStates,
       EndedStates, Waiting, RowsFit, PassFits, rowVars, queueVars
  <2>3. CASE sched' = [NoPass EXCEPT !.at = "score", !.seen = Waiting]
    BY <2>3
    DEF QueueInv, DrainLeaves, NoDrain, NoPass, Kick, QueueTypeOK, RowTypeOK, Chosen, WaitingStates,
       EndedStates, Waiting, RowsFit, PassFits, rowVars, queueVars
  <2> QED
    BY <2>1, <2>2, <2>3 DEF DrainLeaves
<1>2. RowsFit'
  <2>1. CASE UNCHANGED sched
    BY <2>1
    DEF QueueInv, DrainLeaves, NoDrain, NoPass, Kick, QueueTypeOK, RowTypeOK, Chosen, WaitingStates,
       EndedStates, Waiting, RowsFit, PassFits, rowVars, queueVars
  <2>2. CASE sched' = NoPass
    BY <2>2
    DEF QueueInv, DrainLeaves, NoDrain, NoPass, Kick, QueueTypeOK, RowTypeOK, Chosen, WaitingStates,
       EndedStates, Waiting, RowsFit, PassFits, rowVars, queueVars
  <2>3. CASE sched' = [NoPass EXCEPT !.at = "score", !.seen = Waiting]
    BY <2>3
    DEF QueueInv, DrainLeaves, NoDrain, NoPass, Kick, QueueTypeOK, RowTypeOK, Chosen, WaitingStates,
       EndedStates, Waiting, RowsFit, PassFits, rowVars, queueVars
  <2> QED
    BY <2>1, <2>2, <2>3 DEF DrainLeaves
<1>3. DrainFits' /\ EntriesFit' /\ CancelFits' /\ OrderFits'
  BY DEF QueueInv, DrainLeaves, DrainFits, NoDrain, rowVars, queueVars, EntriesFit, CancelFits,
     OrderFits
<1>4. PassFits'
  <2>1. CASE UNCHANGED sched
    BY <2>1
    DEF QueueInv, DrainLeaves, NoDrain, NoPass, Kick, QueueTypeOK, RowTypeOK, Chosen, WaitingStates,
       EndedStates, Waiting, RowsFit, PassFits, rowVars, queueVars
  <2>2. CASE sched' = NoPass
    BY <2>2
    DEF QueueInv, DrainLeaves, NoDrain, NoPass, Kick, QueueTypeOK, RowTypeOK, Chosen, WaitingStates,
       EndedStates, Waiting, RowsFit, PassFits, rowVars, queueVars
  <2>3. CASE sched' = [NoPass EXCEPT !.at = "score", !.seen = Waiting]
    BY <2>3
    DEF QueueInv, DrainLeaves, NoDrain, NoPass, Kick, QueueTypeOK, RowTypeOK, Chosen, WaitingStates,
       EndedStates, Waiting, RowsFit, PassFits, rowVars, queueVars
  <2> QED
    BY <2>1, <2>2, <2>3 DEF DrainLeaves
<1> QED
  BY <1>1, <1>2, <1>3, <1>4 DEF QueueInv

LEMMA PassDrainsKeeps ==
    ASSUME QueueInv, PassDrains
    PROVE  QueueInv'
<1>1. QueueTypeOK'
  <2>1. drain' \in Drains
    BY DEF QueueInv, PassDrains, NoDrain, Kick, QueueTypeOK, Drains
  <2>2. sched' \in Passes
    <3>1. Waiting \subseteq Chosen
      BY DEF Waiting
    <3>2. sched' \in {[NoPass EXCEPT !.at = "drain"], [NoPass EXCEPT !.at = "score", !.seen = Waiting]}
      BY DEF PassDrains
    <3> QED
      BY <3>1, <3>2 DEF NoPass, Passes
  <2> QED
    BY <2>1, <2>2 DEF QueueInv, PassDrains, QueueTypeOK, RowTypeOK, rowVars, queueVars, Drains,
       Passes
<1>2. RowsFit'
  BY DEF QueueInv, PassDrains, RowsFit, NoDrain, NoPass, rowVars
<1>3. DrainFits'
  BY DEF QueueInv, PassDrains, DrainFits, NoDrain, rowVars, queueVars
<1>4. EntriesFit'
  BY DEF QueueInv, PassDrains, EntriesFit, NoDrain, rowVars, queueVars
<1>5. CancelFits'
  BY DEF QueueInv, PassDrains, CancelFits, NoDrain, rowVars, queueVars
<1>6. OrderFits'
  BY DEF QueueInv, PassDrains, OrderFits, NoDrain, queueVars
<1>7. PassFits'
  BY DEF QueueInv, PassDrains, PassFits, Waiting, NoPass, queueVars, WaitingStates
<1> QED
  BY <1>1, <1>2, <1>3, <1>4, <1>5, <1>6, <1>7 DEF QueueInv

LEMMA PassScoresKeeps ==
    ASSUME QueueInv, PassScores
    PROVE  QueueInv'
<1>1. QueueTypeOK'
  BY DEF QueueInv, PassScores, QueueTypeOK, NoPass, rowVars, queueVars, RowTypeOK
<1>2. RowsFit' /\ DrainFits' /\ EntriesFit' /\ CancelFits' /\ OrderFits' /\ PassFits'
  BY DEF QueueInv, PassScores, RowsFit, NoPass, rowVars, queueVars, DrainFits, EntriesFit,
     CancelFits,
     OrderFits, PassFits
<1> QED
  BY <1>1, <1>2 DEF QueueInv

LEMMA PassPicksKeeps ==
    ASSUME QueueInv, PassPicks
    PROVE  QueueInv'
<1>1. QueueTypeOK'
  <2>1. sched' \in Passes
    <3>1. CASE sched' = NoPass
      BY <3>1 DEF NoPass, Passes
    <3>2. ASSUME NEW t \in Automatic, sched' = [sched EXCEPT !.at = "check", !.t = t]
          PROVE  sched' \in Passes
      BY <3>2 DEF QueueInv, QueueTypeOK, Passes
    <3> QED
      BY <3>1, <3>2 DEF PassPicks
  <2>2. UNCHANGED <<rowVars, queueVars, drain, calls, run, guarded, recoverers, paused, faults>>
    BY DEF PassPicks
  <2> QED
    BY <2>1, <2>2 DEF QueueInv, QueueTypeOK, RowTypeOK, rowVars, queueVars, Passes
<1>2. RowsFit'
  <2>1. CASE sched' = NoPass
    BY <2>1
    DEF QueueInv, PassPicks, NoPass, QueueTypeOK, RowTypeOK, Chosen, WaitingStates, EndedStates, Waiting,
       RowsFit, PassFits, rowVars, queueVars
  <2>2. ASSUME NEW t \in Automatic, \A m \in Waiting : Pair[m] \cap Pair[t] = {},
               sched' = [sched EXCEPT !.at = "check", !.t = t]
        PROVE  RowsFit'
    BY <2>2
    DEF QueueInv, PassPicks, NoPass, QueueTypeOK, RowTypeOK, Chosen, WaitingStates, EndedStates, Waiting,
       RowsFit, PassFits, rowVars, queueVars
  <2> QED
    BY <2>1, <2>2 DEF PassPicks
<1>3. DrainFits' /\ EntriesFit' /\ CancelFits' /\ OrderFits'
  BY DEF QueueInv, PassPicks, DrainFits, rowVars, queueVars, EntriesFit, CancelFits, OrderFits
<1>4. PassFits'
  <2>1. CASE sched' = NoPass
    BY <2>1
    DEF QueueInv, PassPicks, NoPass, QueueTypeOK, RowTypeOK, Chosen, WaitingStates, EndedStates, Waiting,
       RowsFit, PassFits, rowVars, queueVars
  <2>2. ASSUME NEW t \in Automatic, \A m \in Waiting : Pair[m] \cap Pair[t] = {},
               sched' = [sched EXCEPT !.at = "check", !.t = t]
        PROVE  PassFits'
    BY <2>2
    DEF QueueInv, PassPicks, NoPass, QueueTypeOK, RowTypeOK, Chosen, WaitingStates, EndedStates, Waiting,
       RowsFit, PassFits, rowVars, queueVars
  <2> QED
    BY <2>1, <2>2 DEF PassPicks
<1> QED
  BY <1>1, <1>2, <1>3, <1>4 DEF QueueInv

LEMMA PassChecksKeeps ==
    ASSUME QueueInv, PassChecks
    PROVE  QueueInv'
<1>1. QueueTypeOK'
  <2>1. CASE Waiting \subseteq sched.seen
    BY <2>1
    DEF QueueInv, PassChecks, NoDrain, NoPass, Kick, QueueTypeOK, RowTypeOK, Chosen, WaitingStates,
       EndedStates, Waiting, RowsFit, rowVars, queueVars
  <2>2. CASE ~(Waiting \subseteq sched.seen) /\ drain.at = "idle"
    BY <2>2
    DEF QueueInv, PassChecks, NoDrain, NoPass, Kick, QueueTypeOK, RowTypeOK, Chosen, WaitingStates,
       EndedStates, Waiting, RowsFit, rowVars, queueVars
  <2>3. CASE ~(Waiting \subseteq sched.seen) /\ drain.at # "idle"
    BY <2>3
    DEF QueueInv, PassChecks, NoDrain, NoPass, Kick, QueueTypeOK, RowTypeOK, Chosen, WaitingStates,
       EndedStates, Waiting, RowsFit, rowVars, queueVars
  <2> QED
    BY <2>1, <2>2, <2>3
<1>2. RowsFit'
  <2>1. CASE Waiting \subseteq sched.seen
    BY <2>1
    DEF QueueInv, PassChecks, NoDrain, NoPass, Kick, QueueTypeOK, RowTypeOK, Chosen, WaitingStates,
       EndedStates, Waiting, RowsFit, rowVars, queueVars
  <2>2. CASE ~(Waiting \subseteq sched.seen) /\ drain.at = "idle"
    BY <2>2
    DEF QueueInv, PassChecks, NoDrain, NoPass, Kick, QueueTypeOK, RowTypeOK, Chosen, WaitingStates,
       EndedStates, Waiting, RowsFit, rowVars, queueVars
  <2>3. CASE ~(Waiting \subseteq sched.seen) /\ drain.at # "idle"
    BY <2>3
    DEF QueueInv, PassChecks, NoDrain, NoPass, Kick, QueueTypeOK, RowTypeOK, Chosen, WaitingStates,
       EndedStates, Waiting, RowsFit, rowVars, queueVars
  <2> QED
    BY <2>1, <2>2, <2>3
<1>3. DrainFits' /\ EntriesFit' /\ CancelFits' /\ OrderFits'
  BY DEF QueueInv, PassChecks, DrainFits, NoDrain, rowVars, queueVars, EntriesFit, CancelFits,
     OrderFits
<1>4. PassFits'
  BY DEF QueueInv, PassChecks, PassFits, QueueTypeOK, Waiting, NoPass, queueVars
<1> QED
  BY <1>1, <1>2, <1>3, <1>4 DEF QueueInv

LEMMA PassCreatesKeeps ==
    ASSUME QueueInv, PassCreates
    PROVE  QueueInv'
<1>1. QueueTypeOK'
  BY DEF QueueInv, PassCreates, QueueTypeOK, Create, NoPass, rowVars, queueVars, RowTypeOK
<1>2. RowsFit'
  BY DEF QueueInv, PassCreates, RowsFit, QueueTypeOK, Create, NoPass, rowVars, RowTypeOK
<1>3. DrainFits'
  BY RowsAssumption, NoRowAssumption
  DEF QueueInv, PassCreates, QueueTypeOK, DrainFits, Create, rowVars, queueVars, RowTypeOK
<1>4. EntriesFit'
  BY RowsAssumption, NoRowAssumption
  DEF QueueInv, PassCreates, QueueTypeOK, EntriesFit, Create, rowVars, queueVars, RowTypeOK
<1>5. CancelFits' /\ OrderFits'
  BY DEF QueueInv, PassCreates, CancelFits, Create, rowVars, queueVars, OrderFits
<1>6. PassFits'
  BY DEF QueueInv, PassCreates, PassFits, QueueTypeOK, NoPass, queueVars
<1> QED
  BY <1>1, <1>2, <1>3, <1>4, <1>5, <1>6 DEF QueueInv

LEMMA PassExecutesKeeps ==
    ASSUME QueueInv, PassExecutes
    PROVE  QueueInv'
<1>1. QueueTypeOK'
  <2>1. sched.t \in Row
    BY RowsAssumption DEF QueueInv, PassExecutes, RowsFit
  <2>2. RowTypeOK'
    BY <2>1 DEF QueueInv, PassExecutes, Begin, QueueTypeOK, RowTypeOK, rowVars
  <2>3. sched' \in Passes
    BY DEF QueueInv, PassExecutes, QueueTypeOK, NoPass, Passes
  <2>4. run' \in [by : {"nobody", "drain", "scheduler", "recovery"}, done : BOOLEAN]
    <3>1. CASE executing = NoRow /\ sched.t \in Open
      <4>1. run' = [by |-> "scheduler", done |-> FALSE]
        BY <3>1 DEF PassExecutes
      <4> QED
        BY <4>1
    <3>2. CASE ~(executing = NoRow /\ sched.t \in Open)
      BY <3>2 DEF QueueInv, PassExecutes, QueueTypeOK
    <3> QED
      BY <3>1, <3>2
  <2> QED
    BY <2>2, <2>3, <2>4 DEF QueueInv, PassExecutes, QueueTypeOK, queueVars, Passes
<1>2. RowsFit'
  BY RowsAssumption, NoRowAssumption DEF QueueInv, PassExecutes, QueueTypeOK, RowsFit, Begin,
     NoPass, rowVars
<1>3. DrainFits' /\ EntriesFit' /\ OrderFits'
  BY DEF QueueInv, PassExecutes, DrainFits, Begin, rowVars, queueVars, EntriesFit, OrderFits
<1>4. CancelFits'
  BY RowsAssumption, NoRowAssumption
  DEF QueueInv, PassExecutes, QueueTypeOK, CancelFits, Begin, rowVars, queueVars
<1>5. PassFits'
  BY DEF QueueInv, PassExecutes, PassFits, QueueTypeOK, NoPass, queueVars
<1> QED
  BY <1>1, <1>2, <1>3, <1>4, <1>5 DEF QueueInv

LEMMA ConnectsKeeps ==
    ASSUME QueueInv, Connects
    PROVE  QueueInv'
<1>1. QueueTypeOK'
  BY DEF QueueInv, Connects, QueueTypeOK, Advance, queueVars, RowTypeOK, Open
<1>2. RowsFit' /\ DrainFits' /\ EntriesFit' /\ CancelFits' /\ OrderFits' /\ PassFits'
  BY DEF QueueInv, Connects, RowsFit, Advance, queueVars, DrainFits, EntriesFit, CancelFits,
     OrderFits,
     PassFits, Waiting
<1> QED
  BY <1>1, <1>2 DEF QueueInv

LEMMA CommitsKeeps ==
    ASSUME QueueInv, Commits
    PROVE  QueueInv'
<1>1. QueueTypeOK'
  BY DEF QueueInv, Commits, QueueTypeOK, CommitRow, queueVars, RowTypeOK, Open
<1>2. RowsFit' /\ DrainFits' /\ EntriesFit' /\ CancelFits' /\ OrderFits' /\ PassFits'
  BY DEF QueueInv, Commits, RowsFit, Executor, CommitRow, queueVars, DrainFits, EntriesFit,
     CancelFits,
     OrderFits, PassFits, Waiting
<1> QED
  BY <1>1, <1>2 DEF QueueInv

LEMMA AbortsKeeps ==
    ASSUME QueueInv, Aborts
    PROVE  QueueInv'
<1>1. QueueTypeOK'
  BY DEF QueueInv, Aborts, QueueTypeOK, Abort, queueVars, RowTypeOK
<1>2. RowsFit' /\ DrainFits' /\ EntriesFit' /\ CancelFits' /\ OrderFits' /\ PassFits'
  BY DEF QueueInv, Aborts, RowsFit, Abort, queueVars, DrainFits, EntriesFit, CancelFits,
     OrderFits,
     PassFits, Waiting
<1> QED
  BY <1>1, <1>2 DEF QueueInv

LEMMA ResolvesKeeps ==
    ASSUME QueueInv, Resolves
    PROVE  QueueInv'
<1>1. QueueTypeOK'
  <2>1. executing \in Row /\ phase' = [phase EXCEPT ![executing] = "resolved"]
    BY DEF QueueInv, Resolves, Resolve, QueueTypeOK, RowTypeOK
  <2>2. RowTypeOK'
    BY <2>1 DEF QueueInv, Resolves, Resolve, QueueTypeOK, RowTypeOK
  <2>3. run' \in [by : {"nobody", "drain", "scheduler", "recovery"}, done : BOOLEAN]
    BY DEF QueueInv, Resolves, QueueTypeOK
  <2> QED
    BY <2>2, <2>3 DEF QueueInv, Resolves, QueueTypeOK, queueVars
<1>2. RowsFit' /\ DrainFits' /\ EntriesFit' /\ CancelFits' /\ OrderFits' /\ PassFits'
  BY DEF QueueInv, Resolves, RowsFit, Resolve, queueVars, DrainFits, EntriesFit, CancelFits,
     OrderFits,
     PassFits, Waiting
<1> QED
  BY <1>1, <1>2 DEF QueueInv

LEMMA EndsKeeps ==
    ASSUME QueueInv, Ends
    PROVE  QueueInv'
<1>1. QueueTypeOK'
  BY DEF QueueInv, Ends, QueueTypeOK, Release, ThreadReturns, queueVars, RowTypeOK, Nobody,
     NoPass
<1>2. RowsFit' /\ DrainFits' /\ CancelFits' /\ OrderFits' /\ PassFits'
  BY DEF QueueInv, Ends, RowsFit, Release, ThreadReturns, queueVars, Nobody, NoPass, Waiting,
     DrainFits,
     CancelFits, OrderFits, PassFits
<1>3. EntriesFit'
  BY ReturnMoves DEF QueueInv, Ends, Release, EntriesFit, DrainFits, queueVars
<1> QED
  BY <1>1, <1>2, <1>3 DEF QueueInv

LEMMA ParksKeeps ==
    ASSUME QueueInv, Parks
    PROVE  QueueInv'
<1>1. QueueTypeOK'
  <2>1. RowTypeOK'
    BY DEF QueueInv, Parks, Park, QueueTypeOK, RowTypeOK
  <2>2. faults' \in 0 .. MaxFaults
    BY FaultsAssumption DEF QueueInv, Parks, Fault, QueueTypeOK
  <2>3. run' \in [by : {"nobody", "drain", "scheduler", "recovery"}, done : BOOLEAN]
    <3>1. run' = Nobody
      BY ReturnMoves DEF Parks
    <3> QED
      BY <3>1 DEF Nobody
  <2>4. drain' \in Drains /\ sched' \in Passes /\ calls' \subseteq Chosen \cup {Kick}
    BY ReturnMoves DEF Parks
  <2>5. UNCHANGED <<queueVars, guarded, recoverers, paused>>
    BY DEF Parks
  <2> QED
    BY <2>1, <2>2, <2>3, <2>4, <2>5 DEF QueueInv, QueueTypeOK, queueVars, Drains, Passes
<1>2. RowsFit' /\ CancelFits' /\ OrderFits' /\ PassFits'
  BY DEF QueueInv, Parks, RowsFit, Park, ThreadReturns, queueVars, Nobody, NoPass, Waiting,
     CancelFits,
     OrderFits, PassFits
<1>3. DrainFits'
  BY DEF QueueInv, Parks, RowsFit, DrainFits, Park, ThreadReturns, queueVars, Nobody
<1>4. EntriesFit'
  <2>1. \A m \in Chosen : phase'[m] # "new" => phase[m] # "new"
    BY RowsAssumption DEF QueueInv, Parks, Park, RowsFit, QueueTypeOK, RowTypeOK
  <2>2. \A m \in Chosen : phase[m] # "new" => phase'[m] # "new"
    BY RowsAssumption DEF Parks, Park, QueueInv, QueueTypeOK, RowTypeOK
  <2> QED
    BY <2>1, <2>2, ReturnMoves DEF QueueInv, Parks, EntriesFit, DrainFits, queueVars
<1> QED
  BY <1>1, <1>2, <1>3, <1>4 DEF QueueInv

LEMMA SuspendKeeps ==
    ASSUME QueueInv, Suspend
    PROVE  QueueInv'
<1>1. QueueTypeOK'
  BY FaultsAssumption DEF QueueInv, Suspend, QueueTypeOK, Fault, rowVars, queueVars, RowTypeOK
<1>2. RowsFit' /\ DrainFits' /\ EntriesFit' /\ CancelFits' /\ OrderFits' /\ PassFits'
  BY DEF QueueInv, Suspend, RowsFit, rowVars, queueVars, DrainFits, EntriesFit, CancelFits,
     OrderFits,
     PassFits, Waiting
<1> QED
  BY <1>1, <1>2 DEF QueueInv

LEMMA ResumeKeeps ==
    ASSUME QueueInv, Resume
    PROVE  QueueInv'
<1>1. QueueTypeOK'
  BY DEF QueueInv, Resume, QueueTypeOK, rowVars, queueVars, RowTypeOK
<1>2. RowsFit' /\ DrainFits' /\ EntriesFit' /\ CancelFits' /\ OrderFits' /\ PassFits'
  BY DEF QueueInv, Resume, RowsFit, rowVars, queueVars, DrainFits, EntriesFit, CancelFits,
     OrderFits,
     PassFits, Waiting
<1> QED
  BY <1>1, <1>2 DEF QueueInv

LEMMA CloseKeeps ==
    ASSUME QueueInv, Close
    PROVE  QueueInv'
<1>1. QueueTypeOK'
  BY FaultsAssumption DEF QueueInv, Close, QueueTypeOK, Fault, rowVars, queueVars, RowTypeOK
<1>2. RowsFit' /\ DrainFits' /\ EntriesFit' /\ CancelFits' /\ OrderFits' /\ PassFits'
  BY DEF QueueInv, Close, RowsFit, rowVars, queueVars, DrainFits, EntriesFit, CancelFits,
     OrderFits,
     PassFits, Waiting
<1> QED
  BY <1>1, <1>2 DEF QueueInv

LEMMA RestartKeeps ==
    ASSUME QueueInv, Restart
    PROVE  QueueInv'
<1>1. QueueTypeOK'
  BY FaultsAssumption
  DEF QueueInv, Restart, QueueTypeOK, Fault, rowVars, Release, NoDrain, NoPass, Nobody, Open, queueVars,
     RowTypeOK
<1>2. RowsFit' /\ DrainFits' /\ EntriesFit' /\ CancelFits' /\ OrderFits' /\ PassFits'
  BY DEF QueueInv, Restart, RowsFit, rowVars, Release, NoDrain, NoPass, Nobody, queueVars,
     DrainFits,
     EntriesFit, CancelFits, OrderFits, PassFits
<1> QED
  BY <1>1, <1>2 DEF QueueInv

------------------------------------------------------------------------------

LEMMA QueueInitially ==
    ASSUME QueueInit
    PROVE  QueueInv
<1>1. QueueTypeOK
  BY FaultsAssumption DEF QueueInit, RowInit, QueueTypeOK, RowTypeOK, NoDrain, NoPass, Nobody,
     Kick
<1>2. RowsFit /\ DrainFits
  BY DEF QueueInit, RowInit, RowsFit, DrainFits, NoDrain, NoPass, Nobody
<1>3. EntriesFit /\ CancelFits
  BY RowsAssumption DEF QueueInit, RowInit, EntriesFit, CancelFits, NoDrain, Nobody
<1>4. OrderFits /\ PassFits
  BY DEF QueueInit, OrderFits, PassFits, NoDrain, NoPass
<1> QED
  BY <1>1, <1>2, <1>3, <1>4 DEF QueueInv

LEMMA QueueStep ==
    ASSUME QueueInv, [QueueNext]_vars
    PROVE  QueueInv'
<1>1. CASE QueueNext
  <2>1. CASE \E m \in Chosen : Enqueue(m) \/ CancelQueued(m) \/ CancelStarting(m)
    BY <2>1, EnqueueKeeps, CancelQueuedKeeps, CancelStartingKeeps
  <2>2. CASE \E t \in Row : CancelReads(t) \/ CancelWrites(t) \/ OwnerRecovers(t) \/ RecoverOne(t)
    BY <2>2, CancelReadsKeeps, CancelWritesKeeps, OwnerRecoversKeeps, RecoverOneKeeps
  <2>3. CASE \E c \in Chosen \cup {Kick} : Call(c)
    BY <2>3, CallKeeps
  <2>4. CASE DrainStep
    BY <2>4, RepairKeeps, LookKeeps, SetAsideKeeps, ClaimKeeps, ProposeCreatesKeeps,
       ProposeWaitsKeeps,
       ProposeRejectsKeeps, StartedKeeps, DrainExecutesKeeps, DrainCancelsKeeps, DrainRecoversKeeps,
       DrainLeavesKeeps DEF DrainStep
  <2>5. CASE PassStep
    BY <2>5, PassDrainsKeeps, PassScoresKeeps, PassPicksKeeps, PassChecksKeeps,
       PassCreatesKeeps,
       PassExecutesKeeps, PassRecoversKeeps DEF PassMoves, PassStep
  <2>6. CASE RunStep
    BY <2>6, ConnectsKeeps, CommitsKeeps, AbortsKeeps, ResolvesKeeps, EndsKeeps DEF RunStep
  <2>7. CASE Parks \/ Suspend \/ Resume \/ Close \/ Restart
    BY <2>7, ParksKeeps, SuspendKeeps, ResumeKeeps, CloseKeeps, RestartKeeps
  <2> QED
    BY <1>1, <2>1, <2>2, <2>3, <2>4, <2>5, <2>6, <2>7 DEF QueueNext
<1>2. CASE UNCHANGED vars
  BY <1>2
  DEF QueueInv, QueueTypeOK, RowTypeOK, RowsFit, DrainFits, EntriesFit, CancelFits, OrderFits, PassFits,
       Waiting, vars, rowVars, queueVars
<1> QED
  BY <1>1, <1>2

\* The inductive invariant holds in every reachable state.
THEOREM QueueAlwaysInv == QueueSpec => []QueueInv
<1>1. QueueInit => QueueInv
  BY QueueInitially
<1>2. QueueInv /\ [QueueNext]_vars => QueueInv'
  BY QueueStep
<1> QED
  BY <1>1, <1>2, PTL DEF QueueSpec

------------------------------------------------------------------------------
(* What the owner can rely on, for any number of trades, rows and restarts. *)

\* Queue entries, rows, threads and locks are well typed in every reachable state.
THEOREM QueueTypeCorrect == QueueSpec => []QueueTypeOK
<1>1. QueueInv => QueueTypeOK
  BY DEF QueueInv
<1> QED
  BY <1>1, QueueAlwaysInv, PTL

\* A chosen trade has an exchange row exactly from the moment its entry starts
\* (drain_manual and its repair after a restart).
THEOREM RowsAlwaysFollow == QueueSpec => []RowsFollowEntries
<1>1. QueueInv => RowsFollowEntries
  BY DEF QueueInv, EntriesFit, RowsFollowEntries
<1> QED
  BY <1>1, QueueAlwaysInv, PTL

\* A cancel accepted while the trade was starting (cancel_manual) is never
\* overtaken by a commit, whatever is repaired or recovered in between.
THEOREM CancelAlwaysHonoured == QueueSpec => []CancelIsHonoured
<1>1. QueueInv => CancelIsHonoured
  BY DEF QueueInv, QueueTypeOK, CancelFits, CancelIsHonoured
<1> QED
  BY <1>1, QueueAlwaysInv, PTL

\* Which steps make a row: the drain's proposal and the pass's.
LEMMA RowsAreMade ==
    ASSUME QueueInv, [QueueNext]_vars, NEW t \in Row, phase[t] = "new", phase'[t] # "new"
    PROVE  \/ ProposeCreates /\ t = drain.m
           \/ PassCreates /\ t = sched.t
<1>0. QueueTypeOK /\ RowsFit /\ DrainFits
  BY DEF QueueInv
<1>1. ASSUME UNCHANGED phase PROVE FALSE
  BY <1>1
<1>2. ASSUME NEW u \in Row, Abort(u) PROVE FALSE
  BY <1>0, <1>2 DEF Abort, QueueTypeOK, RowTypeOK
<1>3. ASSUME Abort(drain.m) PROVE FALSE
  BY <1>0, <1>3 DEF Abort, QueueTypeOK, RowTypeOK
<1>4. ASSUME NEW u \in Row, executing = u, phase[u] # "new" PROVE executing # t
  BY <1>4
<1>5. ASSUME executing = t PROVE FALSE
  BY <1>0, <1>5, NoRowAssumption DEF RowsFit
<1>6. CASE QueueNext
  <2>1. CASE \E m \in Chosen : Enqueue(m) \/ CancelQueued(m) \/ CancelStarting(m)
    BY <1>1, <2>1 DEF Enqueue, CancelQueued, CancelStarting, rowVars
  <2>2. CASE \E u \in Row : CancelReads(u) \/ CancelWrites(u) \/ OwnerRecovers(u) \/ RecoverOne(u) \/ PassRecovers(u)
    BY <1>1, <1>2, <2>2 DEF CancelReads, CancelWrites, OwnerRecovers, RecoverOne, PassRecovers,
       Begin, rowVars
  <2>3. CASE \E c \in Chosen \cup {Kick} : Call(c)
    BY <1>1, <2>3 DEF Call, rowVars
  <2>4. CASE Repair \/ Look \/ Claim \/ ProposeWaits \/ ProposeRejects \/ Started \/ DrainLeaves
    BY <1>1, <2>4 DEF Repair, Look, Claim, ProposeWaits, ProposeRejects, Started, DrainLeaves,
       rowVars
  <2>5. CASE SetAside \/ DrainCancels
    BY <1>1, <1>3, <2>5 DEF SetAside, DrainCancels, rowVars
  <2>6. CASE DrainExecutes \/ DrainRecovers \/ PassExecutes
    BY <1>1, <2>6 DEF DrainExecutes, DrainRecovers, PassExecutes, Begin, rowVars
  <2>7. CASE ProposeCreates \/ PassCreates
    BY <1>0, <1>1, <2>7 DEF ProposeCreates, PassCreates, Create, QueueTypeOK, RowTypeOK, rowVars
  <2>8. CASE PassDrains \/ PassScores \/ PassPicks \/ PassChecks
    BY <1>1, <2>8 DEF PassDrains, PassScores, PassPicks, PassChecks, rowVars
  <2>9. CASE RunStep
    <3>1. phase' = phase \/ \E s \in {"active", "resolved"} : phase' = [phase EXCEPT ![executing] = s]
            \/ Abort(executing)
      BY <2>9 DEF RunStep, Connects, Commits, Aborts, Resolves, Ends, Advance, CommitRow,
         Resolve, Release
    <3>2. executing # t
      BY <1>5
    <3> QED
      BY <1>0, <3>1, <3>2 DEF QueueTypeOK, RowTypeOK, Abort
  <2>10. CASE Parks
    BY <1>0, <1>5, <2>10 DEF Parks, Park, QueueTypeOK, RowTypeOK
  <2>11. CASE Suspend \/ Resume \/ Close
    BY <1>1, <2>11 DEF Suspend, Resume, Close, rowVars
  <2>12. CASE Restart
    BY <1>1, <2>12 DEF Restart, Release, rowVars
  <2> QED
    BY <1>6, <2>1, <2>2, <2>3, <2>4, <2>5, <2>6, <2>7, <2>8, <2>9, <2>10, <2>11, <2>12
       DEF QueueNext, DrainStep, PassMoves, PassStep
<1>7. CASE UNCHANGED vars
  BY <1>1, <1>7 DEF vars, rowVars
<1> QED
  BY <1>6, <1>7

\* No chosen trade starts while one queued before it is still in line (the
\* drain takes the oldest entry and gives it back when it has to wait).
THEOREM AlwaysInOrder == QueueSpec => InOrder
<1>1. ASSUME QueueInv, [QueueNext]_vars, NEW m \in Chosen, NEW k \in Chosen,
             k < m, phase[m] = "new", phase'[m] # "new"
      PROVE  state[k] # "queued"
  <2>1. m \in Row /\ m \notin Automatic
    BY RowsAssumption
  <2>2. drain.at = "propose" /\ drain.m = m
    BY <1>1, <2>1, RowsAreMade DEF ProposeCreates, PassCreates, QueueInv, RowsFit
  <2> QED
    BY <1>1, <2>2 DEF QueueInv, OrderFits
<1>2. QueueInv /\ [QueueNext]_vars =>
        [\A m, k \in Chosen : k < m /\ phase[m] = "new" /\ phase'[m] # "new" => state[k] # "queued"]_vars
  BY <1>1
<1> QED
  BY <1>2, QueueAlwaysInv, PTL DEF QueueSpec, InOrder

\* Automatic trading takes no adventure of a chosen trade that was in line when
\* its pass began and still is (schedule_once).
THEOREM ChosenKeepTheirAdventures == QueueSpec => AutomaticLeavesChosen
<1>1. ASSUME QueueInv, [QueueNext]_vars, NEW t \in Automatic, phase[t] = "new", phase'[t] # "new",
             NEW m \in sched.seen \cap Waiting
      PROVE  Pair[m] \cap Pair[t] = {}
  <2>1. t \in Row /\ t \notin Chosen
    BY RowsAssumption
  <2>2. sched.at = "create" /\ sched.t = t
    BY <1>1, <2>1, RowsAreMade DEF ProposeCreates, PassCreates, QueueInv, DrainFits
  <2> QED
    BY <1>1, <2>2 DEF QueueInv, PassFits
<1>2. QueueInv /\ [QueueNext]_vars =>
        [\A t \in Automatic : phase[t] = "new" /\ phase'[t] # "new" =>
            \A m \in sched.seen \cap Waiting : Pair[m] \cap Pair[t] = {}]_vars
  BY <1>1
<1> QED
  BY <1>2, QueueAlwaysInv, PTL DEF QueueSpec, AutomaticLeavesChosen

LEMMA EntriesEnd ==
    ASSUME QueueInv, [QueueNext]_vars, NEW m \in Chosen, state[m] \notin WaitingStates \cup {"none"}
    PROVE  state'[m] \in {state[m], "dropped"}
<1>0. QueueTypeOK /\ DrainFits
  BY DEF QueueInv
<1>1. ASSUME NEW k \in Chosen, NEW s \in WaitingStates \cup EndedStates, Update(k, s), k # m
      PROVE  state'[m] \in {state[m], "dropped"}
  BY <1>0, <1>1, UpdateMoves
<1>2. CASE UNCHANGED state
  BY <1>2
<1>3. CASE \E k \in Chosen : Enqueue(k) \/ CancelQueued(k)
  <2> PICK k \in Chosen : Enqueue(k) \/ CancelQueued(k)
    BY <1>3
  <2>1. k # m /\ (Update(k, "queued") \/ Update(k, "cancelled"))
    BY DEF Enqueue, CancelQueued, WaitingStates
  <2> QED
    BY <1>1, <2>1 DEF WaitingStates, EndedStates
<1>4. CASE Repair
  <2> DEFINE new == [k \in Chosen |-> IF state[k] # "starting" THEN state[k]
                                      ELSE IF phase[k] # "new" THEN "started" ELSE "queued"]
  <2>1. new \in [Chosen -> States] /\ new[m] = state[m]
    BY <1>0 DEF QueueTypeOK, States, WaitingStates, EndedStates
  <2>2. Save(new)
    BY <1>4 DEF Repair
  <2> HIDE DEF new
  <2> QED
    BY <2>1, <2>2, SaveMoves DEF Follows
<1>5. CASE Claim
  BY <1>5, ClaimMoves DEF WaitingStates
<1>6. CASE ProposeWaits \/ ProposeRejects \/ Started
  <2>1. drain.m \in Chosen /\ drain.m # m
    BY <1>0, <1>6 DEF DrainFits, ProposeWaits, ProposeRejects, Started, WaitingStates
  <2>2. \E s \in WaitingStates \cup EndedStates : Update(drain.m, s)
    BY <1>6 DEF ProposeWaits, ProposeRejects, Started, WaitingStates, EndedStates
  <2> QED
    BY <1>1, <2>1, <2>2
<1> QED
  BY <1>2, <1>3, <1>4, <1>5, <1>6
     DEF QueueNext, DrainStep, PassMoves, PassStep, RunStep, vars, queueVars, CancelStarting, CancelReads,
         CancelWrites, OwnerRecovers, RecoverOne, PassRecovers, Call, Look, SetAside, ProposeCreates, DrainExecutes, DrainCancels,
         DrainRecovers, DrainLeaves, PassDrains, PassScores, PassPicks, PassChecks, PassCreates, PassExecutes,
         Connects, Commits, Aborts, Resolves, Ends, Parks, Suspend, Resume, Close, Restart

\* An entry that left the line never comes back into it (drain_manual works on
\* what it read before a proposal of minutes; Claim and Repair look again).
THEOREM EndedAlwaysStays == QueueSpec => EndedStays
<1>1. QueueInv /\ [QueueNext]_vars =>
        [\A m \in Chosen : state[m] \notin WaitingStates \cup {"none"} => state'[m] \in {state[m], "dropped"}]_vars
  BY EntriesEnd
<1> QED
  BY <1>1, QueueAlwaysInv, PTL DEF QueueSpec, EndedStays

\* The drain starts one entry at a time, and a restart leaves it at most one to repair.
OneStarts == \A m, k \in Chosen : state[m] = "starting" /\ state[k] = "starting" => m = k

LEMMA OnlyUpdatesMove ==
    ASSUME QueueInv, [QueueNext]_vars
    PROVE  \/ UNCHANGED state
           \/ Repair
           \/ \E m \in Chosen : \E s \in (WaitingStates \cup EndedStates) \ {"starting"} : Update(m, s)
           \/ drain.at = "claim" /\ drain.m \in Chosen /\ Update(drain.m, "starting")
<1>1. QueueTypeOK /\ DrainFits
  BY DEF QueueInv
<1>2. CASE \E k \in Chosen : Enqueue(k) \/ CancelQueued(k)
  BY <1>2 DEF Enqueue, CancelQueued, WaitingStates, EndedStates
<1>3. CASE Claim
  BY <1>1, <1>3 DEF Claim, DrainFits
<1>4. CASE ProposeWaits \/ ProposeRejects \/ Started
  BY <1>1, <1>4 DEF DrainFits, ProposeWaits, ProposeRejects, Started, WaitingStates, EndedStates
<1> QED
  BY <1>2, <1>3, <1>4
     DEF QueueNext, DrainStep, PassMoves, PassStep, RunStep, vars, queueVars, CancelStarting, CancelReads,
         CancelWrites, OwnerRecovers, RecoverOne, PassRecovers, Call, Look, SetAside, ProposeCreates, DrainExecutes, DrainCancels,
         DrainRecovers, DrainLeaves, PassDrains, PassScores, PassPicks, PassChecks, PassCreates, PassExecutes,
         Connects, Commits, Aborts, Resolves, Ends, Parks, Suspend, Resume, Close, Restart

\* What a repair does to each entry.
LEMMA RepairMoves ==
    ASSUME QueueInv, Repair, NEW m \in Chosen
    PROVE  IF state[m] = "starting" THEN state'[m] \in {"started", "queued", "dropped"}
           ELSE state'[m] = state[m] \/ (state[m] \in EndedStates /\ state'[m] = "dropped")
<1> DEFINE new == [k \in Chosen |-> IF state[k] # "starting" THEN state[k]
                                    ELSE IF phase[k] # "new" THEN "started" ELSE "queued"]
<1>1. /\ new \in [Chosen -> States]
      /\ new[m] = IF state[m] # "starting" THEN state[m] ELSE IF phase[m] # "new" THEN "started" ELSE "queued"
  BY DEF QueueInv, QueueTypeOK, States, WaitingStates, EndedStates
<1>2. Save(new)
  BY DEF Repair
<1> HIDE DEF new
<1>3. state'[m] = new[m] \/ (new[m] \in EndedStates /\ state'[m] = "dropped")
  BY <1>1, <1>2, SaveMoves DEF Follows
<1> QED
  BY <1>1, <1>3

LEMMA OneStartsStep ==
    ASSUME QueueInv, OneStarts, [QueueNext]_vars
    PROVE  OneStarts'
<1>1. CASE UNCHANGED state
  BY <1>1 DEF OneStarts
<1>2. CASE Repair
  BY <1>2, RepairMoves DEF OneStarts, EndedStates
<1>3. ASSUME NEW m \in Chosen, NEW s \in (WaitingStates \cup EndedStates) \ {"starting"}, Update(m, s)
      PROVE  OneStarts'
  BY <1>3, UpdateMoves DEF QueueInv, OneStarts
<1>4. CASE drain.at = "claim" /\ drain.m \in Chosen /\ Update(drain.m, "starting")
  <2>1. \A k \in Chosen : state[k] # "starting"
    BY <1>4 DEF QueueInv, EntriesFit
  <2>2. \A k \in Chosen : k # drain.m => state'[k] # "starting"
    BY <1>4, <2>1, UpdateMoves DEF QueueInv, WaitingStates
  <2> QED
    BY <2>2 DEF OneStarts
<1> QED
  BY <1>1, <1>2, <1>3, <1>4, OnlyUpdatesMove

LEMMA EntriesLeave ==
    ASSUME QueueInv, OneStarts, [QueueNext]_vars, NEW m \in Waiting \ Waiting', NEW k \in Chosen \ {m}
    PROVE  state'[k] = state[k] \/ (state[k] \in EndedStates /\ state'[k] = "dropped")
<1>0. m \in Chosen /\ state[m] \in WaitingStates /\ state'[m] \notin WaitingStates
  BY DEF Waiting
<1>1. CASE Repair
  <2>1. state[m] = "starting"
    BY <1>0, <1>1, RepairMoves DEF WaitingStates, EndedStates
  <2>2. state[k] # "starting"
    BY <1>0, <2>1 DEF OneStarts
  <2> QED
    BY <1>1, <2>2, RepairMoves
<1>2. ASSUME NEW j \in Chosen, NEW s \in WaitingStates \cup EndedStates, Update(j, s)
      PROVE  state'[k] = state[k] \/ (state[k] \in EndedStates /\ state'[k] = "dropped")
  <2>1. j = m
    BY <1>0, <1>2, UpdateMoves DEF QueueInv, WaitingStates, EndedStates
  <2> QED
    BY <1>2, <2>1, UpdateMoves DEF QueueInv
<1> QED
  BY <1>0, <1>1, <1>2, OnlyUpdatesMove DEF WaitingStates, EndedStates

\* However many entries have ended since, one still in line leaves it only by its own
\* end, and alone (_manual_save prunes the list each time an entry is written).
THEOREM AlwaysLeavesAlone == QueueSpec => LeavesAlone
<1>1. QueueInit => OneStarts
  BY DEF QueueInit, OneStarts
<1>2. QueueInv /\ OneStarts /\ [QueueNext]_vars => OneStarts'
  BY OneStartsStep
<1>3. QueueInv /\ OneStarts /\ [QueueNext]_vars =>
        [\A m \in Waiting \ Waiting' : \A k \in Chosen \ {m} :
            state'[k] = state[k] \/ (state[k] \in EndedStates /\ state'[k] = "dropped")]_vars
  BY EntriesLeave
<1> QED
  BY <1>1, <1>2, <1>3, QueueAlwaysInv, PTL DEF QueueSpec, LeavesAlone

------------------------------------------------------------------------------
(* The queue and the scheduler use the exchange rows as ExchangeRows allows,   *)
(* so what holds of the rows whoever uses them holds here.                     *)

\* Which rows the threads act on.
LEMMA RowsStep ==
    ASSUME QueueInv, [QueueNext]_vars
    PROVE  [RowNext]_rowVars
<1>0. QueueTypeOK /\ RowsFit /\ DrainFits
  BY DEF QueueInv
<1>1. \A m \in Chosen : m \in Row
  BY RowsAssumption
<1>2. \A t \in Automatic : t \in Row
  BY RowsAssumption
<1>3. executing # NoRow => executing \in Row
  BY <1>0 DEF QueueTypeOK, RowTypeOK
<1>4. CASE QueueNext
  <2>1. CASE \E m \in Chosen : Enqueue(m) \/ CancelQueued(m) \/ CancelStarting(m)
    BY <2>1 DEF Enqueue, CancelQueued, CancelStarting
  <2>2. CASE \E u \in Row : CancelReads(u) \/ CancelWrites(u) \/ OwnerRecovers(u) \/ RecoverOne(u) \/ PassRecovers(u)
    BY <2>2 DEF CancelReads, CancelWrites, OwnerRecovers, RecoverOne, PassRecovers, RowNext
  <2>3. CASE \E c \in Chosen \cup {Kick} : Call(c)
    BY <2>3 DEF Call
  <2>4. CASE Repair \/ Look \/ Claim \/ ProposeWaits \/ ProposeRejects \/ Started \/ DrainLeaves
    BY <2>4 DEF Repair, Look, Claim, ProposeWaits, ProposeRejects, Started, DrainLeaves
  <2>5. CASE SetAside
    BY <1>0, <1>2, <2>5 DEF SetAside, RowsFit, RowNext
  <2>6. CASE ProposeCreates \/ DrainExecutes \/ DrainCancels \/ DrainRecovers
    BY <1>0, <1>1, <2>6 DEF ProposeCreates, DrainExecutes, DrainCancels, DrainRecovers,
       DrainFits, RowNext
  <2>7. CASE PassDrains \/ PassScores \/ PassPicks \/ PassChecks
    BY <2>7 DEF PassDrains, PassScores, PassPicks, PassChecks
  <2>8. CASE PassCreates \/ PassExecutes
    BY <1>0, <1>2, <2>8 DEF PassCreates, PassExecutes, RowsFit, RowNext
  <2>9. CASE RunStep
    <3>1. CASE Connects \/ Commits
      <4>1. executing \in Row
        BY <3>1 DEF Connects, Commits, Advance, CommitRow, Open
      <4> QED
        BY <3>1, <4>1 DEF Connects, Commits, RowNext
    <3>2. CASE Aborts \/ Resolves \/ Ends
      BY <1>3, <3>2 DEF Aborts, Resolves, Ends, RowNext
    <3> QED
      BY <2>9, <3>1, <3>2 DEF RunStep
  <2>10. CASE Parks
    BY <1>3, <2>10 DEF Parks, RowNext
  <2>11. CASE Suspend \/ Resume \/ Close
    BY <2>11 DEF Suspend, Resume, Close
  <2>12. CASE Restart
    BY <2>12 DEF Restart, RowNext
  <2> QED
    BY <1>4, <2>1, <2>2, <2>3, <2>4, <2>5, <2>6, <2>7, <2>8, <2>9, <2>10, <2>11, <2>12
       DEF QueueNext, DrainStep, PassMoves, PassStep
<1>5. CASE UNCHANGED vars
  BY <1>5 DEF vars
<1> QED
  BY <1>4, <1>5

\* Every step of the owner, the drain, the scheduler and the recoveries, and the end
\* of the process, does to a row only what the row protocol allows.
THEOREM QueueImplementsRows == QueueSpec => RowSpec
<1>1. QueueInit => RowInit
  BY DEF QueueInit
<1>2. QueueInv /\ [QueueNext]_vars => [RowNext]_rowVars
  BY RowsStep
<1> QED
  BY <1>1, <1>2, QueueAlwaysInv, PTL DEF QueueSpec, RowSpec

\* A row that does not exist has no decision; one that is resolved has.
RowsAreDecided ==
    \A t \in Row : /\ phase[t] = "new" => decision[t] = "none"
                   /\ phase[t] = "resolved" => decision[t] # "none"

\* No commit becomes an abort and no abort a commit.
DecisionsAreFinal ==
    [][\A t \in Row : decision[t] # "none" => decision'[t] = decision[t]]_rowVars

LEMMA DecidedInitially ==
    ASSUME RowInit
    PROVE  RowTypeOK /\ RowsAreDecided
BY DEF RowInit, RowTypeOK, RowsAreDecided

LEMMA DecidedStep ==
    ASSUME RowTypeOK, RowsAreDecided, [RowNext]_rowVars
    PROVE  /\ RowTypeOK' /\ RowsAreDecided'
           /\ \A t \in Row : decision[t] # "none" => decision'[t] = decision[t]
<1>1. ASSUME NEW t \in Row,
             \/ Create(t) \/ Begin(t) \/ Advance(t) \/ Abort(t) \/ CommitRow(t) \/ Resolve(t) \/ Park(t)
      PROVE  /\ RowTypeOK' /\ RowsAreDecided'
             /\ \A u \in Row : decision[u] # "none" => decision'[u] = decision[u]
  <2>1. CASE Create(t) \/ Begin(t) \/ Advance(t)
    BY <2>1 DEF Create, Begin, Advance, Open, RowTypeOK, RowsAreDecided
  <2>2. CASE Abort(t)
    BY <2>2 DEF Abort, RowTypeOK, RowsAreDecided
  <2>3. CASE CommitRow(t)
    BY <2>3 DEF CommitRow, Open, RowTypeOK, RowsAreDecided
  <2>4. CASE Resolve(t) \/ Park(t)
    BY <2>4 DEF Resolve, Park, Open, RowTypeOK, RowsAreDecided
  <2> QED
    BY <1>1, <2>1, <2>2, <2>3, <2>4
<1>2. CASE Release \/ UNCHANGED rowVars
  BY <1>2 DEF Release, rowVars, RowTypeOK, RowsAreDecided
<1> QED
  BY <1>1, <1>2 DEF RowNext

\* Whoever uses the rows under the protocol of coordinator.py: they are decided once,
\* before they are resolved, and a decision read by a thread stays true.
THEOREM RowsKeepDecisions == RowSpec => []RowsAreDecided /\ DecisionsAreFinal
<1>1. RowInit => RowTypeOK /\ RowsAreDecided
  BY DecidedInitially
<1>2. RowTypeOK /\ RowsAreDecided /\ [RowNext]_rowVars => (RowTypeOK /\ RowsAreDecided)'
  BY DecidedStep
<1>3. RowTypeOK /\ RowsAreDecided /\ [RowNext]_rowVars
         => [\A t \in Row : decision[t] # "none" => decision'[t] = decision[t]]_rowVars
  BY DecidedStep
<1> QED
  BY <1>1, <1>2, <1>3, PTL DEF RowSpec, DecisionsAreFinal

\* A chosen or automatic exchange is decided once, though the drain, the scheduler,
\* the owner's cancel and a recovery after a restart all write its row.
THEOREM QueueKeepsDecisions == QueueSpec => []RowsAreDecided /\ DecisionsAreFinal
BY QueueImplementsRows, RowsKeepDecisions
==============================================================================
