-------------------------- MODULE ParticipantProofs --------------------------
(* What an adventure promises to any caller, proved for any set of adventures, *)
(* any number of exchanges and any amount of play.                             *)
EXTENDS Participant, TLAPS

USE NAssumption, MaxProgressAssumption, NothingAssumption DEF Exchange, NoExchange

------------------------------------------------------------------------------
(* Types. *)

LEMMA StateFields ==
    ASSUME NEW s \in GameState
    PROVE  s.progress \in 0 .. MaxProgress /\ s.got \in SUBSET Exchange /\ s # Nothing
BY DEF GameState

LEMMA CheckpointFields ==
    ASSUME NEW c \in Checkpoint
    PROVE  c.tag \in 0 .. N /\ c.state \in GameState /\ c # Nothing
BY DEF Checkpoint

LEMMA ConstantsTyped ==
    /\ PowerOn \in GameState
    /\ NoHold \in Holds
    /\ NoPreparation \in Preparations
BY DEF PowerOn, GameState, NoHold, Holds, NoPreparation, Preparations

\* What the type invariant says of one adventure, ready for the provers.
LEMMA AdventureTyped ==
    ASSUME ParticipantTypeOK, NEW a \in Adventure
    PROVE  /\ worker[a] \in {"down", "up", "orphan"}
           /\ Running(a) => game[a] \in GameState
           /\ saves[a] \in [0 .. N -> GameState \cup {Nothing}]
           /\ barrier[a] \in 0 .. N
           /\ hold[a] \in Holds
           /\ preparation[a] \in Preparations
           /\ RestartPoint(a) \in GameState
           /\ \A t \in Exchange : /\ record[a][t] \in RecordPhases
                                  /\ source[a][t] \in Checkpoint \cup {Nothing}
BY ConstantsTyped DEF ParticipantTypeOK, Running, RestartPoint

LEMMA TypeInit == ParticipantInit => ParticipantTypeOK
BY ConstantsTyped, StateFields DEF ParticipantInit, ParticipantTypeOK, RecordPhases, Running

\* The value a prepared exchange will publish, and what an abort goes back to.
LEMMA ResultsTyped ==
    ASSUME ParticipantTypeOK, NEW a \in Adventure, NEW t \in Exchange
    PROVE  /\ source[a][t] # Nothing => Exchanged(a, t) \in GameState
           /\ source[a][t] # Nothing => Published(a, t) \in GameState
           /\ Running(a) => Restored(a, t) \in GameState
<1>1. source[a][t] \in Checkpoint \cup {Nothing}
  BY DEF ParticipantTypeOK
<1>2. ASSUME source[a][t] # Nothing
      PROVE  source[a][t].state \in GameState /\ Exchanged(a, t) \in GameState
  <2>1. source[a][t].state \in GameState
    BY <1>1, <1>2, CheckpointFields
  <2> QED
    BY <2>1, StateFields DEF Exchanged, GameState
<1>3. saves[a][t] \in GameState \cup {Nothing}
  BY DEF ParticipantTypeOK
<1> QED
  BY <1>2, <1>3, AdventureTyped DEF Published, Restored, Reloads

LEMMA TypeGameplay ==
    ASSUME ParticipantTypeOK, NEW a \in Adventure, Gameplay(a)
    PROVE  ParticipantTypeOK'
<1>0. /\ Running(a) => game[a] \in GameState
      /\ preparation[a] \in Preparations
      /\ barrier[a] \in 0 .. N
  BY AdventureTyped
<1>1. \A ph \in {"ready", "failed", "cancelled", "stranded"} :
         [id |-> preparation[a].id, phase |-> ph] \in Preparations
  BY <1>0 DEF Preparations
<1>2. Running(a) => [saves[a] EXCEPT ![barrier[a]] = game[a]]
                       \in [0 .. N -> GameState \cup {Nothing}]
  BY <1>0, AdventureTyped
<1>3. CASE Play(a)
  <2>1. [progress |-> game[a].progress + 1, got |-> game[a].got] \in GameState
    BY <1>0, <1>3 DEF Play, GameState
  <2> QED
    BY <1>3, <2>1, StateFields DEF ParticipantTypeOK, Running, Play, durable
<1>4. CASE Autosave(a)
  BY <1>2, <1>4 DEF ParticipantTypeOK, Running, Autosave
<1>5. CASE PreparationReady(a)
  <2>1. [id |-> preparation[a].id, source |-> [tag |-> barrier[a], state |-> game[a]]] \in Holds
    BY <1>0, <1>5 DEF PreparationReady, Holds, Checkpoint, Preparations
  <2> QED
    BY <1>1, <1>2, <1>5, <2>1 DEF ParticipantTypeOK, Running, PreparationReady
<1>6. CASE PreparationInterrupted(a)
  <2>1. [id |-> preparation[a].id, source |-> Nothing] \in Holds
    BY <1>0 DEF Holds, Preparations
  <2>2. /\ hold' \in [Adventure -> Holds]
        /\ preparation' \in [Adventure -> Preparations]
    BY <1>1, <1>6, <2>1 DEF ParticipantTypeOK, PreparationInterrupted
  <2>3. saves' \in [Adventure -> [0 .. N -> GameState \cup {Nothing}]]
    BY <1>2, <1>6 DEF ParticipantTypeOK, PreparationInterrupted
  <2> QED
    BY <1>6, <2>2, <2>3 DEF ParticipantTypeOK, Running, PreparationInterrupted
<1>7. CASE PreparationEnds(a)
  <2>1. preparation' \in [Adventure -> Preparations]
    BY <1>1, <1>7 DEF ParticipantTypeOK, PreparationEnds
  <2> QED
    BY <1>7, <2>1 DEF ParticipantTypeOK, Running, PreparationEnds
<1> QED
  BY <1>3, <1>4, <1>5, <1>6, <1>7 DEF Gameplay

\* A promotion needs the source that a committable record has.
LEMMA TypePromote ==
    ASSUME ParticipantTypeOK, NEW a \in Adventure, NEW t \in Exchange,
           source[a][t] # Nothing, Promote(a, t)
    PROVE  /\ saves' \in [Adventure -> [0 .. N -> GameState \cup {Nothing}]]
           /\ barrier' \in [Adventure -> 0 .. N]
           /\ hold' \in [Adventure -> Holds]
<1>1. Published(a, t) \in GameState
  BY ResultsTyped
<1>2. [saves[a] EXCEPT ![t] = Published(a, t)] \in [0 .. N -> GameState \cup {Nothing}]
  BY <1>1, AdventureTyped
<1>3. [id |-> t, source |-> source[a][t]] \in Holds
  BY AdventureTyped DEF Holds
<1> QED
  BY <1>2, <1>3 DEF Promote, ParticipantTypeOK

\* How a handler may write a record, and that it is one of the phases.
Written(a, t, p) == record' = [record EXCEPT ![a][t] = p]
RecordWritten(a, t) ==
    \/ record' = record
    \/ Written(a, t, "preparing") \/ Written(a, t, "prepared") \/ Written(a, t, "staged")
    \/ Written(a, t, "committed") \/ Written(a, t, "applied") \/ Written(a, t, "released")
    \/ Written(a, t, "aborting") \/ Written(a, t, "aborted")

LEMMA WrittenTyped ==
    ASSUME ParticipantTypeOK, NEW a \in Adventure, NEW t \in Exchange,
           NEW p \in RecordPhases, Written(a, t, p)
    PROVE  record' \in [Adventure -> [Exchange -> RecordPhases]]
BY DEF ParticipantTypeOK, Written

LEMMA RecordTyped ==
    ASSUME ParticipantTypeOK, NEW a \in Adventure, NEW t \in Exchange, RecordWritten(a, t)
    PROVE  record' \in [Adventure -> [Exchange -> RecordPhases]]
<1>1. /\ "preparing" \in RecordPhases /\ "prepared" \in RecordPhases
      /\ "staged" \in RecordPhases /\ "committed" \in RecordPhases
      /\ "applied" \in RecordPhases /\ "released" \in RecordPhases
      /\ "aborting" \in RecordPhases /\ "aborted" \in RecordPhases
  BY DEF RecordPhases, CommitPhases, AbortPhases
<1>2. CASE record' = record
  BY <1>2 DEF ParticipantTypeOK
<1> QED
  BY <1>1, <1>2, WrittenTyped DEF RecordWritten

\* Requests that start or refuse nothing else than a record.
LEMMA TypePrepareAndStage ==
    ASSUME ParticipantTypeOK, NEW a \in Adventure, NEW t \in Exchange,
           \/ PrepareBegins(a, t) \/ PrepareSucceeds(a, t) \/ PrepareRefused(a, t)
           \/ StageSucceeds(a, t)
    PROVE  ParticipantTypeOK'
<1>1. RecordWritten(a, t)
  BY DEF PrepareBegins, PrepareSucceeds, PrepareRefused, StageSucceeds, RecordWritten, Written
<1>2. record' \in [Adventure -> [Exchange -> RecordPhases]]
  BY <1>1, RecordTyped
<1>3. [id |-> t, phase |-> "travelling"] \in Preparations
  BY DEF Preparations
<1>4. preparation' \in [Adventure -> Preparations]
  BY <1>3 DEF ParticipantTypeOK, PrepareBegins, PrepareSucceeds, PrepareRefused, StageSucceeds
<1>5. hold[a].source \in Checkpoint \cup {Nothing}
  BY AdventureTyped DEF Holds
<1>6. source' = source \/ source' = [source EXCEPT ![a][t] = hold[a].source]
  BY DEF PrepareBegins, PrepareSucceeds, PrepareRefused, StageSucceeds
<1>7. source' \in [Adventure -> [Exchange -> Checkpoint \cup {Nothing}]]
  <2>1. CASE source' = source
    BY <2>1 DEF ParticipantTypeOK
  <2>2. CASE source' = [source EXCEPT ![a][t] = hold[a].source]
    BY <1>5, <2>2 DEF ParticipantTypeOK
  <2> QED
    BY <1>6, <2>1, <2>2
<1>8. UNCHANGED <<worker, game, saves, barrier, hold>>
  BY DEF PrepareBegins, PrepareSucceeds, PrepareRefused, StageSucceeds
<1> QED
  BY <1>2, <1>4, <1>7, <1>8 DEF ParticipantTypeOK, Running

\* apply publishes what the source and the exchange make, also when interrupted.
LEMMA TypeApply ==
    ASSUME ParticipantTypeOK, NEW a \in Adventure, NEW t \in Exchange,
           Committable(a, t) => source[a][t] # Nothing,
           ApplySucceeds(a, t) \/ ApplyInterrupted(a, t)
    PROVE  ParticipantTypeOK'
<1>1. RecordWritten(a, t)
  BY DEF ApplySucceeds, ApplyInterrupted, RecordWritten, Written
<1>2. record' \in [Adventure -> [Exchange -> RecordPhases]]
  BY <1>1, RecordTyped
<1>3. UNCHANGED <<worker, preparation, source>> /\ Running(a)
  BY DEF ApplySucceeds, ApplyInterrupted
<1>4. CASE UNCHANGED <<game, saves, barrier, hold>>
  BY <1>2, <1>3, <1>4 DEF ParticipantTypeOK, Running
<1>5. CASE ~UNCHANGED <<game, saves, barrier, hold>>
  <2>1. source[a][t] # Nothing
    BY <1>5 DEF ApplySucceeds, ApplyInterrupted
  <2>2. Published(a, t) \in GameState
    BY <2>1, ResultsTyped
  <2>3. game' = game \/ game' = [game EXCEPT ![a] = Published(a, t)]
    BY DEF ApplySucceeds, ApplyInterrupted
  <2>4. \/ Promote(a, t)
        \/ saves' = [saves EXCEPT ![a][t] = Published(a, t)] /\ UNCHANGED <<barrier, hold>>
    BY <1>5 DEF ApplySucceeds, ApplyInterrupted
  <2>5. /\ saves' \in [Adventure -> [0 .. N -> GameState \cup {Nothing}]]
        /\ barrier' \in [Adventure -> 0 .. N]
        /\ hold' \in [Adventure -> Holds]
    <3>1. CASE Promote(a, t)
      BY <2>1, <3>1, TypePromote
    <3>2. CASE saves' = [saves EXCEPT ![a][t] = Published(a, t)] /\ UNCHANGED <<barrier, hold>>
      <4>1. [saves[a] EXCEPT ![t] = Published(a, t)] \in [0 .. N -> GameState \cup {Nothing}]
        BY <2>2, AdventureTyped
      <4> QED
        BY <3>2, <4>1 DEF ParticipantTypeOK
    <3> QED
      BY <2>4, <3>1, <3>2
  <2>6. /\ game' \in [Adventure -> GameState \cup {Nothing}]
        /\ \A b \in Adventure : Running(b) <=> game'[b] # Nothing
    BY <1>3, <2>2, <2>3, StateFields DEF ParticipantTypeOK, Running
  <2> QED
    BY <1>2, <1>3, <2>5, <2>6 DEF ParticipantTypeOK, Running
<1> QED
  BY <1>4, <1>5

LEMMA TypeReleaseAndAbort ==
    ASSUME ParticipantTypeOK, NEW a \in Adventure, NEW t \in Exchange,
           ReleaseSucceeds(a, t) \/ AbortSucceeds(a, t) \/ AbortInterrupted(a, t)
    PROVE  ParticipantTypeOK'
<1>1. RecordWritten(a, t)
  BY DEF ReleaseSucceeds, AbortSucceeds, AbortInterrupted, RecordWritten, Written
<1>2. record' \in [Adventure -> [Exchange -> RecordPhases]]
  BY <1>1, RecordTyped
<1>3. UNCHANGED <<worker, saves, barrier, source>> /\ Running(a)
  BY DEF ReleaseSucceeds, AbortSucceeds, AbortInterrupted
<1>4. /\ ClearedHold(a, t) \in Holds
      /\ ClearedPreparation(a, t) \in Preparations
  BY AdventureTyped, ConstantsTyped DEF ClearedHold, ClearedPreparation
<1>5. \/ hold' = hold \/ hold' = [hold EXCEPT ![a] = NoHold]
      \/ hold' = [hold EXCEPT ![a] = ClearedHold(a, t)]
  BY DEF ReleaseSucceeds, AbortSucceeds, AbortInterrupted
<1>6. \/ preparation' = preparation \/ preparation' = [preparation EXCEPT ![a] = NoPreparation]
      \/ preparation' = [preparation EXCEPT ![a] = ClearedPreparation(a, t)]
  BY DEF ReleaseSucceeds, AbortSucceeds, AbortInterrupted
<1>7. hold' \in [Adventure -> Holds] /\ preparation' \in [Adventure -> Preparations]
  <2>1. hold \in [Adventure -> Holds] /\ preparation \in [Adventure -> Preparations]
    BY DEF ParticipantTypeOK
  <2>2. hold' \in [Adventure -> Holds]
    BY <1>4, <1>5, <2>1, ConstantsTyped
  <2>3. preparation' \in [Adventure -> Preparations]
    BY <1>4, <1>6, <2>1, ConstantsTyped
  <2> QED
    BY <2>2, <2>3
<1>8. game' = game \/ game' = [game EXCEPT ![a] = Restored(a, t)]
  BY DEF ReleaseSucceeds, AbortSucceeds, AbortInterrupted
<1>9. /\ game' \in [Adventure -> GameState \cup {Nothing}]
      /\ \A b \in Adventure : Running(b) <=> game'[b] # Nothing
  <2>1. Restored(a, t) \in GameState /\ Restored(a, t) # Nothing
    BY <1>3, ResultsTyped, StateFields
  <2> QED
    BY <1>3, <1>8, <2>1 DEF ParticipantTypeOK, Running
<1> QED
  BY <1>2, <1>3, <1>7, <1>9 DEF ParticipantTypeOK, Running

LEMMA TypeRequests ==
    ASSUME ParticipantTypeOK, NEW a \in Adventure, NEW t \in Exchange,
           Committable(a, t) => source[a][t] # Nothing,
           Requests(a, t)
    PROVE  ParticipantTypeOK'
<1>1. CASE UNCHANGED participantVars
  BY <1>1 DEF participantVars, ParticipantTypeOK, Running
<1> QED
  BY <1>1, TypePrepareAndStage, TypeApply, TypeReleaseAndAbort
  DEF Requests, PrepareWaits, StageRefused, ApplyRefused, ReleaseRefused, AbortRefused

\* What a restart finds on disk.
DurableTyped ==
    /\ saves \in [Adventure -> [0 .. N -> GameState \cup {Nothing}]]
    /\ barrier \in [Adventure -> 0 .. N]
    /\ hold \in [Adventure -> Holds]
    /\ preparation \in [Adventure -> Preparations]
    /\ record \in [Adventure -> [Exchange -> RecordPhases]]

LEMMA TypeWorkerLife ==
    ASSUME ParticipantTypeOK, NEW a \in Adventure,
           \A u \in Exchange : Committable(a, u) => source[a][u] # Nothing,
           WorkerLife(a)
    PROVE  ParticipantTypeOK'
<1>1. CASE WorkerCrashes(a)
  BY <1>1 DEF WorkerCrashes, durable, ParticipantTypeOK, Running
<1>2. CASE WorkerStops(a)
  <2>1. [saves[a] EXCEPT ![barrier[a]] = game[a]] \in [0 .. N -> GameState \cup {Nothing}]
    BY <1>2, AdventureTyped DEF WorkerStops
  <2>2. saves' \in [Adventure -> [0 .. N -> GameState \cup {Nothing}]]
    BY <1>2, <2>1 DEF WorkerStops, ParticipantTypeOK
  <2> QED
    BY <1>2, <2>2 DEF WorkerStops, ParticipantTypeOK, Running
<1>3. CASE ParentLost(a)
  BY <1>3 DEF ParentLost, durable, ParticipantTypeOK, Running
<1>4. CASE WorkerStarts(a)
  <2>1. \A p \in Preparations : Stranded(a, p) \in Preparations
    BY DEF Stranded, Preparations
  <2>2. \A t \in Exchange : ClearedHold(a, t) \in Holds /\ ClearedPreparation(a, t) \in Preparations
    BY ConstantsTyped, AdventureTyped DEF ClearedHold, ClearedPreparation
  <2>3. \A t \in Exchange : [id |-> t, source |-> source[a][t]] \in Holds
    BY AdventureTyped DEF Holds
  <2>4. "aborted" \in RecordPhases
    BY DEF RecordPhases, AbortPhases
  <2>5. DurableTyped'
    <3>1. CASE RecoverNothing(a)
      BY <2>1, <3>1 DEF RecoverNothing, ParticipantTypeOK, DurableTyped
    <3>2. ASSUME NEW t \in Exchange, RecoverCommit(a, t)
          PROVE  DurableTyped'
      BY <2>1, <3>2, TypePromote DEF RecoverCommit, ParticipantTypeOK, DurableTyped, Committable
    <3>3. ASSUME NEW t \in Exchange, RecoverAbort(a, t)
          PROVE  DurableTyped'
      BY <2>1, <2>2, <2>4, <3>3 DEF RecoverAbort, ParticipantTypeOK, DurableTyped
    <3>4. ASSUME NEW t \in Exchange, RecoverUndecided(a, t)
          PROVE  DurableTyped'
      BY <2>1, <2>3, <3>4 DEF RecoverUndecided, ParticipantTypeOK, DurableTyped
    <3> QED
      BY <1>4, <3>1, <3>2, <3>3, <3>4 DEF WorkerStarts
  <2>6. RestartPoint(a)' \in GameState
    BY <2>5, ConstantsTyped DEF RestartPoint, DurableTyped
  <2> QED
    BY <1>4, <2>5, <2>6, StateFields DEF WorkerStarts, ParticipantTypeOK, DurableTyped, Running
<1> QED
  BY <1>1, <1>2, <1>3, <1>4 DEF WorkerLife

\* Nothing of adventure b changed.
Untouched(b) ==
    /\ worker'[b] = worker[b] /\ game'[b] = game[b]
    /\ saves'[b] = saves[b] /\ barrier'[b] = barrier[b]
    /\ hold'[b] = hold[b] /\ preparation'[b] = preparation[b]
    /\ record'[b] = record[b] /\ source'[b] = source[b]

LEMMA InvFrame ==
    ASSUME NEW b \in Adventure, AdventureInv(b), Untouched(b)
    PROVE  AdventureInv(b)'
<1>1. /\ Unfinished(b)' = Unfinished(b) /\ Received(b)' = Received(b)
      /\ RestartPoint(b)' = RestartPoint(b)
  BY DEF Untouched, Unfinished, Received, RestartPoint
<1>2. Reservation(b)' /\ Covered(b)' /\ BarrierHasSave(b)'
  BY <1>1 DEF Untouched, AdventureInv, Reservation, Covered, BarrierHasSave, HeldFor
<1>3. SourcesAreNewest(b)'
  BY DEF Untouched, AdventureInv, SourcesAreNewest, Uncommitted, IsRestartPoint, Exchanged,
         Reloads, HeldFor, Running
<1>4. Lineage(b)'
  BY <1>1 DEF Untouched, AdventureInv, Lineage, Running
<1> QED
  BY <1>2, <1>3, <1>4 DEF AdventureInv

LEMMA ExchangeIds == \A t \in Exchange : t \in 0 .. N /\ t # NoExchange
OBVIOUS

\* While nothing holds the adventure no exchange has a source to keep.
LEMMA FreeAdventure ==
    ASSUME NEW a \in Adventure, AdventureInv(a), hold[a] = NoHold
    PROVE  /\ \A t \in Exchange : /\ ~HeldFor(a, t)
                                  /\ record[a][t] \notin {"prepared", "staged", "committed", "applied"}
                                  /\ ~Uncommitted(a, t)
           /\ Running(a) => game[a].got = Received(a) /\ game[a].progress >= RestartPoint(a).progress
<1>0. hold[a].id = NoExchange
  BY DEF NoHold
<1>1. \A t \in Exchange : ~HeldFor(a, t)
  BY <1>0, ExchangeIds DEF HeldFor
<1> QED
  BY <1>1 DEF AdventureInv, Covered, Uncommitted, Reloads, Lineage

LEMMA InvPlay ==
    ASSUME ParticipantTypeOK, NEW a \in Adventure, AdventureInv(a), Play(a)
    PROVE  AdventureInv(a)'
<1>1. /\ UNCHANGED durable /\ hold[a] = NoHold /\ Running(a)
      /\ game'[a] = [progress |-> game[a].progress + 1, got |-> game[a].got]
      /\ worker' = worker
  BY DEF Play, ParticipantTypeOK
<1>2. /\ Unfinished(a)' = Unfinished(a) /\ Received(a)' = Received(a)
      /\ RestartPoint(a)' = RestartPoint(a)
      /\ UNCHANGED <<saves, barrier, hold, preparation, record, source>>
  BY <1>1 DEF durable, Unfinished, Received, RestartPoint
<1>3. Reservation(a)' /\ Covered(a)' /\ BarrierHasSave(a)'
  BY <1>2 DEF AdventureInv, Reservation, Covered, BarrierHasSave, HeldFor
<1>4. SourcesAreNewest(a)'
  BY <1>1, <1>2, FreeAdventure DEF AdventureInv, SourcesAreNewest, Uncommitted, IsRestartPoint,
     Exchanged, Reloads, HeldFor, Running
<1>5. Lineage(a)'
  <2>1. game[a].progress \in Nat /\ RestartPoint(a).progress \in Nat
    BY <1>1, AdventureTyped, StateFields
  <2> QED
    BY <1>1, <1>2, <2>1, FreeAdventure DEF AdventureInv, Lineage, Running
<1> QED
  BY <1>3, <1>4, <1>5 DEF AdventureInv

LEMMA InvAutosave ==
    ASSUME ParticipantTypeOK, NEW a \in Adventure, AdventureInv(a), Autosave(a)
    PROVE  AdventureInv(a)'
<1>1. /\ UNCHANGED <<worker, game, barrier, hold, preparation, record, source>>
      /\ hold[a] = NoHold /\ Running(a)
      /\ saves'[a] = [saves[a] EXCEPT ![barrier[a]] = game[a]]
  BY DEF Autosave, ParticipantTypeOK
<1>2. \A u \in 0 .. N : saves'[a][u] = IF u = barrier[a] THEN game[a] ELSE saves[a][u]
  BY <1>1, AdventureTyped
<1>3. game[a] \in GameState /\ game[a] # Nothing /\ barrier[a] \in 0 .. N
  BY <1>1, AdventureTyped, StateFields
<1>4. /\ Unfinished(a)' = Unfinished(a) /\ Received(a)' = Received(a)
      /\ RestartPoint(a)' = game[a]
  BY <1>1, <1>2, <1>3 DEF Unfinished, Received, RestartPoint
<1>5. Reservation(a)' /\ Covered(a)'
  BY <1>1, <1>4 DEF AdventureInv, Reservation, Covered, HeldFor
<1>6. BarrierHasSave(a)'
  BY <1>1, <1>2, <1>3, ExchangeIds DEF AdventureInv, BarrierHasSave
<1>7. SourcesAreNewest(a)'
  BY <1>1, FreeAdventure DEF AdventureInv, SourcesAreNewest, Uncommitted, IsRestartPoint,
     Exchanged, Reloads, HeldFor, Running
<1>8. Lineage(a)'
  <2>1. game[a].progress \in Nat
    BY <1>3, StateFields
  <2> QED
    BY <1>1, <1>4, <2>1, FreeAdventure DEF AdventureInv, Lineage, Running
<1> QED
  BY <1>5, <1>6, <1>7, <1>8 DEF AdventureInv

\* The exchange a preparation travels for has an unfinished record, and no source.
LEMMA TravellingOwner ==
    ASSUME ParticipantTypeOK, NEW a \in Adventure, AdventureInv(a),
           preparation[a].phase = "travelling", hold[a] = NoHold
    PROVE  LET p == preparation[a].id IN
           /\ p \in Exchange /\ p \in Unfinished(a) /\ source[a][p] = Nothing
           /\ record[a][p] \in {"preparing", "aborting"}
           /\ \A u \in Exchange : u # p => record[a][u] \in Final \cup {"none"}
<1>1. preparation[a].id \in Unfinished(a) /\ source[a][preparation[a].id] = Nothing
  BY DEF AdventureInv, Reservation, SourcesAreNewest
<1>2. preparation[a].id \in Exchange
  BY <1>1 DEF Unfinished
<1>3. record[a][preparation[a].id] \in {"preparing", "aborting"}
  BY <1>1, <1>2, FreeAdventure, AdventureTyped
  DEF Unfinished, RecordPhases, CommitPhases, AbortPhases, Final
<1> QED
  BY <1>1, <1>2, <1>3 DEF AdventureInv, Reservation, Unfinished

LEMMA InvPreparationReady ==
    ASSUME ParticipantTypeOK, NEW a \in Adventure, AdventureInv(a), PreparationReady(a)
    PROVE  AdventureInv(a)'
<1> DEFINE p == preparation[a].id
<1>1. /\ UNCHANGED <<worker, game, barrier, record, source>>
      /\ hold[a] = NoHold /\ Running(a) /\ preparation[a].phase = "travelling"
      /\ saves'[a] = [saves[a] EXCEPT ![barrier[a]] = game[a]]
      /\ hold'[a] = [id |-> p, source |-> [tag |-> barrier[a], state |-> game[a]]]
      /\ preparation'[a] = [id |-> p, phase |-> "ready"]
  BY DEF PreparationReady, ParticipantTypeOK
<1>2. \A u \in 0 .. N : saves'[a][u] = IF u = barrier[a] THEN game[a] ELSE saves[a][u]
  BY <1>1, AdventureTyped
<1>3. game[a] \in GameState /\ game[a] # Nothing /\ barrier[a] \in 0 .. N
  BY <1>1, AdventureTyped, StateFields
<1>4. /\ Unfinished(a)' = Unfinished(a) /\ Received(a)' = Received(a)
      /\ RestartPoint(a)' = game[a]
  BY <1>1, <1>2, <1>3 DEF Unfinished, Received, RestartPoint
<1>5. /\ p \in Exchange /\ p \in Unfinished(a) /\ source[a][p] = Nothing
      /\ record[a][p] \in {"preparing", "aborting"}
      /\ \A u \in Exchange : u # p => record[a][u] \in Final \cup {"none"}
  BY <1>1, TravellingOwner
<1>6. hold'[a].id = p /\ hold'[a].source = [tag |-> barrier[a], state |-> game[a]]
  BY <1>1
<1>7. Reservation(a)'
  BY <1>1, <1>4, <1>5, <1>6, ExchangeIds DEF AdventureInv, Reservation
<1>8. Covered(a)'
  BY <1>1, <1>5 DEF Covered, Final
<1>9. BarrierHasSave(a)'
  BY <1>1, <1>2, <1>3, ExchangeIds DEF AdventureInv, BarrierHasSave
<1>10. SourcesAreNewest(a)'
  <2>1. \A u \in Exchange : ~Uncommitted(a, u)'
    BY <1>1, <1>5 DEF Uncommitted, Reloads, Final
  <2>2. IsRestartPoint(a, hold[a].source)' /\ hold'[a].source.state = game[a]
    BY <1>1, <1>2, <1>3, <1>6 DEF IsRestartPoint
  <2>3. \A u \in Exchange : record[a][u] \notin {"prepared", "staged", "committed"}
    BY <1>5 DEF Final
  <2> QED
    BY <1>1, <2>1, <2>2, <2>3 DEF AdventureInv, SourcesAreNewest, Running
<1>11. Lineage(a)'
  <2>1. game[a].progress \in Nat
    BY <1>3, StateFields
  <2> QED
    BY <1>1, <1>4, <2>1, FreeAdventure DEF AdventureInv, Lineage, Running
<1> QED
  BY <1>7, <1>8, <1>9, <1>10, <1>11 DEF AdventureInv

LEMMA InvPreparationInterrupted ==
    ASSUME ParticipantTypeOK, NEW a \in Adventure, AdventureInv(a), PreparationInterrupted(a)
    PROVE  AdventureInv(a)'
<1> DEFINE p == preparation[a].id
<1>1. /\ UNCHANGED <<worker, game, barrier, record, source>>
      /\ hold[a] = NoHold /\ Running(a) /\ preparation[a].phase = "travelling"
      /\ hold'[a] = [id |-> p, source |-> Nothing]
      /\ preparation'[a] = [id |-> p, phase |-> "stranded"]
      /\ saves'[a] = saves[a] \/ saves'[a] = [saves[a] EXCEPT ![barrier[a]] = game[a]]
  BY DEF PreparationInterrupted, ParticipantTypeOK
<1>2. \/ \A u \in 0 .. N : saves'[a][u] = saves[a][u]
      \/ \A u \in 0 .. N : saves'[a][u] = IF u = barrier[a] THEN game[a] ELSE saves[a][u]
  BY <1>1, AdventureTyped
<1>3. game[a] \in GameState /\ game[a] # Nothing /\ barrier[a] \in 0 .. N
  BY <1>1, AdventureTyped, StateFields
<1>4. /\ Unfinished(a)' = Unfinished(a) /\ Received(a)' = Received(a)
      /\ RestartPoint(a)' \in {game[a], RestartPoint(a)}
  BY <1>1, <1>2, <1>3 DEF Unfinished, Received, RestartPoint
<1>5. /\ p \in Exchange /\ p \in Unfinished(a) /\ source[a][p] = Nothing
      /\ record[a][p] \in {"preparing", "aborting"}
      /\ \A u \in Exchange : u # p => record[a][u] \in Final \cup {"none"}
  BY <1>1, TravellingOwner
<1>6. hold'[a].id = p /\ hold'[a].source = Nothing
  BY <1>1
<1>7. Reservation(a)'
  BY <1>1, <1>4, <1>5, <1>6, ExchangeIds DEF AdventureInv, Reservation
<1>8. Covered(a)'
  BY <1>1, <1>5 DEF Covered, Final
<1>9. BarrierHasSave(a)'
  BY <1>1, <1>2, <1>3, ExchangeIds DEF AdventureInv, BarrierHasSave
<1>10. SourcesAreNewest(a)'
  <2>1. \A u \in Exchange : ~Uncommitted(a, u)'
    BY <1>1, <1>5 DEF Uncommitted, Reloads, Final
  <2>2. \A u \in Exchange : record[a][u] \notin {"prepared", "staged", "committed"}
    BY <1>5 DEF Final
  <2> QED
    BY <1>1, <1>6, <2>1, <2>2 DEF AdventureInv, SourcesAreNewest, Running
<1>11. Lineage(a)'
  <2>1. game[a].progress \in Nat
    BY <1>3, StateFields
  <2> QED
    BY <1>1, <1>4, <2>1, FreeAdventure DEF AdventureInv, Lineage, Running
<1> QED
  BY <1>7, <1>8, <1>9, <1>10, <1>11 DEF AdventureInv

LEMMA InvPreparationEnds ==
    ASSUME ParticipantTypeOK, NEW a \in Adventure, AdventureInv(a), PreparationEnds(a)
    PROVE  AdventureInv(a)'
<1>1. /\ UNCHANGED <<worker, game, saves, barrier, hold, record, source>>
      /\ preparation[a].phase = "travelling"
      /\ preparation'[a].id = preparation[a].id
      /\ preparation'[a].phase \in {"failed", "cancelled"}
  BY DEF PreparationEnds, ParticipantTypeOK
<1>2. /\ Unfinished(a)' = Unfinished(a) /\ Received(a)' = Received(a)
      /\ RestartPoint(a)' = RestartPoint(a)
  BY <1>1 DEF Unfinished, Received, RestartPoint
<1>3. Reservation(a)' /\ Covered(a)' /\ BarrierHasSave(a)'
  BY <1>1, <1>2 DEF AdventureInv, Reservation, Covered, BarrierHasSave, HeldFor
<1>4. SourcesAreNewest(a)'
  BY <1>1 DEF AdventureInv, SourcesAreNewest, Uncommitted, IsRestartPoint, Exchanged,
     Reloads, HeldFor, Running
<1>5. Lineage(a)'
  BY <1>1, <1>2 DEF AdventureInv, Lineage, Running
<1> QED
  BY <1>3, <1>4, <1>5 DEF AdventureInv

\* A record that leaves the commit phases alone leaves what was received alone.
LEMMA WrittenAt ==
    ASSUME ParticipantTypeOK, NEW a \in Adventure, NEW t \in Exchange, NEW p, Written(a, t, p)
    PROVE  \A u \in Exchange : record'[a][u] = IF u = t THEN p ELSE record[a][u]
BY DEF Written, ParticipantTypeOK

LEMMA ReceivedKept ==
    ASSUME ParticipantTypeOK, NEW a \in Adventure, NEW t \in Exchange, NEW p,
           \A u \in Exchange : record'[a][u] = IF u = t THEN p ELSE record[a][u],
           p \notin CommitPhases, record[a][t] \notin CommitPhases,
           barrier'[a] = barrier[a]
    PROVE  Received(a)' = Received(a)
BY DEF Received, CommitPhases

\* prepare's first request, or its retry: only a reservation is made.
LEMMA InvPrepareBegins ==
    ASSUME ParticipantTypeOK, NEW a \in Adventure, NEW t \in Exchange,
           AdventureInv(a), PrepareBegins(a, t)
    PROVE  AdventureInv(a)'
<1>1. /\ UNCHANGED <<worker, game, saves, barrier, hold, source>>
      /\ hold[a] = NoHold
      /\ record[a][t] \in {"none", "preparing"}
      /\ preparation'[a] = [id |-> t, phase |-> "travelling"]
      /\ Written(a, t, "preparing")
  BY DEF PrepareBegins, MayBegin, ParticipantTypeOK, Written
<1>2. \A u \in Exchange : record'[a][u] = IF u = t THEN "preparing" ELSE record[a][u]
  BY <1>1, WrittenAt
<1>3. \A u \in Unfinished(a) : u = t
  BY DEF PrepareBegins, AdventureInv, Reservation, Unfinished, Final
<1>4. \A u \in Exchange : u \in Unfinished(a)' <=> u = t
  BY <1>2, <1>3 DEF Unfinished, Final
<1>5. Received(a)' = Received(a) /\ RestartPoint(a)' = RestartPoint(a)
  <2>1. "preparing" \notin CommitPhases /\ record[a][t] \notin CommitPhases
    BY <1>1 DEF CommitPhases
  <2> QED
    BY <1>1, <1>2, <2>1, ReceivedKept DEF RestartPoint
<1>6. \A u \in Exchange : ~HeldFor(a, u) /\ ~Uncommitted(a, u)
  BY <1>1, FreeAdventure
<1>7. Reservation(a)'
  <2>1. \A u \in Unfinished(a)' : u \in Exchange
    BY DEF Unfinished
  <2>2. hold'[a].id = NoExchange /\ hold'[a] = NoHold
    BY <1>1 DEF NoHold
  <2> QED
    BY <1>1, <1>4, <2>1, <2>2 DEF Reservation
<1>8. Covered(a)'
  BY <1>1, <1>2 DEF AdventureInv, Covered, HeldFor
<1>9. BarrierHasSave(a)'
  <2>1. barrier[a] \in 0 .. N
    BY AdventureTyped
  <2>2. record[a][t] \notin CommitPhases
    BY <1>1 DEF CommitPhases
  <2> QED
    BY <1>1, <1>2, <2>1, <2>2 DEF AdventureInv, BarrierHasSave
<1>10. SourcesAreNewest(a)'
  BY <1>1, <1>2, <1>6 DEF AdventureInv, SourcesAreNewest, Uncommitted, IsRestartPoint,
     Exchanged, Reloads, HeldFor, Running
<1>11. Lineage(a)'
  BY <1>1, <1>2, <1>5, FreeAdventure DEF AdventureInv, Lineage, Running
<1> QED
  BY <1>7, <1>8, <1>9, <1>10, <1>11 DEF AdventureInv

\* A ready preparation is held under this exchange's name by the save it names.
LEMMA InvPrepareSucceeds ==
    ASSUME ParticipantTypeOK, NEW a \in Adventure, NEW t \in Exchange,
           AdventureInv(a), PrepareSucceeds(a, t)
    PROVE  AdventureInv(a)'
<1>1. CASE UNCHANGED <<record, source>>
  <2>1. Untouched(a)
    BY <1>1 DEF PrepareSucceeds, Untouched
  <2> QED
    BY <2>1, InvFrame
<1>2. CASE ~UNCHANGED <<record, source>>
  <2>1. /\ UNCHANGED <<worker, game, saves, barrier, hold, preparation>>
        /\ record[a][t] = "preparing" /\ HeldFor(a, t) /\ hold[a].source # Nothing
        /\ Written(a, t, "prepared")
        /\ source'[a] = [source[a] EXCEPT ![t] = hold[a].source]
        /\ preparation[a].phase = "ready"
    <3>1. /\ UNCHANGED <<worker, game, saves, barrier, hold, preparation>>
          /\ record[a][t] = "preparing" /\ HeldFor(a, t) /\ hold[a].source # Nothing
          /\ record' = [record EXCEPT ![a][t] = "prepared"]
          /\ source' = [source EXCEPT ![a][t] = hold[a].source]
          /\ preparation[a] = [id |-> t, phase |-> "ready"]
      BY <1>2 DEF PrepareSucceeds
    <3>2. source'[a] = [source[a] EXCEPT ![t] = hold[a].source]
      BY <3>1 DEF ParticipantTypeOK
    <3> QED
      BY <3>1, <3>2 DEF Written
  <2>2. \A u \in Exchange : record'[a][u] = IF u = t THEN "prepared" ELSE record[a][u]
    BY <2>1, WrittenAt
  <2>3. \A u \in Exchange : source'[a][u] = IF u = t THEN hold[a].source ELSE source[a][u]
    BY <2>1 DEF ParticipantTypeOK
  <2>4. Unfinished(a)' = Unfinished(a)
    BY <2>1, <2>2 DEF Unfinished, Final
  <2>5. Received(a)' = Received(a) /\ RestartPoint(a)' = RestartPoint(a)
    <3>1. "prepared" \notin CommitPhases /\ record[a][t] \notin CommitPhases
      BY <2>1 DEF CommitPhases
    <3> QED
      BY <2>1, <2>2, <3>1, ReceivedKept DEF RestartPoint
  <2>6. Reservation(a)'
    BY <2>1, <2>4 DEF AdventureInv, Reservation
  <2>7. Covered(a)'
    BY <2>1, <2>2 DEF AdventureInv, Covered, HeldFor
  <2>8. BarrierHasSave(a)'
    <3>1. barrier[a] \in 0 .. N
      BY AdventureTyped
    <3>2. record[a][t] \notin CommitPhases
      BY <2>1 DEF CommitPhases
    <3> QED
      BY <2>1, <2>2, <3>1, <3>2 DEF AdventureInv, BarrierHasSave
  <2>9. SourcesAreNewest(a)'
    <3>1. /\ IsRestartPoint(a, hold[a].source)
          /\ Running(a) => game[a] = hold[a].source.state
      BY <2>1 DEF AdventureInv, SourcesAreNewest
    <3> QED
      BY <2>1, <2>2, <2>3, <3>1 DEF AdventureInv, SourcesAreNewest, Uncommitted, IsRestartPoint,
         Exchanged, Reloads, HeldFor, Running
  <2>10. Lineage(a)'
    BY <2>1, <2>2, <2>5 DEF AdventureInv, Lineage, Running
  <2> QED
    BY <2>6, <2>7, <2>8, <2>9, <2>10 DEF AdventureInv
<1> QED
  BY <1>1, <1>2

\* An unfinished exchange is alone in its adventure, and what is held or
\* prepared is its own.
LEMMA Alone ==
    ASSUME ParticipantTypeOK, NEW a \in Adventure, NEW t \in Exchange, AdventureInv(a),
           t \in Unfinished(a)
    PROVE  /\ \A u \in Exchange : u # t => record[a][u] \in Final \cup {"none"}
           /\ hold[a] = NoHold \/ HeldFor(a, t)
           /\ preparation[a].phase # "idle" => preparation[a].id = t
BY DEF AdventureInv, Reservation, Unfinished, HeldFor

LEMMA InvPrepareRefused ==
    ASSUME ParticipantTypeOK, NEW a \in Adventure, NEW t \in Exchange,
           AdventureInv(a), PrepareRefused(a, t)
    PROVE  AdventureInv(a)'
<1>1. CASE UNCHANGED record
  <2>1. Untouched(a)
    BY <1>1 DEF PrepareRefused, Untouched
  <2> QED
    BY <2>1, InvFrame
<1>2. CASE ~UNCHANGED record
  <2>1. /\ UNCHANGED <<worker, game, saves, barrier, hold, preparation, source>>
        /\ record[a][t] = "none" /\ Unfinished(a) = {}
        /\ Written(a, t, "preparing")
    BY <1>2 DEF PrepareRefused, Written
  <2>2. \A u \in Exchange : record'[a][u] = IF u = t THEN "preparing" ELSE record[a][u]
    BY <2>1, WrittenAt
  <2>3. hold[a] = NoHold /\ preparation[a].phase = "idle" /\ preparation[a].id = NoExchange
    BY <2>1 DEF AdventureInv, Reservation
  <2>4. \A u \in Exchange : u \in Unfinished(a)' <=> u = t
    BY <2>1, <2>2 DEF Unfinished, Final
  <2>5. Received(a)' = Received(a) /\ RestartPoint(a)' = RestartPoint(a)
    <3>1. "preparing" \notin CommitPhases /\ record[a][t] \notin CommitPhases
      BY <2>1 DEF CommitPhases
    <3> QED
      BY <2>1, <2>2, <3>1, ReceivedKept DEF RestartPoint
  <2>6. Reservation(a)'
    <3>1. \A u \in Unfinished(a)' : u \in Exchange
      BY DEF Unfinished
    <3>2. hold'[a].id = NoExchange /\ hold'[a] = NoHold
      BY <2>1, <2>3 DEF NoHold
    <3> QED
      BY <2>1, <2>3, <2>4, <3>1, <3>2 DEF Reservation
  <2>7. Covered(a)'
    BY <2>1, <2>2 DEF AdventureInv, Covered, HeldFor
  <2>8. BarrierHasSave(a)'
    <3>1. record[a][t] \notin CommitPhases /\ barrier[a] \in 0 .. N
      BY <2>1, AdventureTyped DEF CommitPhases
    <3> QED
      BY <2>1, <2>2, <3>1 DEF AdventureInv, BarrierHasSave
  <2>9. SourcesAreNewest(a)'
    BY <2>1, <2>2, <2>3, FreeAdventure DEF AdventureInv, SourcesAreNewest, Uncommitted,
       IsRestartPoint, Exchanged, Reloads, HeldFor, Running
  <2>10. Lineage(a)'
    BY <2>1, <2>2, <2>3, <2>5, FreeAdventure DEF Lineage, Running, AdventureInv
  <2> QED
    BY <2>6, <2>7, <2>8, <2>9, <2>10 DEF AdventureInv
<1> QED
  BY <1>1, <1>2

LEMMA InvStageSucceeds ==
    ASSUME ParticipantTypeOK, NEW a \in Adventure, NEW t \in Exchange,
           AdventureInv(a), StageSucceeds(a, t)
    PROVE  AdventureInv(a)'
<1>1. CASE UNCHANGED record
  <2>1. Untouched(a)
    BY <1>1 DEF StageSucceeds, Untouched
  <2> QED
    BY <2>1, InvFrame
<1>2. CASE ~UNCHANGED record
  <2>1. /\ UNCHANGED <<worker, game, saves, barrier, hold, preparation, source>>
        /\ record[a][t] = "prepared" /\ HeldFor(a, t)
        /\ Written(a, t, "staged")
    BY <1>2 DEF StageSucceeds, Written
  <2>2. \A u \in Exchange : record'[a][u] = IF u = t THEN "staged" ELSE record[a][u]
    BY <2>1, WrittenAt
  <2>3. Unfinished(a)' = Unfinished(a)
    BY <2>1, <2>2 DEF Unfinished, Final
  <2>4. Received(a)' = Received(a) /\ RestartPoint(a)' = RestartPoint(a)
    <3>1. "staged" \notin CommitPhases /\ record[a][t] \notin CommitPhases
      BY <2>1 DEF CommitPhases
    <3> QED
      BY <2>1, <2>2, <3>1, ReceivedKept DEF RestartPoint
  <2>5. Reservation(a)' /\ Covered(a)'
    BY <2>1, <2>2, <2>3 DEF AdventureInv, Reservation, Covered, HeldFor
  <2>6. BarrierHasSave(a)'
    <3>1. record[a][t] \notin CommitPhases /\ barrier[a] \in 0 .. N
      BY <2>1, AdventureTyped DEF CommitPhases
    <3> QED
      BY <2>1, <2>2, <3>1 DEF AdventureInv, BarrierHasSave
  <2>7. SourcesAreNewest(a)'
    BY <2>1, <2>2 DEF AdventureInv, SourcesAreNewest, Uncommitted, IsRestartPoint,
       Exchanged, Reloads, HeldFor, Running
  <2>8. Lineage(a)'
    BY <2>1, <2>2, <2>4 DEF Lineage, Running, AdventureInv
  <2> QED
    BY <2>5, <2>6, <2>7, <2>8 DEF AdventureInv
<1> QED
  BY <1>1, <1>2

LEMMA InvReleaseSucceeds ==
    ASSUME ParticipantTypeOK, NEW a \in Adventure, NEW t \in Exchange,
           AdventureInv(a), ReleaseSucceeds(a, t)
    PROVE  AdventureInv(a)'
<1>1. CASE UNCHANGED <<hold, preparation, record>>
  <2>1. Untouched(a)
    BY <1>1 DEF ReleaseSucceeds, Untouched
  <2> QED
    BY <2>1, InvFrame
<1>2. CASE ~UNCHANGED <<hold, preparation, record>>
  <2>1. /\ UNCHANGED <<worker, game, saves, barrier, source>>
        /\ record[a][t] = "applied"
        /\ Written(a, t, "released")
        /\ hold'[a] = NoHold /\ preparation'[a] = NoPreparation
    BY <1>2 DEF ReleaseSucceeds, ParticipantTypeOK, Written
  <2>2. \A u \in Exchange : record'[a][u] = IF u = t THEN "released" ELSE record[a][u]
    BY <2>1, WrittenAt
  <2>3. t \in Unfinished(a) /\ barrier[a] = t
    BY <2>1 DEF Unfinished, Final, AdventureInv, BarrierHasSave
  <2>4. \A u \in Exchange : u # t => record[a][u] \in Final \cup {"none"}
    BY <2>3, Alone
  <2>5. Unfinished(a)' = {}
    BY <2>2, <2>4 DEF Unfinished, Final
  <2>6. Received(a)' = Received(a) /\ RestartPoint(a)' = RestartPoint(a)
    BY <2>1, <2>2, <2>3 DEF RestartPoint, Received
  <2>7. Reservation(a)'
    BY <2>1, <2>5 DEF Reservation, NoHold, NoPreparation
  <2>8. Covered(a)'
    BY <2>2, <2>4 DEF Covered, Final
  <2>9. BarrierHasSave(a)'
    BY <2>1, <2>2, <2>3, <2>4 DEF AdventureInv, BarrierHasSave, CommitPhases, Final
  <2>10. SourcesAreNewest(a)'
    <3>1. \A u \in Exchange : ~Uncommitted(a, u)' /\ ~HeldFor(a, u)'
      BY <2>1, <2>2, <2>4, ExchangeIds DEF Uncommitted, Reloads, HeldFor, NoHold, Final
    <3> QED
      BY <2>1, <2>2, <2>4, <3>1 DEF AdventureInv, SourcesAreNewest, NoPreparation, Final
  <2>11. Lineage(a)'
    BY <2>1, <2>2, <2>4, <2>6 DEF Lineage, Running, AdventureInv, Final
  <2> QED
    BY <2>7, <2>8, <2>9, <2>10, <2>11 DEF AdventureInv
<1> QED
  BY <1>1, <1>2

Released(a) == {u \in Exchange : record[a][u] = "released"}

\* What apply publishes continues the newest save, with this exchange in it.
LEMMA PublishedLineage ==
    ASSUME ParticipantTypeOK, NEW a \in Adventure, NEW t \in Exchange, AdventureInv(a),
           Committable(a, t)
    PROVE  /\ t \in Unfinished(a) /\ HeldFor(a, t) /\ source[a][t] # Nothing
           /\ Published(a, t) \in GameState /\ Published(a, t) # Nothing
           /\ Published(a, t).got = Released(a) \cup {t}
           /\ Published(a, t).progress = RestartPoint(a).progress
           /\ barrier[a] = t => Published(a, t) = saves[a][t]
           /\ barrier[a] # t => /\ record[a][t] \in {"staged", "committed"}
                                /\ Published(a, t) = Exchanged(a, t)
                                /\ Received(a) = Released(a)
<1>1. t \in Unfinished(a) /\ HeldFor(a, t)
  BY DEF Committable, Unfinished, Final, AdventureInv, Covered
<1>2. source[a][t] # Nothing
  <2>1. CASE record[a][t] = "staged"
    <3>1. IsRestartPoint(a, source[a][t])
      BY <2>1 DEF AdventureInv, SourcesAreNewest, Uncommitted
    <3>2. saves[a][barrier[a]] \in GameState /\ barrier[a] \in 0 .. N
      BY <3>1, AdventureTyped DEF IsRestartPoint
    <3>3. source[a][t] \in Checkpoint
      BY <3>1, <3>2 DEF IsRestartPoint, Checkpoint
    <3> QED
      BY <3>3, CheckpointFields
  <2>2. CASE record[a][t] \in {"committed", "applied"}
    BY <2>2 DEF AdventureInv, SourcesAreNewest
  <2> QED
    BY <2>1, <2>2 DEF Committable
<1>3. Published(a, t) \in GameState /\ Published(a, t) # Nothing
  BY <1>2, ResultsTyped, StateFields
<1>4. \A u \in Exchange : u # t => record[a][u] \in Final \cup {"none"}
  BY <1>1, Alone
<1>5. CASE barrier[a] = t
  <2>1. saves[a][t] # Nothing /\ Published(a, t) = saves[a][t] /\ RestartPoint(a) = saves[a][t]
    BY <1>5, ExchangeIds DEF AdventureInv, BarrierHasSave, Published, RestartPoint
  <2>2. record[a][t] \in {"committed", "applied"}
    BY <1>5, ExchangeIds DEF AdventureInv, BarrierHasSave, Committable, CommitPhases
  <2>3. Received(a) = Released(a) \cup {t}
    BY <1>4, <1>5, <2>2 DEF Received, Released, Final
  <2>4. RestartPoint(a).got = Received(a)
    BY DEF AdventureInv, Lineage
  <2> QED
    BY <1>1, <1>2, <1>3, <1>5, <2>1, <2>3, <2>4
<1>6. CASE barrier[a] # t
  <2>1. record[a][t] \in {"staged", "committed"}
    BY <1>6 DEF Committable, AdventureInv, BarrierHasSave
  <2>2. IsRestartPoint(a, source[a][t])
    BY <1>6, <2>1 DEF AdventureInv, SourcesAreNewest, Uncommitted
  <2>3. source[a][t].state = RestartPoint(a)
    BY <2>2 DEF IsRestartPoint, RestartPoint
  <2>4. Received(a) = Released(a)
    BY <1>4, <1>6, <2>1 DEF Received, Released, Final
  <2>5. saves[a][t] \in {Nothing, Exchanged(a, t)}
    BY <1>6, <2>1 DEF AdventureInv, SourcesAreNewest, BarrierHasSave, CommitPhases
  <2>6. Published(a, t) = Exchanged(a, t)
    BY <2>5 DEF Published
  <2>7. /\ Exchanged(a, t).got = RestartPoint(a).got \cup {t}
        /\ Exchanged(a, t).progress = RestartPoint(a).progress
    BY <2>3 DEF Exchanged
  <2>8. RestartPoint(a).got = Received(a)
    BY DEF AdventureInv, Lineage
  <2> QED
    BY <1>1, <1>2, <1>3, <1>6, <2>1, <2>4, <2>6, <2>7, <2>8
<1> QED
  BY <1>5, <1>6

\* A promotion, whoever makes it: apply, an interrupted apply, or a restart.
LEMMA InvPromoted ==
    ASSUME ParticipantTypeOK, NEW a \in Adventure, NEW t \in Exchange, AdventureInv(a),
           Committable(a, t), Promote(a, t), NEW p \in {"committed", "applied"},
           \A u \in Exchange : record'[a][u] = IF u = t THEN p ELSE record[a][u],
           source'[a] = source[a],
           preparation'[a].id = preparation[a].id,
           preparation'[a].phase = "idle" <=> preparation[a].phase = "idle",
           preparation'[a].phase = "travelling" => preparation[a].phase = "travelling",
           Running(a)' /\ p = "applied" => game'[a] = Published(a, t)
    PROVE  AdventureInv(a)'
<1>1. /\ t \in Unfinished(a) /\ HeldFor(a, t) /\ source[a][t] # Nothing
      /\ Published(a, t) \in GameState /\ Published(a, t) # Nothing
      /\ Published(a, t).got = Released(a) \cup {t}
  BY PublishedLineage
<1>2. \A u \in Exchange : u # t => record[a][u] \in Final \cup {"none"}
  BY <1>1, Alone
<1>3. /\ saves'[a] = [saves[a] EXCEPT ![t] = Published(a, t)]
      /\ barrier'[a] = t
      /\ hold'[a] = [id |-> t, source |-> source[a][t]]
  BY DEF Promote, ParticipantTypeOK
<1>4. \A u \in 0 .. N : saves'[a][u] = IF u = t THEN Published(a, t) ELSE saves[a][u]
  BY <1>3, AdventureTyped
<1>5. hold'[a].id = t /\ t # NoExchange /\ t \in 0 .. N
  BY <1>3, ExchangeIds
<1>6. Unfinished(a)' = Unfinished(a)
  BY <1>1, <1>2 DEF Unfinished, Final
<1>7. RestartPoint(a)' = Published(a, t)
  BY <1>1, <1>3, <1>4, <1>5 DEF RestartPoint
<1>8. Received(a)' = Released(a) \cup {t}
  BY <1>2, <1>3 DEF Received, Released, Final
<1>9. Reservation(a)'
  BY <1>1, <1>5, <1>6 DEF AdventureInv, Reservation
<1>10. Covered(a)'
  BY <1>2, <1>5 DEF Covered, HeldFor, Final
<1>11. BarrierHasSave(a)'
  BY <1>1, <1>2, <1>3, <1>4, <1>5, ExchangeIds DEF AdventureInv, BarrierHasSave, CommitPhases,
     Final
<1>12. SourcesAreNewest(a)'
  <2>1. \A u \in Exchange : ~Uncommitted(a, u)'
    BY <1>2, <1>3 DEF Uncommitted, Final
  <2>2. preparation[a].phase # "travelling"
    BY <1>1, Alone DEF AdventureInv, SourcesAreNewest
  <2> QED
    BY <1>1, <1>2, <1>3, <2>1, <2>2 DEF AdventureInv, SourcesAreNewest, Final
<1>13. Lineage(a)'
  <2>1. Published(a, t).progress \in Nat
    BY <1>1, StateFields
  <2>2. p = "committed" => ~(\A u \in Exchange : record'[a][u] # "committed")
    OBVIOUS
  <2> QED
    BY <1>1, <1>7, <1>8, <2>1, <2>2 DEF Lineage
<1> QED
  BY <1>9, <1>10, <1>11, <1>12, <1>13 DEF AdventureInv

LEMMA InvApplySucceeds ==
    ASSUME ParticipantTypeOK, NEW a \in Adventure, NEW t \in Exchange,
           AdventureInv(a), ApplySucceeds(a, t)
    PROVE  AdventureInv(a)'
<1>1. CASE record[a][t] = "released"
  <2>1. Untouched(a)
    BY <1>1 DEF ApplySucceeds, Committable, Untouched
  <2> QED
    BY <2>1, InvFrame
<1>2. CASE record[a][t] # "released"
  <2>1. /\ UNCHANGED <<worker, preparation, source>>
        /\ Committable(a, t) /\ Promote(a, t) /\ Written(a, t, "applied")
        /\ game'[a] = Published(a, t)
    BY <1>2 DEF ApplySucceeds, Written, ParticipantTypeOK
  <2>2. \A u \in Exchange : record'[a][u] = IF u = t THEN "applied" ELSE record[a][u]
    BY <2>1, WrittenAt
  <2> QED
    BY <2>1, <2>2, InvPromoted
<1> QED
  BY <1>1, <1>2

\* Interrupted before the barrier, the newest save is still the source.
LEMMA InvApplyInterrupted ==
    ASSUME ParticipantTypeOK, NEW a \in Adventure, NEW t \in Exchange,
           AdventureInv(a), ApplyInterrupted(a, t)
    PROVE  AdventureInv(a)'
<1>1. /\ UNCHANGED <<worker, game, preparation, source>>
      /\ Committable(a, t) /\ Written(a, t, "committed")
  BY DEF ApplyInterrupted, Written
<1>2. \A u \in Exchange : record'[a][u] = IF u = t THEN "committed" ELSE record[a][u]
  BY <1>1, WrittenAt
<1>3. CASE Promote(a, t)
  BY <1>1, <1>2, <1>3, InvPromoted
<1>4. CASE ~Promote(a, t)
  <2>1. /\ UNCHANGED <<barrier, hold>>
        /\ saves'[a] = saves[a] \/ saves'[a] = [saves[a] EXCEPT ![t] = Published(a, t)]
    BY <1>4 DEF ApplyInterrupted, ParticipantTypeOK
  <2>2. /\ t \in Unfinished(a) /\ HeldFor(a, t) /\ source[a][t] # Nothing
        /\ Published(a, t) # Nothing
        /\ barrier[a] = t => Published(a, t) = saves[a][t]
        /\ barrier[a] # t => /\ record[a][t] \in {"staged", "committed"}
                             /\ Published(a, t) = Exchanged(a, t)
                             /\ Received(a) = Released(a)
    BY <1>1, PublishedLineage
  <2>3. \A u \in Exchange : u # t => record[a][u] \in Final \cup {"none"}
    BY <2>2, Alone
  <2>4. \A u \in 0 .. N : \/ saves'[a][u] = saves[a][u]
                          \/ u = t /\ saves'[a][u] = Published(a, t)
    BY <2>1, AdventureTyped
  <2>5. saves'[a][barrier[a]] = saves[a][barrier[a]]
    BY <2>2, <2>4, AdventureTyped
  <2>6. Unfinished(a)' = Unfinished(a)
    BY <1>2, <2>2 DEF Unfinished, Final
  <2>7. RestartPoint(a)' = RestartPoint(a)
    BY <2>1, <2>5 DEF RestartPoint
  <2>8. Received(a)' = Received(a)
    <3>1. barrier[a] = t => record[a][t] \in CommitPhases
      BY ExchangeIds DEF AdventureInv, BarrierHasSave
    <3> QED
      BY <1>1, <1>2, <2>1, <2>2, <2>3, <3>1 DEF Received, CommitPhases, Committable, Final
  <2>9. Reservation(a)' /\ Covered(a)'
    BY <1>1, <1>2, <2>1, <2>2, <2>6 DEF AdventureInv, Reservation, Covered, HeldFor
  <2>10. BarrierHasSave(a)'
    BY <1>2, <2>1, <2>3, <2>4, <2>5, ExchangeIds, AdventureTyped
    DEF AdventureInv, BarrierHasSave, CommitPhases, Final
  <2>11. SourcesAreNewest(a)'
    <3>1. barrier[a] # t => IsRestartPoint(a, source[a][t])'
      BY <1>1, <2>1, <2>2, <2>5 DEF AdventureInv, SourcesAreNewest, Uncommitted, IsRestartPoint
    <3>2. barrier[a] # t => saves'[a][t] \in {Nothing, Exchanged(a, t)}
      BY <2>2, <2>4, ExchangeIds DEF AdventureInv, SourcesAreNewest, BarrierHasSave,
         CommitPhases
    <3>3. Exchanged(a, t)' = Exchanged(a, t)
      BY <1>1 DEF Exchanged
    <3>4. \A u \in Exchange : u # t => ~Uncommitted(a, u)'
      BY <1>2, <2>3 DEF Uncommitted, Final
    <3> QED
      BY <1>1, <1>2, <2>1, <2>2, <2>3, <3>1, <3>2, <3>3, <3>4
      DEF AdventureInv, SourcesAreNewest, Uncommitted, Final
  <2>12. Lineage(a)'
    BY <1>1, <1>2, <2>7, <2>8 DEF AdventureInv, Lineage
  <2> QED
    BY <2>9, <2>10, <2>11, <2>12 DEF AdventureInv
<1> QED
  BY <1>3, <1>4

\* Clearing an unfinished exchange's hold and preparation leaves none.
LEMMA ClearedOwn ==
    ASSUME ParticipantTypeOK, NEW a \in Adventure, NEW t \in Exchange, AdventureInv(a),
           t \in Unfinished(a)
    PROVE  /\ ClearedHold(a, t) = NoHold
           /\ ClearedPreparation(a, t).phase = "idle"
           /\ ClearedPreparation(a, t).id = NoExchange
BY Alone DEF ClearedHold, ClearedPreparation, NoPreparation, AdventureInv, Reservation

\* What an abort brings back is the game that had played furthest.
LEMMA RestoredLineage ==
    ASSUME ParticipantTypeOK, NEW a \in Adventure, NEW t \in Exchange, AdventureInv(a),
           Abortable(a, t), Running(a)
    PROVE  /\ Restored(a, t).got = Received(a)
           /\ Restored(a, t).progress >= RestartPoint(a).progress
<1>1. CASE Reloads(a, t)
  <2>1. source[a][t] # Nothing /\ Uncommitted(a, t)
    BY <1>1 DEF Uncommitted, Abortable, Reloads, AdventureInv, SourcesAreNewest
  <2>2. Restored(a, t) = RestartPoint(a)
    BY <1>1, <2>1 DEF AdventureInv, SourcesAreNewest, IsRestartPoint, Restored, RestartPoint
  <2>3. RestartPoint(a).progress \in Nat
    BY AdventureTyped, StateFields
  <2> QED
    BY <2>2, <2>3 DEF AdventureInv, Lineage
<1>2. CASE ~Reloads(a, t)
  <2>1. t \in Unfinished(a) /\ record[a][t] # "committed"
    BY DEF Abortable, Unfinished, Final
  <2>2. \A u \in Exchange : record[a][u] # "committed"
    BY <2>1, Alone DEF Final
  <2> QED
    BY <1>2, <2>2 DEF Restored, AdventureInv, Lineage
<1> QED
  BY <1>1, <1>2

\* An abort that leaves the hold, clears it, or clears hold and preparation.
LEMMA InvAbortable ==
    ASSUME ParticipantTypeOK, NEW a \in Adventure, NEW t \in Exchange, AdventureInv(a),
           Abortable(a, t), Running(a), NEW p \in {"aborting", "aborted"}, Written(a, t, p),
           UNCHANGED <<worker, saves, barrier, source>>,
           \/ /\ p = "aborting" /\ UNCHANGED <<game, hold, preparation>>
           \/ /\ game'[a] = Restored(a, t)
              /\ hold'[a] = ClearedHold(a, t)
              /\ \/ p = "aborting" /\ UNCHANGED preparation
                 \/ preparation'[a] = ClearedPreparation(a, t)
    PROVE  AdventureInv(a)'
<1>1. \A u \in Exchange : record'[a][u] = IF u = t THEN p ELSE record[a][u]
  BY WrittenAt
<1>2. t \in Unfinished(a) /\ record[a][t] \notin CommitPhases /\ p \notin CommitPhases
  BY DEF Abortable, Unfinished, Final, CommitPhases
<1>3. \A u \in Exchange : u # t => record[a][u] \in Final \cup {"none"}
  BY <1>2, Alone
<1>4. Received(a)' = Received(a) /\ RestartPoint(a)' = RestartPoint(a)
  BY <1>1, <1>2, ReceivedKept DEF RestartPoint
<1>5. /\ \A u \in Exchange : u \in Unfinished(a)' <=> u = t /\ p = "aborting"
      /\ \A u \in Unfinished(a)' : u \in Exchange
  BY <1>1, <1>3 DEF Unfinished, Final
<1>6. (hold'[a] = hold[a] /\ p = "aborting") \/ hold'[a] = NoHold
  BY <1>2, ClearedOwn
<1>7. /\ NoHold.id = NoExchange
      /\ hold[a].id # NoExchange => hold[a].id = t
      /\ hold[a].id = NoExchange => hold[a] = NoHold
  BY <1>2 DEF AdventureInv, Reservation, NoHold
<1>8. \/ preparation'[a] = preparation[a] /\ p = "aborting"
      \/ preparation'[a].phase = "idle" /\ preparation'[a].id = NoExchange
  BY <1>2, ClearedOwn
<1>9. Reservation(a)'
  <2>1. preparation[a].phase # "idle" => preparation[a].id = t
    BY <1>2, Alone
  <2>2. preparation[a].phase = "idle" => preparation[a].id = NoExchange
    BY DEF AdventureInv, Reservation
  <2> QED
    BY <1>5, <1>6, <1>7, <1>8, <2>1, <2>2, ExchangeIds DEF Reservation
<1>10. Covered(a)'
  BY <1>1, <1>3 DEF Covered, Final
<1>11. BarrierHasSave(a)'
  <2>1. barrier[a] \in 0 .. N
    BY AdventureTyped
  <2> QED
    BY <1>1, <1>2, <2>1 DEF AdventureInv, BarrierHasSave
<1>12. SourcesAreNewest(a)'
  <2>1. Uncommitted(a, t)' => Reloads(a, t)
    BY <1>1, <1>6, <1>7, ExchangeIds DEF Uncommitted, Reloads, HeldFor
  <2>2. Reloads(a, t) => Uncommitted(a, t)
    BY DEF Uncommitted, Abortable, Reloads, AdventureInv, SourcesAreNewest
  <2>3. Uncommitted(a, t)' => IsRestartPoint(a, source[a][t])'
    BY <2>1, <2>2 DEF AdventureInv, SourcesAreNewest, IsRestartPoint
  <2>4. \A u \in Exchange : u # t => ~Uncommitted(a, u)'
    BY <1>1, <1>3 DEF Uncommitted, Final
  <2>5. preparation'[a].phase = "travelling" => source[a][preparation'[a].id] = Nothing
    BY <1>8 DEF AdventureInv, SourcesAreNewest
  <2> QED
    BY <1>1, <1>3, <2>3, <2>4, <2>5 DEF AdventureInv, SourcesAreNewest, Final
<1>13. Lineage(a)'
  <2>1. game'[a] = game[a] \/ game'[a] = Restored(a, t)
    OBVIOUS
  <2>2. \A u \in Exchange : record[a][u] # "committed"
    BY <1>2, <1>3 DEF Final, CommitPhases
  <2> QED
    BY <1>4, <2>1, <2>2, RestoredLineage DEF AdventureInv, Lineage
<1> QED
  BY <1>9, <1>10, <1>11, <1>12, <1>13 DEF AdventureInv

LEMMA InvAbortInterrupted ==
    ASSUME ParticipantTypeOK, NEW a \in Adventure, NEW t \in Exchange,
           AdventureInv(a), AbortInterrupted(a, t)
    PROVE  AdventureInv(a)'
<1>1. /\ Running(a) /\ Abortable(a, t) /\ Written(a, t, "aborting")
      /\ UNCHANGED <<worker, saves, barrier, source>>
  BY DEF AbortInterrupted, Written
<1>2. \/ UNCHANGED <<game, hold, preparation>>
      \/ /\ game'[a] = Restored(a, t)
         /\ hold'[a] = ClearedHold(a, t)
         /\ \/ UNCHANGED preparation
            \/ preparation'[a] = ClearedPreparation(a, t)
  BY DEF AbortInterrupted, ParticipantTypeOK
<1> QED
  BY <1>1, <1>2, InvAbortable

LEMMA InvAbortSucceeds ==
    ASSUME ParticipantTypeOK, NEW a \in Adventure, NEW t \in Exchange,
           AdventureInv(a), AbortSucceeds(a, t)
    PROVE  AdventureInv(a)'
<1>1. /\ Running(a) /\ Written(a, t, "aborted")
      /\ UNCHANGED <<worker, saves, barrier, source>>
  BY DEF AbortSucceeds, Written
<1>2. \A u \in Exchange : record'[a][u] = IF u = t THEN "aborted" ELSE record[a][u]
  BY <1>1, WrittenAt
<1>3. CASE record[a][t] \in {"none", "aborted"}
  <2>1. UNCHANGED <<game, hold, preparation>>
    BY <1>3 DEF AbortSucceeds, Abortable
  <2>2. Unfinished(a)' = Unfinished(a)
    BY <1>2, <1>3 DEF Unfinished, Final
  <2>3. "aborted" \notin CommitPhases /\ record[a][t] \notin CommitPhases
    BY <1>3 DEF CommitPhases
  <2>4. Received(a)' = Received(a) /\ RestartPoint(a)' = RestartPoint(a)
    BY <1>1, <1>2, <2>3, ReceivedKept DEF RestartPoint
  <2>5. Reservation(a)' /\ Covered(a)'
    BY <1>2, <2>1, <2>2 DEF AdventureInv, Reservation, Covered, HeldFor
  <2>6. BarrierHasSave(a)'
    BY <1>1, <1>2, <2>3, AdventureTyped DEF AdventureInv, BarrierHasSave
  <2>7. SourcesAreNewest(a)'
    BY <1>1, <1>2, <1>3, <2>1 DEF AdventureInv, SourcesAreNewest, Uncommitted, IsRestartPoint,
       Exchanged, Reloads, HeldFor, Running
  <2>8. Lineage(a)'
    BY <1>1, <1>2, <1>3, <2>1, <2>4 DEF AdventureInv, Lineage, Running
  <2> QED
    BY <2>5, <2>6, <2>7, <2>8 DEF AdventureInv
<1>4. CASE record[a][t] \notin {"none", "aborted"}
  <2>1. /\ Abortable(a, t)
        /\ game'[a] = Restored(a, t)
        /\ hold'[a] = ClearedHold(a, t)
        /\ preparation'[a] = ClearedPreparation(a, t)
    BY <1>4 DEF AbortSucceeds, ParticipantTypeOK
  <2> QED
    BY <1>1, <2>1, InvAbortable
<1> QED
  BY <1>3, <1>4

\* A worker that goes down takes nothing durable with it.
LEMMA InvDown ==
    ASSUME NEW a \in Adventure, AdventureInv(a), ~Running(a)',
           UNCHANGED durable
    PROVE  AdventureInv(a)'
<1>1. UNCHANGED <<saves, barrier, hold, preparation, record, source>>
  BY DEF durable
<1>2. /\ Unfinished(a)' = Unfinished(a) /\ Received(a)' = Received(a)
      /\ RestartPoint(a)' = RestartPoint(a)
  BY <1>1 DEF Unfinished, Received, RestartPoint
<1>3. Reservation(a)' /\ Covered(a)' /\ BarrierHasSave(a)'
  BY <1>1, <1>2 DEF AdventureInv, Reservation, Covered, BarrierHasSave, HeldFor
<1>4. SourcesAreNewest(a)'
  BY <1>1 DEF AdventureInv, SourcesAreNewest, Uncommitted, IsRestartPoint, Exchanged,
     Reloads, HeldFor
<1>5. Lineage(a)'
  BY <1>2 DEF AdventureInv, Lineage
<1> QED
  BY <1>3, <1>4, <1>5 DEF AdventureInv

LEMMA InvStops ==
    ASSUME ParticipantTypeOK, NEW a \in Adventure, AdventureInv(a), WorkerStops(a)
    PROVE  AdventureInv(a)'
<1>1. ~Running(a)'
  BY DEF WorkerStops, Running, ParticipantTypeOK
<1>2. CASE hold[a] # NoHold
  BY <1>1, <1>2, InvDown DEF WorkerStops, durable
<1>3. CASE hold[a] = NoHold
  <2>1. /\ UNCHANGED <<barrier, hold, preparation, record, source>> /\ Running(a)
        /\ saves'[a] = [saves[a] EXCEPT ![barrier[a]] = game[a]]
    BY <1>3 DEF WorkerStops, ParticipantTypeOK
  <2>2. \A u \in 0 .. N : saves'[a][u] = IF u = barrier[a] THEN game[a] ELSE saves[a][u]
    BY <2>1, AdventureTyped
  <2>3. game[a] # Nothing /\ barrier[a] \in 0 .. N
    BY <2>1, AdventureTyped, StateFields
  <2>4. /\ Unfinished(a)' = Unfinished(a) /\ Received(a)' = Received(a)
        /\ RestartPoint(a)' = game[a]
    BY <2>1, <2>2, <2>3 DEF Unfinished, Received, RestartPoint
  <2>5. Reservation(a)' /\ Covered(a)'
    BY <2>1, <2>4 DEF AdventureInv, Reservation, Covered, HeldFor
  <2>6. BarrierHasSave(a)'
    BY <2>1, <2>2, <2>3, ExchangeIds DEF AdventureInv, BarrierHasSave
  <2>7. SourcesAreNewest(a)'
    BY <1>1, <1>3, <2>1, FreeAdventure DEF AdventureInv, SourcesAreNewest, Uncommitted,
       IsRestartPoint, Exchanged, Reloads, HeldFor
  <2>8. Lineage(a)'
    BY <1>1, <1>3, <2>1, <2>4, FreeAdventure DEF Lineage
  <2> QED
    BY <2>5, <2>6, <2>7, <2>8 DEF AdventureInv
<1> QED
  BY <1>2, <1>3

\* A restart holds an undecided exchange again when nothing else is held.
Reheld(a) ==
    \/ hold'[a] = hold[a]
    \/ /\ hold[a] = NoHold
       /\ \E t \in Exchange :
             /\ record[a][t] \in {"preparing", "prepared", "staged"}
             /\ hold'[a] = [id |-> t, source |-> source[a][t]]

\* A restart of an adventure without a commit to promote: it resumes from the
\* newest save, and a hold or preparation it clears was the exchange's own.
LEMMA InvRestarted ==
    ASSUME ParticipantTypeOK, NEW a \in Adventure, AdventureInv(a),
           UNCHANGED <<saves, barrier, record, source>>, game'[a] = RestartPoint(a)',
           Reheld(a),
           preparation'[a] = Stranded(a, preparation[a])
    PROVE  AdventureInv(a)'
<1>1. /\ Unfinished(a)' = Unfinished(a) /\ Received(a)' = Received(a)
      /\ RestartPoint(a)' = RestartPoint(a)
  BY DEF Unfinished, Received, RestartPoint
<1>2. /\ preparation'[a].id = preparation[a].id
      /\ preparation'[a].phase = "idle" <=> preparation[a].phase = "idle"
      /\ preparation'[a].phase # "travelling"
  BY DEF Stranded
<1>3. CASE hold'[a] = hold[a]
  <2>1. Reservation(a)' /\ Covered(a)' /\ BarrierHasSave(a)'
    BY <1>1, <1>2, <1>3 DEF AdventureInv, Reservation, Covered, BarrierHasSave, HeldFor
  <2>2. SourcesAreNewest(a)'
    BY <1>1, <1>2, <1>3 DEF AdventureInv, SourcesAreNewest, Uncommitted, IsRestartPoint,
       Exchanged,
       Reloads, HeldFor, RestartPoint
  <2> QED
    BY <2>1, <2>2, <1>1, AdventureTyped, StateFields DEF AdventureInv, Lineage
<1>4. CASE hold'[a] # hold[a]
  <2>1. PICK t \in Exchange : /\ record[a][t] \in {"preparing", "prepared", "staged"}
                              /\ hold'[a] = [id |-> t, source |-> source[a][t]]
    BY <1>4 DEF Reheld
  <2>2. record[a][t] = "preparing"
    BY <1>4, <2>1, FreeAdventure DEF Reheld
  <2>3. t \in Unfinished(a) /\ source[a][t] = Nothing
    BY <2>2 DEF Unfinished, Final, AdventureInv, SourcesAreNewest
  <2>4. hold'[a].id = t /\ hold'[a].source = Nothing
    BY <2>1, <2>3
  <2>5. \A u \in Exchange : u # t => record[a][u] \in Final \cup {"none"}
    BY <2>3, Alone
  <2>6. Reservation(a)'
    BY <1>1, <1>2, <2>3, <2>4, ExchangeIds DEF AdventureInv, Reservation
  <2>7. Covered(a)' /\ BarrierHasSave(a)'
    BY <2>2, <2>5 DEF AdventureInv, Covered, BarrierHasSave, Final
  <2>8. SourcesAreNewest(a)'
    <3>1. \A u \in Exchange : ~Uncommitted(a, u)'
      BY <2>2, <2>5 DEF Uncommitted, Final
    <3> QED
      BY <1>2, <2>2, <2>4, <2>5, <3>1 DEF AdventureInv, SourcesAreNewest, Final
  <2> QED
    BY <2>6, <2>7, <2>8, <1>1, AdventureTyped, StateFields DEF AdventureInv, Lineage
<1> QED
  BY <1>3, <1>4

LEMMA InvStarts ==
    ASSUME ParticipantTypeOK, NEW a \in Adventure, AdventureInv(a), WorkerStarts(a)
    PROVE  AdventureInv(a)'
<1>1. UNCHANGED source /\ game'[a] = RestartPoint(a)'
  BY DEF WorkerStarts, ParticipantTypeOK
<1>2. CASE RecoverNothing(a)
  <2>1. /\ UNCHANGED <<saves, barrier, record, source>> /\ Reheld(a)
        /\ preparation'[a] = Stranded(a, preparation[a])
    BY <1>1, <1>2 DEF RecoverNothing, Reheld, ParticipantTypeOK
  <2> QED
    BY <1>1, <2>1, InvRestarted
<1>3. ASSUME NEW t \in Exchange, RecoverUndecided(a, t)
      PROVE  AdventureInv(a)'
  <2>1. /\ UNCHANGED <<saves, barrier, record, source>>
        /\ record[a][t] \in {"preparing", "prepared", "staged"}
        /\ preparation'[a] = Stranded(a, preparation[a])
        /\ Reheld(a)
    BY <1>1, <1>3 DEF RecoverUndecided, Reheld, ParticipantTypeOK
  <2> QED
    BY <1>1, <2>1, InvRestarted
<1>4. ASSUME NEW t \in Exchange, RecoverCommit(a, t)
      PROVE  AdventureInv(a)'
  <2>1. /\ Promote(a, t) /\ UNCHANGED record
        /\ record[a][t] \in {"committed", "applied"}
        /\ preparation'[a] = Stranded(a, preparation[a])
    BY <1>4 DEF RecoverCommit, ParticipantTypeOK
  <2>2. Committable(a, t)
    BY <2>1 DEF Committable
  <2>3. /\ preparation'[a].id = preparation[a].id
        /\ preparation'[a].phase = "idle" <=> preparation[a].phase = "idle"
        /\ preparation'[a].phase = "travelling" => preparation[a].phase = "travelling"
    BY <2>1 DEF Stranded
  <2>4. game'[a] = Published(a, t)
    <3>1. Published(a, t) # Nothing
      BY <2>2, PublishedLineage
    <3>2. barrier'[a] = t /\ saves'[a] = [saves[a] EXCEPT ![t] = Published(a, t)]
      BY <2>1 DEF Promote, ParticipantTypeOK
    <3>3. saves'[a][t] = Published(a, t)
      BY <3>2, ExchangeIds, AdventureTyped
    <3> QED
      BY <1>1, <3>1, <3>2, <3>3 DEF RestartPoint
  <2> QED
    BY <1>1, <2>1, <2>2, <2>3, <2>4, InvPromoted
<1>5. ASSUME NEW t \in Exchange, RecoverAbort(a, t)
      PROVE  AdventureInv(a)'
  <2>1. /\ UNCHANGED <<saves, barrier>> /\ Written(a, t, "aborted")
        /\ record[a][t] = "aborting"
        /\ hold'[a] = ClearedHold(a, t)
        /\ preparation'[a] = Stranded(a, ClearedPreparation(a, t))
    BY <1>5 DEF RecoverAbort, ParticipantTypeOK, Written
  <2>2. \A u \in Exchange : record'[a][u] = IF u = t THEN "aborted" ELSE record[a][u]
    BY <2>1, WrittenAt
  <2>3. t \in Unfinished(a)
    BY <2>1 DEF Unfinished, Final
  <2>4. \A u \in Exchange : u # t => record[a][u] \in Final \cup {"none"}
    BY <2>3, Alone
  <2>5. /\ hold'[a] = NoHold
        /\ preparation'[a].phase = "idle" /\ preparation'[a].id = NoExchange
    BY <2>1, <2>3, ClearedOwn DEF Stranded
  <2>6. Unfinished(a)' = {}
    BY <2>2, <2>4 DEF Unfinished, Final
  <2>7. Received(a)' = Received(a) /\ RestartPoint(a)' = RestartPoint(a)
    <3>1. "aborted" \notin CommitPhases /\ record[a][t] \notin CommitPhases
      BY <2>1 DEF CommitPhases
    <3> QED
      BY <2>1, <2>2, <3>1, ReceivedKept DEF RestartPoint
  <2>8. Reservation(a)'
    BY <2>5, <2>6 DEF Reservation, NoHold
  <2>9. Covered(a)'
    BY <2>2, <2>4 DEF Covered, Final
  <2>10. BarrierHasSave(a)'
    <3>1. record[a][t] \notin CommitPhases /\ barrier[a] \in 0 .. N
      BY <2>1, AdventureTyped DEF CommitPhases
    <3> QED
      BY <2>1, <2>2, <3>1 DEF AdventureInv, BarrierHasSave
  <2>11. SourcesAreNewest(a)'
    <3>1. \A u \in Exchange : ~Uncommitted(a, u)'
      BY <2>2, <2>4 DEF Uncommitted, Final
    <3> QED
      BY <1>1, <2>2, <2>4, <2>5, <3>1 DEF AdventureInv, SourcesAreNewest, Final
  <2>12. Lineage(a)'
    <3>1. RestartPoint(a).progress \in Nat
      BY AdventureTyped, StateFields
    <3> QED
      BY <1>1, <2>7, <3>1 DEF AdventureInv, Lineage
  <2> QED
    BY <2>8, <2>9, <2>10, <2>11, <2>12 DEF AdventureInv
<1> QED
  BY <1>2, <1>3, <1>4, <1>5 DEF WorkerStarts

LEMMA InvWorkerLife ==
    ASSUME ParticipantTypeOK, NEW a \in Adventure, AdventureInv(a), WorkerLife(a)
    PROVE  AdventureInv(a)'
<1>1. CASE WorkerCrashes(a)
  <2>1. ~Running(a)' /\ UNCHANGED durable
    BY <1>1 DEF WorkerCrashes, Running, ParticipantTypeOK
  <2> QED
    BY <2>1, InvDown
<1>2. CASE ParentLost(a)
  <2>1. /\ UNCHANGED <<saves, barrier, hold, preparation, record, source>>
        /\ game' = game /\ Running(a) /\ Running(a)'
    BY <1>2 DEF ParentLost, Running, durable, ParticipantTypeOK
  <2>2. /\ Unfinished(a)' = Unfinished(a) /\ Received(a)' = Received(a)
        /\ RestartPoint(a)' = RestartPoint(a)
    BY <2>1 DEF Unfinished, Received, RestartPoint
  <2>3. Reservation(a)' /\ Covered(a)' /\ BarrierHasSave(a)'
    BY <2>1, <2>2 DEF AdventureInv, Reservation, Covered, BarrierHasSave, HeldFor
  <2>4. SourcesAreNewest(a)'
    BY <2>1 DEF AdventureInv, SourcesAreNewest, Uncommitted, IsRestartPoint, Exchanged,
       Reloads, HeldFor
  <2>5. Lineage(a)'
    BY <2>1, <2>2 DEF AdventureInv, Lineage
  <2> QED
    BY <2>3, <2>4, <2>5 DEF AdventureInv
<1> QED
  BY <1>1, <1>2, InvStops, InvStarts DEF WorkerLife

\* A refused or waiting request changes nothing.
LEMMA InvRequests ==
    ASSUME ParticipantTypeOK, NEW a \in Adventure, NEW t \in Exchange, AdventureInv(a),
           Requests(a, t)
    PROVE  AdventureInv(a)'
<1>1. CASE UNCHANGED participantVars
  <2>1. Untouched(a)
    BY <1>1 DEF participantVars, Untouched
  <2> QED
    BY <2>1, InvFrame
<1>2. \/ UNCHANGED participantVars
      \/ PrepareBegins(a, t) \/ PrepareSucceeds(a, t) \/ PrepareRefused(a, t)
      \/ StageSucceeds(a, t) \/ ApplySucceeds(a, t) \/ ApplyInterrupted(a, t)
      \/ ReleaseSucceeds(a, t) \/ AbortSucceeds(a, t) \/ AbortInterrupted(a, t)
  BY DEF Requests, PrepareWaits, StageRefused, ApplyRefused, ReleaseRefused, AbortRefused
<1> QED
  BY <1>1, <1>2, InvPrepareBegins, InvPrepareSucceeds, InvPrepareRefused, InvStageSucceeds,
     InvApplySucceeds, InvApplyInterrupted, InvReleaseSucceeds, InvAbortSucceeds,
     InvAbortInterrupted

\* A step of one adventure leaves every other one alone.
LEMMA OthersUntouched ==
    ASSUME ParticipantTypeOK, NEW a \in Adventure, NEW b \in Adventure, a # b,
           Gameplay(a) \/ (\E t \in Exchange : Requests(a, t)) \/ WorkerLife(a)
    PROVE  Untouched(b)
<1> USE DEF ParticipantTypeOK, Untouched, participantVars, durable
<1>1. CASE Gameplay(a)
  BY <1>1 DEF Gameplay, Play, Autosave, PreparationReady, PreparationInterrupted,
     PreparationEnds
<1>2. ASSUME NEW t \in Exchange, Requests(a, t)
      PROVE  Untouched(b)
  <2>1. CASE PrepareBegins(a, t) \/ PrepareSucceeds(a, t) \/ PrepareRefused(a, t)
    BY <2>1 DEF PrepareBegins, PrepareSucceeds, PrepareRefused
  <2>2. CASE StageSucceeds(a, t) \/ ReleaseSucceeds(a, t) \/ AbortSucceeds(a, t)
             \/ AbortInterrupted(a, t)
    BY <2>2 DEF StageSucceeds, ReleaseSucceeds, AbortSucceeds, AbortInterrupted
  <2>3. CASE ApplySucceeds(a, t) \/ ApplyInterrupted(a, t)
    BY <2>3 DEF ApplySucceeds, ApplyInterrupted, Promote
  <2>4. CASE UNCHANGED participantVars
    BY <2>4
  <2> QED
    BY <1>2, <2>1, <2>2, <2>3, <2>4
    DEF Requests, PrepareWaits, StageRefused, ApplyRefused, ReleaseRefused, AbortRefused
<1>3. CASE WorkerCrashes(a) \/ WorkerStops(a) \/ ParentLost(a)
  BY <1>3 DEF WorkerCrashes, WorkerStops, ParentLost
<1>4. CASE WorkerStarts(a)
  BY <1>4 DEF WorkerStarts, RecoverNothing, RecoverCommit, RecoverAbort, RecoverUndecided,
     Promote
<1> QED
  BY <1>1, <1>2, <1>3, <1>4 DEF WorkerLife

LEMMA InvInit == ParticipantInit => ParticipantInv
<1> SUFFICES ASSUME ParticipantInit
             PROVE  ParticipantTypeOK /\ \A a \in Adventure : AdventureInv(a)
  BY DEF ParticipantInv
<1>1. ParticipantTypeOK
  BY TypeInit
<1>2. ASSUME NEW a \in Adventure
      PROVE  AdventureInv(a)
  <2>1. /\ \A t \in Exchange : record[a][t] = "none" /\ source[a][t] = Nothing
        /\ \A u \in 0 .. N : saves[a][u] = Nothing
        /\ barrier[a] = NoExchange /\ hold[a] = NoHold
        /\ preparation[a] = NoPreparation /\ game[a] = PowerOn
    BY DEF ParticipantInit
  <2>2. Unfinished(a) = {} /\ Received(a) = {} /\ RestartPoint(a) = PowerOn
    BY <2>1 DEF Unfinished, Received, RestartPoint
  <2>3. \A t \in Exchange : ~HeldFor(a, t) /\ ~Uncommitted(a, t)
    BY <2>1, ExchangeIds DEF HeldFor, NoHold, Uncommitted
  <2>4. Reservation(a) /\ Covered(a) /\ BarrierHasSave(a)
    BY <2>1, <2>2, ExchangeIds DEF Reservation, NoHold, NoPreparation, Covered, BarrierHasSave
  <2>5. SourcesAreNewest(a)
    BY <2>1, <2>3 DEF SourcesAreNewest, NoPreparation
  <2>6. Lineage(a)
    BY <2>1, <2>2 DEF Lineage, PowerOn
  <2> QED
    BY <2>4, <2>5, <2>6 DEF AdventureInv
<1> QED
  BY <1>1, <1>2

\* One step of one adventure.
LEMMA InvStep == ParticipantInv /\ [ParticipantNext]_participantVars => ParticipantInv'
<1> SUFFICES ASSUME ParticipantInv, [ParticipantNext]_participantVars
             PROVE  ParticipantInv'
  OBVIOUS
<1>1. ParticipantTypeOK /\ \A b \in Adventure : AdventureInv(b)
  BY DEF ParticipantInv
<1>2. CASE UNCHANGED participantVars
  <2>1. ParticipantTypeOK'
    BY <1>1, <1>2 DEF participantVars, ParticipantTypeOK, Running
  <2>2. \A b \in Adventure : Untouched(b)
    BY <1>2 DEF participantVars, Untouched
  <2> QED
    BY <1>1, <2>1, <2>2, InvFrame DEF ParticipantInv
<1>3. ASSUME NEW a \in Adventure,
             Gameplay(a) \/ (\E t \in Exchange : Requests(a, t)) \/ WorkerLife(a)
      PROVE  ParticipantInv'
  <2>1. \A t \in Exchange : Committable(a, t) => source[a][t] # Nothing
    BY <1>1, PublishedLineage
  <2>2. ParticipantTypeOK'
    BY <1>1, <1>3, <2>1, TypeGameplay, TypeRequests, TypeWorkerLife
  <2>3. AdventureInv(a)'
    <3>1. CASE Gameplay(a)
      BY <1>1, <3>1, InvPlay, InvAutosave, InvPreparationReady, InvPreparationInterrupted,
         InvPreparationEnds DEF Gameplay
    <3>2. CASE \E t \in Exchange : Requests(a, t)
      BY <1>1, <3>2, InvRequests
    <3>3. CASE WorkerLife(a)
      BY <1>1, <3>3, InvWorkerLife
    <3> QED
      BY <1>3, <3>1, <3>2, <3>3
  <2>4. \A b \in Adventure : b # a => AdventureInv(b)'
    BY <1>1, <1>3, OthersUntouched, InvFrame
  <2> QED
    BY <2>2, <2>3, <2>4 DEF ParticipantInv
<1> QED
  BY <1>2, <1>3 DEF ParticipantNext

------------------------------------------------------------------------------
(* What follows for every behaviour. *)

\* The inductive invariant holds whatever requests arrive, in whatever order,
\* and wherever handlers and workers stop.
THEOREM AlwaysInv == ParticipantSpec => []ParticipantInv
BY InvInit, InvStep, PTL DEF ParticipantSpec

\* What the invariant says of the properties.
LEMMA InvImplies ==
    ParticipantInv => /\ ParticipantTypeOK /\ OneReservation /\ HoldCoversExchange
                      /\ HoldHasOwner /\ RestartMatchesRecords /\ PlayMatchesRecords
                      /\ SourceIsRestartPoint
<1> SUFFICES ASSUME ParticipantInv
             PROVE  /\ ParticipantTypeOK /\ OneReservation /\ HoldCoversExchange
                    /\ HoldHasOwner /\ RestartMatchesRecords /\ PlayMatchesRecords
                    /\ SourceIsRestartPoint
  OBVIOUS
<1>1. ParticipantTypeOK /\ \A a \in Adventure : AdventureInv(a)
  BY DEF ParticipantInv
<1>2. OneReservation /\ HoldHasOwner
  BY <1>1 DEF AdventureInv, Reservation, OneReservation, HoldHasOwner
<1>3. HoldCoversExchange
  BY <1>1 DEF AdventureInv, Covered, HoldCoversExchange
<1>4. RestartMatchesRecords
  BY <1>1 DEF AdventureInv, Lineage, RestartMatchesRecords
<1>5. PlayMatchesRecords
  BY <1>1, FreeAdventure DEF PlayMatchesRecords
<1>6. SourceIsRestartPoint
  BY <1>1 DEF AdventureInv, SourcesAreNewest, Uncommitted, IsRestartPoint, SourceIsRestartPoint,
     RestartPoint
<1> QED
  BY <1>1, <1>2, <1>3, <1>4, <1>5, <1>6

\* Every variable stays in its type: the game is there exactly while a worker runs.
THEOREM TypeCorrect == ParticipantSpec => []ParticipantTypeOK
BY AlwaysInv, InvImplies, PTL

\* prepare, its failures and restarts never reserve an adventure twice.
THEOREM ReservedOnce == ParticipantSpec => []OneReservation
BY AlwaysInv, InvImplies, PTL

\* An adventure whose save is named as a source is held until that exchange's end.
THEOREM HeldUntilItsEnd == ParticipantSpec => []HoldCoversExchange
BY AlwaysInv, InvImplies, PTL

\* No hold outlives the record that can release or abort it.
THEOREM NoOrphanHold == ParticipantSpec => []HoldHasOwner
BY AlwaysInv, InvImplies, PTL

\* Whenever the worker is killed, its restart resumes with exactly the Pokemon
\* its records say it received.
THEOREM RestartIsExact == ParticipantSpec => []RestartMatchesRecords
BY AlwaysInv, InvImplies, PTL

\* Play only ever happens on a game that holds exactly what the records say.
THEOREM PlayIsExact == ParticipantSpec => []PlayMatchesRecords
BY AlwaysInv, InvImplies, PTL

\* The source of an undecided exchange is the newest save and the paused game.
THEOREM SourceIsNewest == ParticipantSpec => []SourceIsRestartPoint
BY AlwaysInv, InvImplies, PTL

\* A decided record stays decided and a finished one stays as it is.
DecisionKept ==
    \A a \in Adventure, t \in Exchange :
        /\ record[a][t] \in CommitPhases => record'[a][t] \in CommitPhases
        /\ record[a][t] \in AbortPhases => record'[a][t] \in AbortPhases
        /\ record[a][t] \in Final => record'[a][t] = record[a][t]

LEMMA DecisionStep ==
    ASSUME ParticipantInv, [ParticipantNext]_participantVars
    PROVE  DecisionKept
<1>1. ParticipantTypeOK
  BY DEF ParticipantInv
<1>2. CASE record' = record
  BY <1>2 DEF DecisionKept
<1>3. ASSUME NEW a \in Adventure, NEW t \in Exchange, NEW p \in RecordPhases, Written(a, t, p),
             record[a][t] \in CommitPhases => p \in CommitPhases,
             record[a][t] \in AbortPhases => p \in AbortPhases,
             record[a][t] \in Final => p = record[a][t]
      PROVE  DecisionKept
  BY <1>1, <1>3 DEF DecisionKept, Written, ParticipantTypeOK
<1>4. /\ "preparing" \in RecordPhases /\ "prepared" \in RecordPhases
      /\ "staged" \in RecordPhases /\ "committed" \in RecordPhases
      /\ "applied" \in RecordPhases /\ "released" \in RecordPhases
      /\ "aborting" \in RecordPhases /\ "aborted" \in RecordPhases
  BY DEF RecordPhases, CommitPhases, AbortPhases
<1>5. ASSUME NEW a \in Adventure, NEW t \in Exchange, Requests(a, t)
      PROVE  DecisionKept
  <2>1. CASE PrepareBegins(a, t) \/ PrepareSucceeds(a, t) \/ PrepareRefused(a, t)
             \/ StageSucceeds(a, t)
    <3>1. \/ record' = record
          \/ /\ record[a][t] \in {"none", "preparing", "prepared"}
             /\ Written(a, t, "preparing") \/ Written(a, t, "prepared") \/ Written(a, t, "staged")
      BY <2>1 DEF PrepareBegins, PrepareSucceeds, PrepareRefused, StageSucceeds, Written
    <3> QED
      BY <1>2, <1>3, <1>4, <3>1 DEF CommitPhases, AbortPhases, Final
  <2>2. CASE ApplySucceeds(a, t) \/ ApplyInterrupted(a, t)
    <3>1. \/ record' = record
          \/ /\ record[a][t] \in {"staged", "committed", "applied"}
             /\ Written(a, t, "committed") \/ Written(a, t, "applied")
      BY <2>2 DEF ApplySucceeds, ApplyInterrupted, Committable, Written
    <3> QED
      BY <1>2, <1>3, <1>4, <3>1 DEF CommitPhases, AbortPhases, Final
  <2>3. CASE ReleaseSucceeds(a, t)
    <3>1. record' = record \/ (record[a][t] = "applied" /\ Written(a, t, "released"))
      BY <2>3 DEF ReleaseSucceeds, Written
    <3> QED
      BY <1>2, <1>3, <1>4, <3>1 DEF CommitPhases, AbortPhases, Final
  <2>4. CASE AbortSucceeds(a, t) \/ AbortInterrupted(a, t)
    <3>1. \/ /\ record[a][t] \in {"none", "preparing", "prepared", "staged", "aborting"}
             /\ Written(a, t, "aborting") \/ Written(a, t, "aborted")
          \/ record[a][t] = "aborted" /\ Written(a, t, "aborted")
      BY <2>4 DEF AbortSucceeds, AbortInterrupted, Abortable, Written
    <3> QED
      BY <1>3, <1>4, <3>1 DEF CommitPhases, AbortPhases, Final
  <2>5. CASE UNCHANGED participantVars
    BY <1>2, <2>5 DEF participantVars
  <2> QED
    BY <1>5, <2>1, <2>2, <2>3, <2>4, <2>5
    DEF Requests, PrepareWaits, StageRefused, ApplyRefused, ReleaseRefused, AbortRefused
<1>6. ASSUME NEW a \in Adventure, WorkerStarts(a)
      PROVE  DecisionKept
  <2>1. \/ record' = record
        \/ \E t \in Exchange : record[a][t] = "aborting" /\ Written(a, t, "aborted")
    BY <1>6 DEF WorkerStarts, RecoverNothing, RecoverCommit, RecoverAbort, RecoverUndecided,
       Written
  <2> QED
    BY <1>2, <1>3, <1>4, <2>1 DEF CommitPhases, AbortPhases, Final
<1>7. CASE record' # record
  <2>1. \E a \in Adventure : WorkerStarts(a) \/ \E t \in Exchange : Requests(a, t)
    BY <1>7 DEF ParticipantNext, participantVars, durable, Gameplay, Play, Autosave,
       PreparationReady,
       PreparationInterrupted, PreparationEnds, WorkerLife, WorkerCrashes, WorkerStops, ParentLost
  <2> QED
    BY <1>5, <1>6, <2>1
<1> QED
  BY <1>2, <1>7

\* No order of requests, failures and restarts undoes a commit or revives an abort.
THEOREM DecisionIsFinal == ParticipantSpec => RecordDecisionIsFinal
<1>1. ParticipantInv /\ [ParticipantNext]_participantVars => [DecisionKept]_participantVars
  BY DecisionStep
<1> QED
  BY <1>1, AlwaysInv, PTL DEF ParticipantSpec, RecordDecisionIsFinal, DecisionKept

\* How far the restart point of one adventure has come never decreases.
SavedPlay(a) == RestartPoint(a)'.progress >= RestartPoint(a).progress

LEMMA SavedPlayStep ==
    ASSUME ParticipantInv, NEW a \in Adventure,
           Gameplay(a) \/ (\E t \in Exchange : Requests(a, t)) \/ WorkerLife(a)
    PROVE  SavedPlay(a)
<1>1. ParticipantTypeOK /\ AdventureInv(a)
  BY DEF ParticipantInv
<1>2. RestartPoint(a).progress \in Nat
  BY <1>1, AdventureTyped, StateFields
<1>3. CASE saves' = saves /\ barrier' = barrier
  BY <1>2, <1>3 DEF SavedPlay, RestartPoint
<1>4. ASSUME Running(a), hold[a] = NoHold, barrier' = barrier,
             saves' = [saves EXCEPT ![a][barrier[a]] = game[a]]
      PROVE  SavedPlay(a)
  <2>1. saves'[a] = [saves[a] EXCEPT ![barrier[a]] = game[a]]
    BY <1>1, <1>4 DEF ParticipantTypeOK
  <2>2. saves'[a][barrier[a]] = game[a] /\ game[a] # Nothing
    BY <1>1, <1>4, <2>1, AdventureTyped, StateFields
  <2>3. RestartPoint(a)' = game[a]
    BY <1>4, <2>2 DEF RestartPoint
  <2> QED
    BY <1>1, <1>4, <2>3, FreeAdventure DEF SavedPlay
<1>5. ASSUME NEW t \in Exchange, Committable(a, t),
             \/ Promote(a, t)
             \/ barrier' = barrier /\ saves' = [saves EXCEPT ![a][t] = Published(a, t)]
      PROVE  SavedPlay(a)
  <2>1. /\ Published(a, t) # Nothing
        /\ Published(a, t).progress = RestartPoint(a).progress
        /\ barrier[a] = t => Published(a, t) = saves[a][t]
    BY <1>1, <1>5, PublishedLineage
  <2>2. /\ saves'[a] = [saves[a] EXCEPT ![t] = Published(a, t)]
        /\ barrier'[a] \in {t, barrier[a]}
    BY <1>1, <1>5 DEF Promote, ParticipantTypeOK
  <2>3. \A u \in 0 .. N : saves'[a][u] = IF u = t THEN Published(a, t) ELSE saves[a][u]
    BY <1>1, <2>2, AdventureTyped
  <2>4. CASE barrier'[a] = t
    BY <1>2, <2>1, <2>3, <2>4, ExchangeIds DEF SavedPlay, RestartPoint
  <2>5. CASE barrier'[a] = barrier[a] /\ barrier[a] # t
    BY <1>1, <1>2, <2>3, <2>5, AdventureTyped DEF SavedPlay, RestartPoint
  <2> QED
    BY <2>2, <2>4, <2>5
<1>6. CASE Gameplay(a)
  BY <1>3, <1>4, <1>6 DEF Gameplay, Play, Autosave, PreparationReady, PreparationInterrupted,
     PreparationEnds, durable
<1>7. ASSUME NEW t \in Exchange, Requests(a, t)
      PROVE  SavedPlay(a)
  <2>1. CASE ApplySucceeds(a, t) \/ ApplyInterrupted(a, t)
    BY <1>3, <1>5, <2>1 DEF ApplySucceeds, ApplyInterrupted
  <2>2. CASE ~(ApplySucceeds(a, t) \/ ApplyInterrupted(a, t))
    BY <1>3, <1>7, <2>2 DEF Requests, PrepareBegins, PrepareWaits, PrepareSucceeds,
       PrepareRefused,
       StageSucceeds, StageRefused, ApplyRefused, ReleaseSucceeds, ReleaseRefused, AbortSucceeds,
       AbortRefused, AbortInterrupted, participantVars
  <2> QED
    BY <2>1, <2>2
<1>8. CASE WorkerCrashes(a) \/ ParentLost(a) \/ WorkerStops(a)
  BY <1>3, <1>4, <1>8 DEF WorkerCrashes, ParentLost, WorkerStops, durable
<1>9. CASE WorkerStarts(a)
  <2>1. ASSUME NEW t \in Exchange, RecoverCommit(a, t)
        PROVE  SavedPlay(a)
    BY <1>5, <2>1 DEF RecoverCommit, Committable
  <2> QED
    BY <1>3, <1>9, <2>1 DEF WorkerStarts, RecoverNothing, RecoverAbort, RecoverUndecided
<1> QED
  BY <1>6, <1>7, <1>8, <1>9 DEF WorkerLife

LEMMA SavedPlaySteps ==
    ASSUME ParticipantInv, [ParticipantNext]_participantVars, NEW a \in Adventure
    PROVE  SavedPlay(a)
<1>1. ParticipantTypeOK
  BY DEF ParticipantInv
<1>2. RestartPoint(a).progress \in Nat
  BY <1>1, AdventureTyped, StateFields
<1>3. CASE Untouched(a)
  BY <1>2, <1>3 DEF SavedPlay, RestartPoint, Untouched
<1>4. CASE UNCHANGED participantVars
  BY <1>3, <1>4 DEF participantVars, Untouched
<1>5. CASE ParticipantNext
  BY <1>1, <1>3, <1>5, SavedPlayStep, OthersUntouched DEF ParticipantNext
<1> QED
  BY <1>4, <1>5

\* Play that was saved is never lost, to a crash, an abort or a published exchange.
THEOREM SavedPlayStays == ParticipantSpec => SavedPlayIsKept
<1>1. ParticipantInv /\ [ParticipantNext]_participantVars => \A a \in Adventure : SavedPlay(a)
  BY SavedPlaySteps
<1>2. ParticipantInv /\ [ParticipantNext]_participantVars
         => [\A a \in Adventure : RestartPoint(a)'.progress >= RestartPoint(a).progress]_participantVars
  BY <1>1 DEF SavedPlay
<1> QED
  BY <1>2, AlwaysInv, PTL DEF ParticipantSpec, SavedPlayIsKept
==============================================================================
