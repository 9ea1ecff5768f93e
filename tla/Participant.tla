----------------------------- MODULE Participant -----------------------------
(***************************************************************************)
(* The adventure-owned half of a Cable Club exchange: one worker process   *)
(* per adventure, its SQLite key/value rows (interaction records, the      *)
(* trade hold, the preparation, the trade barrier), its checkpoint files   *)
(* and the live game.  The handlers are those of runtime/participant.py;   *)
(* they run one at a time on the game thread (Emulator.call), so a handler *)
(* is one action.  An exception inside a handler is a second action that   *)
(* stops after some of its writes; a crash there is that action followed   *)
(* by WorkerCrashes.                                                       *)
(*                                                                         *)
(* Nothing is assumed of the caller here: any request for any exchange may *)
(* arrive at any time.  CableExchange adds the coordinator.                *)
(***************************************************************************)
EXTENDS Naturals, FiniteSets

CONSTANTS
    Adventure,     \* the linked adventures
    N,             \* how many exchanges are ever proposed
    MaxProgress,   \* bound on the play a game accumulates
    Nothing        \* no checkpoint, no game: distinct from every value below

ASSUME NAssumption == N \in Nat
ASSUME MaxProgressAssumption == MaxProgress \in Nat

Exchange == 1 .. N
NoExchange == 0

\* What a cartridge state is to this protocol: how far play has come and
\* which exchanges' received Pokemon are in it.
GameState == [progress : 0 .. MaxProgress, got : SUBSET Exchange]
PowerOn == [progress |-> 0, got |-> {}]

\* A checkpoint carries the trade_id its manifest was written with.
Checkpoint == [tag : 0 .. N, state : GameState]

ASSUME NothingAssumption == Nothing \notin GameState \cup Checkpoint

\* A hold names the save it protects once that save is on disk.
Holds == [id : 0 .. N, source : Checkpoint \cup {Nothing}]
NoHold == [id |-> NoExchange, source |-> Nothing]

Preparations == [id : 0 .. N, phase : {"idle", "travelling", "stranded",
                                        "ready", "failed", "cancelled"}]
NoPreparation == [id |-> NoExchange, phase |-> "idle"]

CommitPhases == {"committed", "applied", "released"}
AbortPhases == {"aborting", "aborted"}
Final == {"aborted", "released"}
RecordPhases == {"none", "preparing", "prepared", "staged"} \cup CommitPhases \cup AbortPhases

VARIABLES
    worker,       \* "down", "up", or "orphan": running without its parent
    game,         \* the live game, Nothing while the worker is down
    saves,        \* newest autosave under each trade_id
    barrier,      \* kv trade_barrier: restores refuse any other trade_id
    hold,         \* kv trade_hold: the exchange the game is held for
    preparation,  \* kv interaction_preparation
    record,       \* kv interaction:<id>: phase, with the decision it implies
    source        \* the checkpoint a prepared record names

durable == <<saves, barrier, hold, preparation, record, source>>
participantVars == <<worker, game, saves, barrier, hold, preparation, record, source>>

------------------------------------------------------------------------------

Running(a) == worker[a] # "down"
Unfinished(a) == {t \in Exchange : record[a][t] \notin Final \cup {"none"}}
Travelling(a) == preparation[a].phase \in {"travelling", "stranded"}
HeldFor(a, t) == hold[a].id = t

\* What a restart resumes from: the newest save the barrier admits.
RestartPoint(a) ==
    IF saves[a][barrier[a]] = Nothing THEN PowerOn ELSE saves[a][barrier[a]]

\* The cable result for a prepared source.
Exchanged(a, t) ==
    [progress |-> source[a][t].state.progress, got |-> source[a][t].state.got \cup {t}]

ParticipantInit ==
    /\ worker = [a \in Adventure |-> "up"]
    /\ game = [a \in Adventure |-> PowerOn]
    /\ saves = [a \in Adventure |-> [u \in 0 .. N |-> Nothing]]
    /\ barrier = [a \in Adventure |-> NoExchange]
    /\ hold = [a \in Adventure |-> NoHold]
    /\ preparation = [a \in Adventure |-> NoPreparation]
    /\ record = [a \in Adventure |-> [t \in Exchange |-> "none"]]
    /\ source = [a \in Adventure |-> [t \in Exchange |-> Nothing]]

ParticipantTypeOK ==
    /\ worker \in [Adventure -> {"down", "up", "orphan"}]
    /\ game \in [Adventure -> GameState \cup {Nothing}]
    /\ saves \in [Adventure -> [0 .. N -> GameState \cup {Nothing}]]
    /\ barrier \in [Adventure -> 0 .. N]
    /\ hold \in [Adventure -> Holds]
    /\ preparation \in [Adventure -> Preparations]
    /\ record \in [Adventure -> [Exchange -> RecordPhases]]
    /\ source \in [Adventure -> [Exchange -> Checkpoint \cup {Nothing}]]
    /\ \A a \in Adventure : Running(a) <=> game[a] # Nothing

------------------------------------------------------------------------------
(* Gameplay and the preparation that runs inside it. *)

\* The game thread plays only while nothing holds the adventure.
Play(a) ==
    /\ Running(a) /\ hold[a] = NoHold
    /\ game[a].progress < MaxProgress
    /\ game' = [game EXCEPT ![a] = [progress |-> @.progress + 1, got |-> @.got]]
    /\ UNCHANGED <<worker, durable>>

Autosave(a) ==
    /\ Running(a) /\ hold[a] = NoHold
    /\ saves' = [saves EXCEPT ![a][barrier[a]] = game[a]]
    /\ UNCHANGED <<worker, game, barrier, hold, preparation, record, source>>

\* Variant: the hold names the live game without saving it.
PreparationReadyUnsaved(a) ==
    /\ Running(a) /\ preparation[a].phase = "travelling" /\ hold[a] = NoHold
    /\ hold' = [hold EXCEPT ![a] = [id |-> preparation[a].id,
                                   source |-> [tag |-> barrier[a], state |-> game[a]]]]
    /\ preparation' = [preparation EXCEPT ![a] = [id |-> @.id, phase |-> "ready"]]
    /\ UNCHANGED <<worker, game, saves, barrier, record, source>>

\* The selected partner reached the counter: hold, save, name the save, ready.
PreparationReady(a) ==
    /\ Running(a) /\ preparation[a].phase = "travelling" /\ hold[a] = NoHold
    /\ hold' = [hold EXCEPT ![a] = [id |-> preparation[a].id,
                                   source |-> [tag |-> barrier[a], state |-> game[a]]]]
    /\ saves' = [saves EXCEPT ![a][barrier[a]] = game[a]]
    /\ preparation' = [preparation EXCEPT ![a] = [id |-> @.id, phase |-> "ready"]]
    /\ UNCHANGED <<worker, game, barrier, record, source>>

\* The hold is written before the save it will name.  A failed save leaves a
\* hold without a source, and a paused game never steps the preparation again.
\* A crash in between is this step followed by WorkerCrashes.
PreparationInterrupted(a) ==
    /\ Running(a) /\ preparation[a].phase = "travelling" /\ hold[a] = NoHold
    /\ hold' = [hold EXCEPT ![a] = [id |-> preparation[a].id, source |-> Nothing]]
    /\ \/ UNCHANGED saves
       \/ saves' = [saves EXCEPT ![a][barrier[a]] = game[a]]
    /\ preparation' = [preparation EXCEPT ![a] = [id |-> @.id, phase |-> "stranded"]]
    /\ UNCHANGED <<worker, game, barrier, record, source>>

\* A missed deadline, a lost partner or a blocked route fails the preparation;
\* the owner's pause cancels it.
PreparationEnds(a) ==
    /\ Running(a) /\ preparation[a].phase = "travelling" /\ hold[a] = NoHold
    /\ \E phase \in {"failed", "cancelled"} :
          preparation' = [preparation EXCEPT ![a] = [id |-> @.id, phase |-> phase]]
    /\ UNCHANGED <<worker, game, saves, barrier, hold, record, source>>

------------------------------------------------------------------------------
(* prepare: reserve the adventure, start the preparation, report it ready. *)

\* begin() accepts: no hold, no other preparation under way.
MayBegin(a) == hold[a] = NoHold /\ ~Travelling(a)

\* Variant: other unfinished records are not looked at.
PrepareBeginsAnyway(a, t) ==
    /\ Running(a)
    /\ \/ record[a][t] = "none"
       \/ record[a][t] = "preparing" /\ preparation[a].id # t
    /\ MayBegin(a)
    /\ record' = [record EXCEPT ![a][t] = "preparing"]
    /\ preparation' = [preparation EXCEPT ![a] = [id |-> t, phase |-> "travelling"]]
    /\ UNCHANGED <<worker, game, saves, barrier, hold, source>>

\* Variant: a request that comes after the abort starts all over.
PrepareBeginsAgain(a, t) ==
    /\ Running(a)
    /\ \/ record[a][t] \in {"none", "aborted"} /\ Unfinished(a) = {}
       \/ record[a][t] = "preparing" /\ preparation[a].id # t
    /\ MayBegin(a)
    /\ record' = [record EXCEPT ![a][t] = "preparing"]
    /\ preparation' = [preparation EXCEPT ![a] = [id |-> t, phase |-> "travelling"]]
    /\ UNCHANGED <<worker, game, saves, barrier, hold, source>>

\* First request, or one whose preparation another exchange replaced.
PrepareBegins(a, t) ==
    /\ Running(a)
    /\ \/ record[a][t] = "none" /\ Unfinished(a) = {}
       \/ record[a][t] = "preparing" /\ preparation[a].id # t
    /\ MayBegin(a)
    /\ record' = [record EXCEPT ![a][t] = "preparing"]
    /\ preparation' = [preparation EXCEPT ![a] = [id |-> t, phase |-> "travelling"]]
    /\ UNCHANGED <<worker, game, saves, barrier, hold, source>>

\* The preparation already has this exchange's name and is not ready.
PrepareWaits(a, t) ==
    /\ Running(a) /\ record[a][t] = "preparing"
    /\ preparation[a].id = t
    /\ preparation[a].phase \in {"travelling", "stranded", "cancelled"}
    /\ UNCHANGED participantVars

\* Variant: the record takes the phase of the preparation it copies.
PrepareCopiesPhase(a, t) ==
    /\ Running(a)
    /\ record[a][t] = "preparing" /\ preparation[a] = [id |-> t, phase |-> "ready"]
    /\ HeldFor(a, t) /\ hold[a].source # Nothing
    /\ record' = [record EXCEPT ![a][t] = preparation[a].phase]
    /\ source' = [source EXCEPT ![a][t] = hold[a].source]
    /\ UNCHANGED <<worker, game, saves, barrier, hold, preparation>>

PrepareSucceeds(a, t) ==
    /\ Running(a)
    /\ \/ record[a][t] = "prepared" /\ UNCHANGED <<record, source>>
       \/ /\ record[a][t] = "preparing"
          /\ preparation[a] = [id |-> t, phase |-> "ready"]
          /\ HeldFor(a, t) /\ hold[a].source # Nothing
          /\ record' = [record EXCEPT ![a][t] = "prepared"]
          /\ source' = [source EXCEPT ![a][t] = hold[a].source]
    /\ UNCHANGED <<worker, game, saves, barrier, hold, preparation>>

\* Every refusal.  The record of a first request is saved before begin() may
\* refuse it; eligibility, a full verification and an unsafe moment are choices
\* of the game, so an undecided request may always be refused.
PrepareRefused(a, t) ==
    /\ Running(a)
    /\ \/ record[a][t] # "prepared" /\ UNCHANGED record
       \/ /\ record[a][t] = "none" /\ Unfinished(a) = {}
          /\ record' = [record EXCEPT ![a][t] = "preparing"]
    /\ UNCHANGED <<worker, game, saves, barrier, hold, preparation, source>>

------------------------------------------------------------------------------
(* stage: verify the cable result and keep it beside the held save. *)

StageSucceeds(a, t) ==
    /\ Running(a)
    /\ \/ record[a][t] = "staged" /\ UNCHANGED record
       \/ /\ record[a][t] = "prepared" /\ HeldFor(a, t)
          /\ record' = [record EXCEPT ![a][t] = "staged"]
    /\ UNCHANGED <<worker, game, saves, barrier, hold, preparation, source>>

\* A decided record is returned as it is, which the coordinator does not accept.
StageRefused(a, t) ==
    /\ Running(a) /\ record[a][t] # "staged"
    /\ UNCHANGED participantVars

------------------------------------------------------------------------------
(* apply: commit receipt, publication, load, receipt of the load. *)

Committable(a, t) == record[a][t] \in {"staged", "committed", "applied"}

\* The committed checkpoint, written once and never over a live one.
Published(a, t) ==
    IF saves[a][t] = Nothing THEN Exchanged(a, t) ELSE saves[a][t]

Promote(a, t) ==
    /\ saves' = [saves EXCEPT ![a][t] = Published(a, t)]
    /\ barrier' = [barrier EXCEPT ![a] = t]
    /\ hold' = [hold EXCEPT ![a] = [id |-> t, source |-> source[a][t]]]

\* Variant: the committed checkpoint is published and never loaded.
ApplyWithoutLoad(a, t) ==
    /\ Running(a) /\ Committable(a, t)
    /\ Promote(a, t)
    /\ record' = [record EXCEPT ![a][t] = "applied"]
    /\ UNCHANGED <<worker, game, preparation, source>>

ApplySucceeds(a, t) ==
    /\ Running(a)
    /\ \/ record[a][t] = "released" /\ UNCHANGED <<game, saves, barrier, hold, record>>
       \/ /\ Committable(a, t)
          /\ Promote(a, t)
          /\ game' = [game EXCEPT ![a] = Published(a, t)]
          /\ record' = [record EXCEPT ![a][t] = "applied"]
    /\ UNCHANGED <<worker, preparation, source>>

ApplyRefused(a, t) ==
    /\ Running(a) /\ ~Committable(a, t) /\ record[a][t] # "released"
    /\ UNCHANGED participantVars

\* Variant: the barrier is moved before its checkpoint is on disk.
ApplyFencesFirst(a, t) ==
    /\ Running(a) /\ Committable(a, t)
    /\ record' = [record EXCEPT ![a][t] = "committed"]
    /\ barrier' = [barrier EXCEPT ![a] = t]
    /\ UNCHANGED <<worker, game, saves, hold, preparation, source>>

\* Stopped after the receipt, after the checkpoint file, or after the barrier.
ApplyInterrupted(a, t) ==
    /\ Running(a) /\ Committable(a, t)
    /\ record' = [record EXCEPT ![a][t] = "committed"]
    /\ \/ UNCHANGED <<saves, barrier, hold>>
       \/ /\ saves' = [saves EXCEPT ![a][t] = Published(a, t)]
          /\ UNCHANGED <<barrier, hold>>
       \/ Promote(a, t)
    /\ UNCHANGED <<worker, game, preparation, source>>

------------------------------------------------------------------------------
(* release: one database transaction hands the game back to play. *)

ReleaseSucceeds(a, t) ==
    /\ Running(a)
    /\ \/ record[a][t] = "released" /\ UNCHANGED <<hold, preparation, record>>
       \/ /\ record[a][t] = "applied"
          /\ record' = [record EXCEPT ![a][t] = "released"]
          /\ hold' = [hold EXCEPT ![a] = NoHold]
          /\ preparation' = [preparation EXCEPT ![a] = NoPreparation]
    /\ UNCHANGED <<worker, game, saves, barrier, source>>

ReleaseRefused(a, t) ==
    /\ Running(a) /\ record[a][t] \notin {"applied", "released"}
    /\ UNCHANGED participantVars

------------------------------------------------------------------------------
(* abort: a tombstone, or back to the source checkpoint and free again. *)

\* Variant: a commit receipt does not protect the record.
AbortableAfterCommit(a, t) ==
    record[a][t] \in {"preparing", "prepared", "staged", "committed", "aborting"}

Abortable(a, t) == record[a][t] \in {"preparing", "prepared", "staged", "aborting"}

\* Variant: the abort reloads even when play went on without a hold.
ReloadsAnyway(a, t) == source[a][t] # Nothing

\* A record that named a source goes back to it while the hold is its own.
\* The restore itself refuses a checkpoint from before the barrier.
Reloads(a, t) == source[a][t] # Nothing /\ HeldFor(a, t)
ReloadAdmitted(a, t) == Reloads(a, t) => source[a][t].tag = barrier[a]
Restored(a, t) == IF Reloads(a, t) THEN source[a][t].state ELSE game[a]

ClearedHold(a, t) == IF HeldFor(a, t) THEN NoHold ELSE hold[a]
ClearedPreparation(a, t) ==
    IF preparation[a].id = t THEN NoPreparation ELSE preparation[a]

\* Variant: the hold is not given back.
AbortKeepsHold(a, t) ==
    /\ Running(a) /\ Abortable(a, t) /\ ReloadAdmitted(a, t)
    /\ game' = [game EXCEPT ![a] = Restored(a, t)]
    /\ preparation' = [preparation EXCEPT ![a] = ClearedPreparation(a, t)]
    /\ record' = [record EXCEPT ![a][t] = "aborted"]
    /\ UNCHANGED <<worker, saves, barrier, hold, source>>

\* Variant: an unknown exchange is acknowledged without a tombstone.
AbortWithoutTombstone(a, t) ==
    /\ Running(a)
    /\ \/ /\ record[a][t] \in {"none", "aborted"}
          /\ UNCHANGED <<game, hold, preparation, record>>
       \/ /\ Abortable(a, t) /\ ReloadAdmitted(a, t)
          /\ game' = [game EXCEPT ![a] = Restored(a, t)]
          /\ hold' = [hold EXCEPT ![a] = ClearedHold(a, t)]
          /\ preparation' = [preparation EXCEPT ![a] = ClearedPreparation(a, t)]
          /\ record' = [record EXCEPT ![a][t] = "aborted"]
    /\ UNCHANGED <<worker, saves, barrier, source>>

AbortSucceeds(a, t) ==
    /\ Running(a)
    /\ \/ /\ record[a][t] \in {"none", "aborted"}
          /\ record' = [record EXCEPT ![a][t] = "aborted"]
          /\ UNCHANGED <<game, hold, preparation>>
       \/ /\ Abortable(a, t) /\ ReloadAdmitted(a, t)
          /\ game' = [game EXCEPT ![a] = Restored(a, t)]
          /\ hold' = [hold EXCEPT ![a] = ClearedHold(a, t)]
          /\ preparation' = [preparation EXCEPT ![a] = ClearedPreparation(a, t)]
          /\ record' = [record EXCEPT ![a][t] = "aborted"]
    /\ UNCHANGED <<worker, saves, barrier, source>>

AbortRefused(a, t) ==
    /\ Running(a) /\ record[a][t] \in CommitPhases
    /\ UNCHANGED participantVars

\* Variant: the hold is cleared before the abort is on record.
AbortClearsFirst(a, t) ==
    /\ Running(a) /\ Abortable(a, t) /\ ReloadAdmitted(a, t)
    /\ game' = [game EXCEPT ![a] = Restored(a, t)]
    /\ hold' = [hold EXCEPT ![a] = ClearedHold(a, t)]
    /\ UNCHANGED <<worker, saves, barrier, preparation, record, source>>

\* Stopped after the receipt, after the hold, or after the preparation.
AbortInterrupted(a, t) ==
    /\ Running(a) /\ Abortable(a, t)
    /\ record' = [record EXCEPT ![a][t] = "aborting"]
    /\ \/ UNCHANGED <<game, hold, preparation>>
       \/ /\ ReloadAdmitted(a, t)
          /\ game' = [game EXCEPT ![a] = Restored(a, t)]
          /\ hold' = [hold EXCEPT ![a] = ClearedHold(a, t)]
          /\ \/ UNCHANGED preparation
             \/ preparation' = [preparation EXCEPT ![a] = ClearedPreparation(a, t)]
    /\ UNCHANGED <<worker, saves, barrier, source>>

------------------------------------------------------------------------------
(* The worker process. *)

WorkerCrashes(a) ==
    /\ Running(a)
    /\ worker' = [worker EXCEPT ![a] = "down"]
    /\ game' = [game EXCEPT ![a] = Nothing]
    /\ UNCHANGED durable

\* Variant: it saves whatever game is loaded.
WorkerStopsSaving(a) ==
    /\ Running(a)
    /\ worker' = [worker EXCEPT ![a] = "down"]
    /\ game' = [game EXCEPT ![a] = Nothing]
    /\ saves' = [saves EXCEPT ![a][barrier[a]] = game[a]]
    /\ UNCHANGED <<barrier, hold, preparation, record, source>>

\* An orderly stop saves once more, unless a hold protects the last save.
WorkerStops(a) ==
    /\ Running(a)
    /\ worker' = [worker EXCEPT ![a] = "down"]
    /\ game' = [game EXCEPT ![a] = Nothing]
    /\ saves' = IF hold[a] = NoHold
                  THEN [saves EXCEPT ![a][barrier[a]] = game[a]]
                  ELSE saves
    /\ UNCHANGED <<barrier, hold, preparation, record, source>>

\* The application died: the worker sees the end of its input and has up to
\* 45 seconds of life left, with the adventure's lock in its hand.
ParentLost(a) ==
    /\ worker[a] = "up"
    /\ worker' = [worker EXCEPT ![a] = "orphan"]
    /\ UNCHANGED <<game, durable>>

\* recover_storage over the records, one case per kind of unfinished record.
\* A travelling preparation loses the object that drives it.
Stranded(a, p) == IF p.phase = "travelling" THEN [id |-> p.id, phase |-> "stranded"] ELSE p

RecoverNothing(a) ==
    /\ Unfinished(a) = {}
    /\ preparation' = [preparation EXCEPT ![a] = Stranded(a, @)]
    /\ UNCHANGED <<saves, barrier, hold, record>>

RecoverCommit(a, t) ==
    /\ record[a][t] \in {"committed", "applied"}
    /\ Promote(a, t)
    /\ preparation' = [preparation EXCEPT ![a] = Stranded(a, @)]
    /\ UNCHANGED record

RecoverAbort(a, t) ==
    /\ record[a][t] = "aborting"
    /\ hold' = [hold EXCEPT ![a] = ClearedHold(a, t)]
    /\ preparation' = [preparation EXCEPT ![a] = Stranded(a, ClearedPreparation(a, t))]
    /\ record' = [record EXCEPT ![a][t] = "aborted"]
    /\ UNCHANGED <<saves, barrier>>

RecoverUndecided(a, t) ==
    /\ record[a][t] \in {"preparing", "prepared", "staged"}
    /\ hold' = IF hold[a] = NoHold
                 THEN [hold EXCEPT ![a] = [id |-> t, source |-> source[a][t]]]
                 ELSE hold
    /\ preparation' = [preparation EXCEPT ![a] = Stranded(a, @)]
    /\ UNCHANGED <<saves, barrier, record>>

\* Where there are saves, one of them has to pass the barrier.
Restorable(a) ==
    saves[a][barrier[a]] = Nothing => \A u \in 0 .. N : saves[a][u] = Nothing

\* Storage is reconciled first; then the emulator restores the newest save the
\* barrier admits, or powers on when there is no save at all.
WorkerStarts(a) ==
    /\ worker[a] = "down"
    /\ worker' = [worker EXCEPT ![a] = "up"]
    /\ \/ RecoverNothing(a)
       \/ \E t \in Exchange :
             RecoverCommit(a, t) \/ RecoverAbort(a, t) \/ RecoverUndecided(a, t)
    /\ Restorable(a)'
    /\ game' = [game EXCEPT ![a] = RestartPoint(a)']
    /\ UNCHANGED source

------------------------------------------------------------------------------

Gameplay(a) == 
    \/ Play(a)
    \/ Autosave(a)
    \/ PreparationReady(a)
    \/ PreparationInterrupted(a)
    \/ PreparationEnds(a)

Requests(a, t) ==
    \/ PrepareBegins(a, t) \/ PrepareWaits(a, t)
    \/ PrepareSucceeds(a, t) \/ PrepareRefused(a, t)
    \/ StageSucceeds(a, t) \/ StageRefused(a, t)
    \/ ApplySucceeds(a, t) \/ ApplyRefused(a, t) \/ ApplyInterrupted(a, t)
    \/ ReleaseSucceeds(a, t) \/ ReleaseRefused(a, t)
    \/ AbortSucceeds(a, t) \/ AbortRefused(a, t) \/ AbortInterrupted(a, t)

WorkerLife(a) ==
    \/ WorkerCrashes(a)
    \/ WorkerStops(a)
    \/ ParentLost(a)
    \/ WorkerStarts(a)

ParticipantNext ==
    \E a \in Adventure :
        \/ Gameplay(a)
        \/ \E t \in Exchange : Requests(a, t)
        \/ WorkerLife(a)

ParticipantSpec == ParticipantInit /\ [][ParticipantNext]_participantVars

------------------------------------------------------------------------------
(* What the adventure promises, whatever the caller does. *)

\* An adventure reserves itself for one exchange at a time: prepare refuses
\* while another record is unfinished, and no handler, failed handler or
\* restart makes a second one.
OneReservation ==
    \A a \in Adventure, t, u \in Exchange :
        t \in Unfinished(a) /\ u \in Unfinished(a) => t = u

\* From the moment a save is named as the exchange's source until its release
\* or its abort, the hold is the exchange's own: neither a failed handler nor a
\* restart lets play resume on a save whose fate the coordinator still decides.
HoldCoversExchange ==
    \A a \in Adventure, t \in Exchange :
        record[a][t] \in {"prepared", "staged", "committed", "applied"} => HeldFor(a, t)

\* A hold belongs to an exchange that can still end it: its record is neither
\* finished nor missing, so a release or an abort of it clears the hold.
HoldHasOwner ==
    \A a \in Adventure :
        hold[a].id # NoExchange => hold[a].id \in Unfinished(a)

\* The exchanges whose Pokemon this adventure owns.
Received(a) == {t \in Exchange :
                   \/ record[a][t] = "released"
                   \/ record[a][t] \in {"committed", "applied"} /\ barrier[a] = t}

\* A restart always resumes from exactly what the records say was exchanged: the
\* barrier has a checkpoint to admit, no older save is restored over a committed
\* one and none holds the result of an aborted exchange.
RestartMatchesRecords ==
    \A a \in Adventure : RestartPoint(a).got = Received(a)

\* A game that plays holds what the records say was exchanged, also after the
\* interrupted handlers that leave an older game loaded behind a hold.
PlayMatchesRecords ==
    \A a \in Adventure :
        Running(a) /\ hold[a] = NoHold => game[a].got = Received(a)

\* The save a hold names is what the adventure goes back to on an abort, what
\* a restart resumes from until the decision, and what the exchange builds on.
SourceIsRestartPoint ==
    \A a \in Adventure, t \in Exchange :
        record[a][t] \in {"prepared", "staged"} =>
            /\ source[a][t] = [tag |-> barrier[a], state |-> RestartPoint(a)]
            /\ Running(a) => game[a] = source[a][t].state

\* Saved play is never lost: no handler, restart, promotion or abort moves the
\* restart point of an adventure back to an earlier moment of its play.
SavedPlayIsKept ==
    [][\A a \in Adventure : RestartPoint(a)'.progress >= RestartPoint(a).progress]_participantVars

\* A committed exchange is never undone and an aborted one never comes back, in
\* whatever order requests for it arrive.
RecordDecisionIsFinal ==
    [][\A a \in Adventure, t \in Exchange :
          /\ record[a][t] \in CommitPhases => record'[a][t] \in CommitPhases
          /\ record[a][t] \in AbortPhases => record'[a][t] \in AbortPhases
          /\ record[a][t] \in Final => record'[a][t] = record[a][t]]_participantVars

------------------------------------------------------------------------------
(* Why these hold: the inductive invariant, one adventure at a time. *)

\* Reservation: one unfinished record, and hold and preparation are its own.
Reservation(a) ==
    /\ \A t, u \in Unfinished(a) : t = u
    /\ hold[a].id # NoExchange => hold[a].id \in Unfinished(a)
    /\ hold[a].id = NoExchange => hold[a] = NoHold
    /\ preparation[a].phase # "idle" => preparation[a].id \in Unfinished(a)
    /\ preparation[a].phase = "idle" => preparation[a].id = NoExchange

Covered(a) ==
    \A t \in Exchange :
        record[a][t] \in {"prepared", "staged", "committed", "applied"} => HeldFor(a, t)

\* Only a commit moves the barrier or writes under a new trade_id, and the
\* checkpoint is on disk before the barrier names it.
BarrierHasSave(a) ==
    /\ barrier[a] # NoExchange =>
          saves[a][barrier[a]] # Nothing /\ record[a][barrier[a]] \in CommitPhases
    /\ \A t \in Exchange : saves[a][t] # Nothing => record[a][t] \in CommitPhases
    /\ \A t \in Exchange : record[a][t] = "applied" => barrier[a] = t

\* Before the barrier moves, whatever is to be exchanged or to be gone back to
\* is the newest save, and a checkpoint published early is that exchange's.
Uncommitted(a, t) ==
    \/ record[a][t] \in {"prepared", "staged"}
    \/ record[a][t] = "aborting" /\ Reloads(a, t)
    \/ record[a][t] = "committed" /\ barrier[a] # t
IsRestartPoint(a, save) ==
    /\ save = [tag |-> barrier[a], state |-> saves[a][barrier[a]]]
    /\ saves[a][barrier[a]] # Nothing
SourcesAreNewest(a) ==
    /\ \A t \in Exchange :
          /\ record[a][t] \in {"none", "preparing"} => source[a][t] = Nothing
          /\ Uncommitted(a, t) => IsRestartPoint(a, source[a][t])
          /\ record[a][t] \in {"committed", "applied"} => source[a][t] # Nothing
          /\ record[a][t] = "committed" /\ barrier[a] # t =>
                saves[a][t] \in {Nothing, Exchanged(a, t)}
          /\ Running(a) /\ record[a][t] \in {"prepared", "staged"} =>
                game[a] = source[a][t].state
          /\ /\ record[a][t] = "preparing" /\ HeldFor(a, t)
             /\ hold[a].source # Nothing
             => /\ IsRestartPoint(a, hold[a].source)
                /\ Running(a) => game[a] = hold[a].source.state
    /\ preparation[a].phase = "travelling" => source[a][preparation[a].id] = Nothing

\* What restarts and games hold is what the records say; only a game behind an
\* unfinished commit may be an older one, and it never runs.
Lineage(a) ==
    /\ RestartPoint(a).got = Received(a)
    /\ Running(a) /\ (\A t \in Exchange : record[a][t] # "committed") =>
          game[a].got = Received(a) /\ game[a].progress >= RestartPoint(a).progress

AdventureInv(a) ==
    /\ Reservation(a)
    /\ Covered(a)
    /\ BarrierHasSave(a)
    /\ SourcesAreNewest(a)
    /\ Lineage(a)

ParticipantInv == ParticipantTypeOK /\ \A a \in Adventure : AdventureInv(a)
==============================================================================
