------------------------------ MODULE LegacyPair ------------------------------
(***************************************************************************)
(* The standalone pair coordinator (trade/service.py) and the two games it *)
(* links.  A transaction prepares both games, which hold themselves, stages *)
(* the exchange on copies of their saves, publishes the outputs, decides   *)
(* with one durable write, and then journals, loads and releases; before   *)
(* the decision it discards the outputs and aborts instead.                *)
(*                                                                         *)
(* The coordinator is one process, and each game handles its queue on one  *)
(* thread.  A step of the coordinator is one durable write or one half of  *)
(* a request, so that a crash can come between any two.                    *)
(***************************************************************************)
EXTENDS Integers, Sequences, SequencesExt

CONSTANTS
    N,          \* bound: transactions
    MaxFaults,  \* bound: crashes, timeouts and failed steps
    Keep        \* KEEP_AUTOSAVES

ASSUME BoundsAssumption == N \in Nat /\ MaxFaults \in Nat /\ Keep \in Nat \ {0}

VARIABLES
    coord,      \* what the coordinator does, for which peer, and the answer it has
    active,     \* active.json
    result,     \* result.json of the active transaction, with the inventories of after/
    completed,  \* the transactions of status.json
    up,         \* the game's process runs
    inv,        \* the transactions whose Pokemon the running game has
    hold,       \* trade_hold
    saves,      \* the auto-* files, oldest first
    barrier,    \* trade_barrier
    marks,      \* completed_trades and completed_events
    receipts,   \* what the journal says this run received
    queue,      \* trade commands the game's thread has yet to handle
    count       \* bounds: transactions begun, faults

coordVars == <<coord, active, result, completed>>
gameVars == <<up, inv, hold, saves, barrier, marks, receipts>>
vars == <<coordVars, gameVars, queue, count>>

Games == {"red", "blue"}
Peers == <<"red", "blue">>
Txn == 1 .. N
NoTxn == 0

\* A save without its manifest is not whole.  Its name is that of an exchange or
\* a time stamp (NoTxn); its tag the barrier of the moment.
Saves == [name : 0 .. N, whole : BOOLEAN, tag : 0 .. N, inv : SUBSET Txn]
NoSave == [name |-> NoTxn, whole |-> FALSE, tag |-> NoTxn, inv |-> {}]

Holds == [id : 0 .. N, phase : {"none", "preparing", "prepared", "loaded"}, source : Saves]
NoHold == [id |-> NoTxn, phase |-> "none", source |-> NoSave]

Calls == {"prepare", "load", "release", "abort"}
Places == Calls \cup {"idle", "name", "stage", "target", "publish", "decide", "journal",
                      "discard", "status", "remove"}
Commands == [action : Calls, id : Txn, live : BOOLEAN]

NoActive == [id |-> NoTxn, phase |-> "none", prepared |-> 0, targets |-> FALSE]
NoResult == [gets |-> {}, inv |-> [g \in Games |-> {}]]

LegacyTypeOK ==
    /\ coord \in [at : Places, ix : 1 .. 4, reply : {"none", "waiting", "ok", "wait", "refused"}]
    /\ active \in [id : 0 .. N, phase : {"none", "preparing", "committed"},
                   prepared : 0 .. 2, targets : BOOLEAN]
    /\ result \in [gets : SUBSET Games, inv : [Games -> SUBSET Txn]]
    /\ completed \subseteq Txn
    /\ up \in [Games -> BOOLEAN] /\ inv \in [Games -> SUBSET Txn] /\ hold \in [Games -> Holds]
    /\ saves \in [Games -> Seq(Saves)] /\ barrier \in [Games -> 0 .. N]
    /\ marks \in [Games -> SUBSET Txn] /\ receipts \in [Games -> SUBSET Txn]
    /\ queue \in [Games -> Seq(Commands)]
    /\ count \in [txn : 0 .. N, faults : 0 .. MaxFaults]

\* Two adventures that never traded, each with a save.
LegacyInit ==
    /\ coord = [at |-> "idle", ix |-> 1, reply |-> "none"]
    /\ active = NoActive /\ result = NoResult /\ completed = {}
    /\ up = [g \in Games |-> TRUE] /\ inv = [g \in Games |-> {}] /\ hold = [g \in Games |-> NoHold]
    /\ saves = [g \in Games |-> <<[name |-> NoTxn, whole |-> TRUE, tag |-> NoTxn, inv |-> {}]>>]
    /\ barrier = [g \in Games |-> NoTxn]
    /\ marks = [g \in Games |-> {}] /\ receipts = [g \in Games |-> {}]
    /\ queue = [g \in Games |-> <<>>]
    /\ count = [txn |-> 0, faults |-> 0]

Fault == count.faults < MaxFaults /\ count' = [count EXCEPT !.faults = @ + 1]

------------------------------------------------------------------------------
(* The coordinator. *)

Peer == Peers[coord.ix]
Goes(place, ix) == coord' = [at |-> place, ix |-> ix, reply |-> "none"]

\* Any exception ends the cycle; the next one begins with what active.json says.
Recovers == Goes("idle", 1)

\* Where finish begins.
Finish(record) ==
    IF record.phase = "committed" THEN "journal"
    ELSE IF record.targets THEN "discard"
    ELSE IF record.prepared = 0 THEN "status" ELSE "abort"

Begins ==
    /\ coord.at = "idle" /\ active = NoActive /\ count.txn < N
    /\ \A g \in Games : up[g] /\ hold[g] = NoHold
    /\ active' = [NoActive EXCEPT !.id = count.txn + 1, !.phase = "preparing"]
    /\ count' = [count EXCEPT !.txn = @ + 1]
    /\ Goes("name", 1)
    /\ UNCHANGED <<result, completed, gameVars, queue>>

Resumes ==
    /\ coord.at = "idle" /\ active # NoActive
    /\ Goes(Finish(active), 1)
    /\ UNCHANGED <<active, result, completed, gameVars, queue, count>>

\* Variant: a peer is noted when it has answered.
NamesLater ==
    /\ coord.at = "name" /\ Goes("prepare", coord.ix)
    /\ UNCHANGED <<active, result, completed, gameVars, queue, count>>

\* A peer is noted before it is asked: whatever becomes of the request, it is aborted.
Names ==
    /\ coord.at = "name" /\ Goes("prepare", coord.ix)
    /\ active' = [active EXCEPT !.prepared = coord.ix]
    /\ UNCHANGED <<result, completed, gameVars, queue, count>>

Asks ==
    /\ coord.at \in Calls /\ coord.reply = "none" /\ up[Peer]
    /\ queue' = [queue EXCEPT ![Peer] =
                    Append(@, [action |-> coord.at, id |-> active.id, live |-> TRUE])]
    /\ coord' = [coord EXCEPT !.reply = "waiting"]
    /\ UNCHANGED <<active, result, completed, gameVars, count>>

\* A peer that is down refuses the connection, one in another transaction the command.
RequestFails ==
    /\ coord.at \in Calls
    /\ \/ coord.reply = "refused"
       \/ coord.reply = "none" /\ ~up[Peer]
    /\ Recovers
    /\ UNCHANGED <<active, result, completed, gameVars, queue, count>>

LastPeer == IF coord.at = "abort" THEN active.prepared ELSE 2
NextCall == [prepare |-> "stage", load |-> "release", release |-> "status", abort |-> "status"]

Answered ==
    /\ coord.reply = "ok"
    /\ IF coord.ix = LastPeer THEN Goes(NextCall[coord.at], 1)
       ELSE Goes(IF coord.at = "prepare" THEN "name" ELSE coord.at, coord.ix + 1)
    /\ UNCHANGED <<active, result, completed, gameVars, queue, count>>

\* The game is in a battle or a menu: ask again, until the deadline of both peers.
AsksAgain ==
    /\ coord.reply = "wait" /\ Goes("prepare", coord.ix)
    /\ UNCHANGED <<active, result, completed, gameVars, queue, count>>

GivesUp ==
    /\ coord.reply = "wait" /\ Recovers
    /\ UNCHANGED <<active, result, completed, gameVars, queue, count>>

\* A trade gives both games something, a gift some of them; both get an output.
Recipients == SUBSET Games \ {{}}
Outcome(gets) ==
    [gets |-> gets,
     inv |-> [g \in Games |-> Last(saves[g]).inv \cup (IF g \in gets THEN {active.id} ELSE {})]]

\* Or there is nothing to exchange.
Stages ==
    /\ coord.at = "stage"
    /\ \A g \in Games : /\ hold[g].id = active.id /\ hold[g].phase = "prepared"
                        /\ saves[g] # <<>> /\ Last(saves[g]).whole
    /\ \/ (\E gets \in Recipients : result' = Outcome(gets)) /\ Goes("target", 1)
       \/ UNCHANGED result /\ Goes(Finish(active), 1)
    /\ UNCHANGED <<active, completed, gameVars, queue, count>>

Targets ==
    /\ coord.at = "target" /\ Goes("publish", 1)
    /\ active' = [active EXCEPT !.targets = TRUE]
    /\ UNCHANGED <<result, completed, gameVars, queue, count>>

\* Four files: each game's state and then its manifest.
Publishes ==
    /\ coord.at = "publish"
    /\ LET g == Peers[(coord.ix + 1) \div 2]
           Output(whole) == [name |-> active.id, whole |-> whole, tag |-> active.id,
                             inv |-> result.inv[g]]
       IN  saves' = [saves EXCEPT ![g] = IF coord.ix % 2 = 1 THEN Append(@, Output(FALSE))
                                         ELSE Append(Front(@), Output(TRUE))]
    /\ IF coord.ix = 4 THEN Goes("decide", 1) ELSE Goes("publish", coord.ix + 1)
    /\ UNCHANGED <<active, result, completed, up, inv, hold, barrier, marks, receipts, queue, count>>

\* Variant: the decision is kept in memory.
DecidesInMemory ==
    /\ coord.at = "decide" /\ Goes("journal", 1)
    /\ UNCHANGED <<active, result, completed, gameVars, queue, count>>

\* The irreversible step.
Decides ==
    /\ coord.at = "decide" /\ Goes("journal", 1)
    /\ active' = [active EXCEPT !.phase = "committed"]
    /\ UNCHANGED <<result, completed, gameVars, queue, count>>

Notes(g) == receipts' = IF g \in result.gets
                           THEN [receipts EXCEPT ![g] = @ \cup {active.id}] ELSE receipts

\* One transaction in the game's database, once per exchange.
Journals ==
    /\ coord.at = "journal"
    /\ IF active.id \in marks[Peer] THEN UNCHANGED <<marks, barrier, receipts>>
       ELSE /\ marks' = [marks EXCEPT ![Peer] = @ \cup {active.id}]
            /\ barrier' = [barrier EXCEPT ![Peer] = active.id]
            /\ Notes(Peer)
    /\ IF coord.ix = 2 THEN Goes("load", 1) ELSE Goes("journal", 2)
    /\ UNCHANGED <<active, result, completed, up, inv, hold, saves, queue, count>>

\* The output of a held game is its newest file, and the only one of that name.
Discarded(files) ==
    IF files # <<>> /\ Last(files).name = active.id THEN Front(files) ELSE files

Discards ==
    /\ coord.at = "discard"
    /\ saves' = [saves EXCEPT ![Peer] = Discarded(@)]
    /\ IF coord.ix = 2 THEN Goes("abort", 1) ELSE Goes("discard", 2)
    /\ UNCHANGED <<active, result, completed, up, inv, hold, barrier, marks, receipts, queue, count>>

WritesStatus ==
    /\ coord.at = "status" /\ Goes("remove", 1)
    /\ completed' = IF active.phase = "committed" THEN completed \cup {active.id} ELSE completed
    /\ UNCHANGED <<active, result, gameVars, queue, count>>

Removes ==
    /\ coord.at = "remove" /\ Goes("idle", 1)
    /\ active' = NoActive /\ result' = NoResult
    /\ UNCHANGED <<completed, gameVars, queue, count>>

\* The coordinator dies, a write or a verification fails, or a request times out;
\* the game may still handle that request.
Abandoned(cs) == [i \in DOMAIN cs |-> [cs[i] EXCEPT !.live = FALSE]]

Fails ==
    /\ coord.at # "idle" /\ Fault /\ Recovers
    /\ queue' = [g \in Games |-> Abandoned(queue[g])]
    /\ UNCHANGED <<active, result, completed, gameVars>>

------------------------------------------------------------------------------
(* A game. *)

\* Variant: any save that is whole.
AdmissibleIfWhole(g, s) == s.whole

Admissible(g, s) == s.whole /\ (barrier[g] # NoTxn => s.tag = barrier[g])

Kept(files) == IF Len(files) <= Keep THEN files ELSE SubSeq(files, Len(files) - Keep + 1, Len(files))

\* Variant: saves do not name the barrier.
NewSaveUntagged(g, whole) == [name |-> NoTxn, whole |-> whole, tag |-> NoTxn, inv |-> inv[g]]

NewSave(g, whole) == [name |-> NoTxn, whole |-> whole, tag |-> barrier[g], inv |-> inv[g]]
Saved(g) == Kept(Append(saves[g], NewSave(g, TRUE)))

Playing(g) == up[g] /\ hold[g] = NoHold

Autosave(g) ==
    /\ Playing(g)
    /\ saves' = [saves EXCEPT ![g] = Saved(g)]
    /\ UNCHANGED <<coordVars, up, inv, hold, barrier, marks, receipts, queue, count>>

\* A stuck game goes back to a save, or is power-cycled when there is none.
Rewind(g) ==
    /\ Playing(g)
    /\ \/ \E i \in DOMAIN saves[g] :
             Admissible(g, saves[g][i]) /\ inv' = [inv EXCEPT ![g] = saves[g][i].inv]
       \/ saves[g] = <<>> /\ inv' = [inv EXCEPT ![g] = {}]
    /\ UNCHANGED <<coordVars, up, hold, saves, barrier, marks, receipts, queue, count>>

\* The owner restarts the run; the marks of old exchanges stay.
NewRun(g) ==
    /\ Playing(g)
    /\ inv' = [inv EXCEPT ![g] = {}] /\ saves' = [saves EXCEPT ![g] = <<>>]
    /\ barrier' = [barrier EXCEPT ![g] = NoTxn] /\ receipts' = [receipts EXCEPT ![g] = {}]
    /\ UNCHANGED <<coordVars, up, hold, marks, queue, count>>

\* The thread takes its next trade command; one for another exchange is refused.
Command(g) == Head(queue[g])
Takes(g, action) ==
    /\ up[g] /\ queue[g] # <<>>
    /\ Command(g).action = action /\ hold[g].id \in {NoTxn, Command(g).id}
Answers(g, reply) ==
    /\ queue' = [queue EXCEPT ![g] = Tail(@)]
    /\ coord' = IF Command(g).live THEN [coord EXCEPT !.reply = reply] ELSE coord
    /\ UNCHANGED <<active, result, completed>>

\* At a safe point the game holds itself and saves; a hold with a source stays.
Prepares(g) ==
    /\ Takes(g, "prepare") /\ Answers(g, "ok")
    /\ IF hold[g].source # NoSave THEN UNCHANGED <<saves, hold>>
       ELSE /\ saves' = [saves EXCEPT ![g] = Saved(g)]
            /\ hold' = [hold EXCEPT ![g] = [id |-> Command(g).id, phase |-> "prepared",
                                            source |-> Last(Saved(g))]]
    /\ UNCHANGED <<up, inv, barrier, marks, receipts, count>>

PrepareWaits(g) ==
    /\ Takes(g, "prepare") /\ hold[g] = NoHold /\ Answers(g, "wait")
    /\ UNCHANGED <<gameVars, count>>

\* Variant: only an abort finds nothing left to do.
ReleasedBeforeAbort(g) ==
    /\ Takes(g, "abort") /\ hold[g] = NoHold
    /\ Answers(g, "ok")
    /\ UNCHANGED <<gameVars, count>>

\* Repeated after the release: nothing is loaded a second time.
ReleasedBefore(g) ==
    /\ hold[g] = NoHold
    /\ \/ Takes(g, "abort")
       \/ (Takes(g, "load") \/ Takes(g, "release")) /\ barrier[g] = Command(g).id
    /\ Answers(g, "ok")
    /\ UNCHANGED <<gameVars, count>>

Committed(g) == barrier[g] = Command(g).id
Outputs(g) == {i \in DOMAIN saves[g] : saves[g][i].name = Command(g).id /\ Admissible(g, saves[g][i])}

LoadsOutput(g) ==
    /\ Takes(g, "load") /\ hold[g] # NoHold
    /\ \/ hold[g].phase = "loaded" /\ UNCHANGED <<inv, hold>>
       \/ /\ hold[g].phase # "loaded" /\ Committed(g)
          /\ \E i \in Outputs(g) : inv' = [inv EXCEPT ![g] = saves[g][i].inv]
          /\ hold' = [hold EXCEPT ![g].phase = "loaded"]
    /\ Answers(g, "ok")
    /\ UNCHANGED <<up, saves, barrier, marks, receipts, count>>

Releases(g) ==
    /\ Takes(g, "release") /\ hold[g].phase = "loaded"
    /\ hold' = [hold EXCEPT ![g] = NoHold]
    /\ Answers(g, "ok")
    /\ UNCHANGED <<up, inv, saves, barrier, marks, receipts, count>>

\* The save a hold was taken on; without one, the newest file.
SourceOf(g) == IF hold[g].source # NoSave THEN hold[g].source
               ELSE IF saves[g] # <<>> THEN Last(saves[g]) ELSE NoSave
CanAbort(g) == ~Committed(g) /\ (saves[g] = <<>> \/ Admissible(g, SourceOf(g)))

Aborts(g) ==
    /\ Takes(g, "abort") /\ hold[g] # NoHold /\ CanAbort(g)
    /\ inv' = IF saves[g] = <<>> THEN inv ELSE [inv EXCEPT ![g] = SourceOf(g).inv]
    /\ hold' = [hold EXCEPT ![g] = NoHold]
    /\ Answers(g, "ok")
    /\ UNCHANGED <<up, saves, barrier, marks, receipts, count>>

\* The command raises; nothing changes.
Refuses(g) ==
    /\ up[g] /\ queue[g] # <<>>
    /\ \/ hold[g].id \notin {NoTxn, Command(g).id}
       \/ hold[g] = NoHold /\ (Takes(g, "load") \/ Takes(g, "release")) /\ ~Committed(g)
       \/ hold[g] # NoHold /\ Takes(g, "load") /\ hold[g].phase # "loaded"
             /\ (~Committed(g) \/ Outputs(g) = {})
       \/ hold[g] # NoHold /\ Takes(g, "release") /\ hold[g].phase # "loaded"
       \/ hold[g] # NoHold /\ Takes(g, "abort") /\ ~CanAbort(g)
    /\ Answers(g, "refused")
    /\ UNCHANGED <<gameVars, count>>

\* A process that ends takes its queue with it.
Down(g) ==
    /\ up' = [up EXCEPT ![g] = FALSE] /\ queue' = [queue EXCEPT ![g] = <<>>]
    /\ coord' = IF \E i \in DOMAIN queue[g] : queue[g][i].live
                   THEN [coord EXCEPT !.reply = "refused"] ELSE coord
    /\ UNCHANGED <<active, result, completed>>

\* The save fails or is cut off after the hold was written: before its state,
\* before its manifest, or before the hold names it.
PrepareCutOff(g) ==
    /\ Takes(g, "prepare") /\ hold[g] = NoHold /\ Fault
    /\ hold' = [hold EXCEPT ![g] = [id |-> Command(g).id, phase |-> "preparing", source |-> NoSave]]
    /\ \/ Answers(g, "refused") /\ UNCHANGED <<saves, up>>
       \/ /\ Down(g)
          /\ saves' \in {saves, [saves EXCEPT ![g] = Append(@, NewSave(g, FALSE))],
                         [saves EXCEPT ![g] = Saved(g)]}
    /\ UNCHANGED <<inv, barrier, marks, receipts>>

Dies(g) ==
    /\ up[g] /\ Fault /\ Down(g)
    /\ \/ UNCHANGED saves
       \/ Playing(g) /\ saves' = [saves EXCEPT ![g] = Append(@, NewSave(g, FALSE))]
    /\ UNCHANGED <<inv, hold, barrier, marks, receipts>>

\* The newest save the barrier admits; a held game stays paused.
Starts(g) ==
    /\ ~up[g] /\ up' = [up EXCEPT ![g] = TRUE]
    /\ \/ saves[g] = <<>> /\ inv' = [inv EXCEPT ![g] = {}]
       \/ \E i \in DOMAIN saves[g] :
             /\ Admissible(g, saves[g][i])
             /\ \A j \in i + 1 .. Len(saves[g]) : ~Admissible(g, saves[g][j])
             /\ inv' = [inv EXCEPT ![g] = saves[g][i].inv]
    /\ UNCHANGED <<coordVars, hold, saves, barrier, marks, receipts, queue, count>>

------------------------------------------------------------------------------

CoordinatorStep ==
    \/ Begins \/ Resumes \/ Names \/ Asks \/ RequestFails \/ Answered \/ AsksAgain \/ GivesUp
    \/ Stages \/ Targets \/ Publishes \/ Decides \/ Journals \/ Discards
    \/ WritesStatus \/ Removes

Handles(g) ==
    \/ Prepares(g) \/ PrepareWaits(g) \/ ReleasedBefore(g) \/ LoadsOutput(g)
    \/ Releases(g) \/ Aborts(g) \/ Refuses(g)

LegacyNext ==
    \/ CoordinatorStep \/ Fails
    \/ \E g \in Games : \/ Autosave(g) \/ Rewind(g) \/ NewRun(g)
                        \/ Handles(g) \/ PrepareCutOff(g) \/ Dies(g) \/ Starts(g)

\* The loop wakes every minute, game threads empty their queues, the containers
\* are restarted, and the deadline ends the waiting for a safe point.
LegacyFairness ==
    /\ WF_vars(CoordinatorStep) /\ SF_vars(GivesUp)
    /\ \A g \in Games : WF_vars(Handles(g)) /\ WF_vars(Starts(g))

LegacySpec == LegacyInit /\ [][LegacyNext]_vars /\ LegacyFairness

------------------------------------------------------------------------------
(* What the owners of the two games rely on. *)

\* A game plays on with exactly what its journal says it received: never with a
\* Pokemon of an exchange that was not decided, never without one that was.
PlayMatchesJournal ==
    \A g \in Games : Playing(g) => inv[g] = receipts[g]

\* An exchange happens to both games or to neither: while one has it and the
\* other does not, the decision is on disk and the coordinator still at work on it.
BothOrNeither ==
    /\ \A t \in Txn : \A g \in Games :
          t \in marks[g] => \/ \A h \in Games : t \in marks[h]
                            \/ active.id = t /\ active.phase = "committed"
    /\ \A t \in completed : \A g \in Games : t \in marks[g]

\* No game is held for a transaction that nobody will end: not by a request that
\* was given up and is handled late, not by a coordinator that died in between.
NoOrphanHold ==
    \A g \in Games : hold[g] # NoHold =>
        active.id = hold[g].id /\ \E i \in 1 .. active.prepared : Peers[i] = g

\* Whatever the barrier, a game that has a whole save can be started.
StartFindsSave ==
    \A g \in Games : (\E i \in DOMAIN saves[g] : saves[g][i].whole) =>
                        \E i \in DOMAIN saves[g] : Admissible(g, saves[g][i])

\* Three ways in which recovery is refused for ever: a new run of the peer
\* released first erased the barrier that says it took part; a save cut off in
\* its preparation is the newest file; the very first save was cut off.
RunErased == active.phase = "committed" /\ \E g \in Games :
    active.id \in marks[g] /\ hold[g] = NoHold /\ barrier[g] # active.id
SaveCutOff == \E g \in Games :
    hold[g].phase = "preparing" /\ saves[g] # <<>> /\ ~Last(saves[g]).whole
NoSaveLeft == \E g \in Games :
    saves[g] # <<>> /\ \A i \in DOMAIN saves[g] : ~saves[g][i].whole

\* Every other hold ends, whatever else fails meanwhile.
HeldIsReleased ==
    \A g \in Games : hold[g] # NoHold ~> hold[g] = NoHold \/ RunErased \/ SaveCutOff \/ NoSaveLeft

------------------------------------------------------------------------------
(* The pair implements the atomic exchange. *)

\* The transaction under way can still be decided either way ...
Undecided ==
    active.phase = "preparing" /\ coord.at \in {"name", "prepare", "stage", "target", "publish", "decide"}

\* ... and has an output that the game could load.
HasOutput(g) == \E i \in DOMAIN saves[g] : saves[g][i].name = active.id /\ saves[g][i].whole

OutcomeOf(t) ==
    IF t > count.txn \/ (t = active.id /\ Undecided) THEN "open"
    ELSE IF t \in marks["red"] \/ (t = active.id /\ active.phase = "committed") THEN "COMMIT"
    ELSE "ABORT"

SideOf(g, t) ==
    IF t \in marks[g] THEN "swapped"
    ELSE IF t = active.id /\ HasOutput(g) THEN "ready"
    ELSE IF OutcomeOf(t) = "ABORT" THEN "kept" ELSE "own"

Pair == INSTANCE AtomicExchange WITH
    Exchange <- Txn, Adventure <- Games, Participants <- [t \in Txn |-> Games],
    outcome <- [t \in Txn |-> OutcomeOf(t)],
    side <- [g \in Games |-> [t \in Txn |-> SideOf(g, t)]]

\* "Until the decision is durable neither output may remain eligible for restore",
\* and it "is the irreversible step": one write decides, when both outputs are whole;
\* a coordinator that dies before it has aborted for good, one that dies after it
\* commits both games, and no output of an aborted exchange is loaded.
PairIsAtomic == Pair!AtomicSpec
==============================================================================
