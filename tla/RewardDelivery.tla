--------------------------- MODULE RewardDelivery ---------------------------
(***************************************************************************)
(* Gifts and Champion purchases of one adventure (runtime/                 *)
(* reward_delivery.py, tm_purchase.py, gen2/rewards.py, celebi.py): each   *)
(* is staged on a copy of the game, committed in one database transaction  *)
(* with the claim it uses up, published as a save and loaded.  They share  *)
(* the saves with Cable Club trades (runtime/participant.py), which have a *)
(* barrier of their own, and with the claims of rewards.py, which rewinds  *)
(* do not undo.                                                            *)
(*                                                                         *)
(* One thread runs all of it, so a step is what lies between two durable   *)
(* writes: a crash can come between any two steps.                         *)
(***************************************************************************)
EXTENDS Integers, FiniteSets

CONSTANTS
    N,          \* bound: gifts, purchases and trades, numbered as they begin
    MaxWins,    \* bound: League victories
    MaxSaves,   \* bound: save files written
    MaxFaults,  \* bound: crashes and failed steps
    Keep        \* KEEP_AUTOSAVES

ASSUME BoundsAssumption ==
    /\ N \in Nat /\ MaxWins \in Nat /\ MaxSaves \in Nat /\ MaxFaults \in Nat
    /\ Keep \in Nat \ {0}

VARIABLES
    thread,     \* where the game thread is, and with which transaction
    game,       \* the cartridge and its run memory
    saves,      \* the auto-* files; newer ones have a later "at"
    barrier,    \* trade_barrier and custom-reward-barrier-v1
    pending,    \* custom-reward-pending-v1
    results,    \* result.state files of gifts and purchases on disk
    trade,      \* the adventure's record of its unfinished exchange
    ledger,     \* league-rewards-v1
    receipts,   \* what the journal says was received or bought
    count       \* bounds: transactions begun, files written, faults

vars == <<thread, game, saves, barrier, pending, results, trade, ledger, receipts, count>>

Txn == 1 .. N
NoTxn == 0
Kinds == {"league", "mew", "purchase"}

\* What is in a cartridge: transactions, how many of them League gifts, and the
\* victories its run memory counts.
Games == [got : SUBSET Txn, gifts : Nat, wins : Nat]
PowerOn == [got |-> {}, gifts |-> 0, wins |-> 0]
Barriers == [trade : 0 .. N, gift : 0 .. N]
\* A save without its manifest is not whole: nothing loads it.
Saves == [at : Nat, name : 0 .. N, whole : BOOLEAN, tags : Barriers, state : Games]
NoPending == [id |-> NoTxn, phase |-> "none", kind |-> "mew", trade |-> NoTxn, state |-> PowerOn]
NoTrade == [id |-> NoTxn, phase |-> "none", tags |-> [trade |-> 0, gift |-> 0], state |-> PowerOn]

Delivering == {"saved", "written", "staged"}
Publishing == {"committed", "bare", "whole", "complete"}
Recovering == {"trade", "gift", "gift_bare", "gift_whole", "restore"}
Places == {"down", "play", "fatal"} \cup Delivering \cup Publishing \cup Recovering

Positions == [at : Places, id : 0 .. N, kind : Kinds]
Records == [id : 0 .. N, phase : {"none", "staged", "committed", "complete"},
            kind : Kinds, trade : 0 .. N, state : Games]
Trades == [id : 0 .. N, phase : {"none", "travelling", "held", "committed", "applied"},
           tags : Barriers, state : Games]
Ledgers == [earned : Nat, observed : Nat, delivered : Nat]
Counts == [txn : 0 .. N, files : Nat, faults : Nat]

RewardTypeOK ==
    /\ thread \in Positions /\ game \in Games /\ saves \subseteq Saves /\ barrier \in Barriers
    /\ pending \in Records /\ results \subseteq Txn /\ trade \in Trades
    /\ ledger \in Ledgers /\ receipts \subseteq Txn /\ count \in Counts

RewardInit ==
    /\ thread = [at |-> "play", id |-> NoTxn, kind |-> "mew"]
    /\ game = PowerOn /\ saves = {} /\ barrier = [trade |-> 0, gift |-> 0]
    /\ pending = NoPending /\ results = {} /\ trade = NoTrade
    /\ ledger = [earned |-> 0, observed |-> 0, delivered |-> 0] /\ receipts = {}
    /\ count = [txn |-> 0, files |-> 0, faults |-> 0]

------------------------------------------------------------------------------
(* Saves. *)

Larger(m, n) == IF m > n THEN m ELSE n
Goes(place) == thread' = [thread EXCEPT !.at = place]
Rests == thread' = [thread EXCEPT !.at = "play", !.id = NoTxn]
Held == trade.phase \in {"held", "committed", "applied"}

Room == count.files < MaxSaves
Written(name, whole, tags, state) ==
    [at |-> count.files + 1, name |-> name, whole |-> whole, tags |-> tags, state |-> state]
Newer(files, s) == {r \in files : r.at > s.at}
Pruned(files) == {s \in files : Cardinality(Newer(files, s)) < Keep}

\* The manifest names the barriers of the moment, whatever game is running. A save that
\* a glitched game or a long battle skips is no step; a delivery and a held trade save
\* only a game they have just found valid and out of battle.
Autosaves ==
    /\ Room
    /\ saves' = Pruned(saves \cup {Written(NoTxn, TRUE, barrier, game)})
    /\ results' \in {results, results \cap (IF pending.phase # "complete" THEN {pending.id} ELSE {})}

\* Variant: the claims are only in the save.
LoadsAsSaved(state) == game' = state

\* A load never forgets a victory whose claim is recorded.
Loads(state) == game' = [state EXCEPT !.wins = Larger(@, ledger.observed)]

Admissible(s) ==
    /\ s.whole
    /\ barrier.trade # NoTxn => s.tags.trade = barrier.trade
    /\ barrier.gift # NoTxn => s.tags.gift = barrier.gift

Fault == count.faults < MaxFaults
Faulty == [count EXCEPT !.faults = @ + 1]

------------------------------------------------------------------------------
(* Play. *)

Playing == thread.at = "play" /\ ~Held

\* The victory's claim; gifts may be switched off.
Win ==
    /\ Playing /\ game.wins < MaxWins
    /\ game' = [game EXCEPT !.wins = @ + 1]
    /\ LET new == Larger(0, game'.wins - ledger.observed)
           observed == Larger(ledger.observed, game'.wins)
       IN  \E enabled \in BOOLEAN :
              ledger' = [ledger EXCEPT !.observed = observed,
                                       !.earned = IF enabled THEN @ + new ELSE @]
    /\ UNCHANGED <<thread, saves, barrier, pending, results, trade, receipts, count>>

Autosave ==
    /\ Playing /\ Autosaves
    /\ count' = [count EXCEPT !.files = @ + 1]
    /\ UNCHANGED <<thread, game, barrier, pending, trade, ledger, receipts>>

\* A stuck game goes back to some save, or is power-cycled when there is none;
\* the owner's rewinds are refused in the same way.
Rewind ==
    /\ Playing
    /\ \/ \E s \in saves : Admissible(s) /\ Loads(s.state)
       \/ saves = {} /\ game' = [PowerOn EXCEPT !.wins = game.wins]
    /\ UNCHANGED <<thread, saves, barrier, pending, results, trade, ledger, receipts, count>>

\* A new run: nothing of the old one is left (bound: not cut off in the middle).
NewRun ==
    /\ Playing /\ trade.phase = "none"
    /\ game' = PowerOn /\ saves' = {} /\ barrier' = [trade |-> 0, gift |-> 0]
    /\ pending' = NoPending /\ receipts' = {}
    /\ ledger' = [earned |-> 0, observed |-> 0, delivered |-> 0]
    /\ UNCHANGED <<thread, results, trade, count>>

------------------------------------------------------------------------------
(* A gift or purchase. *)

Chosen(kind) == kind = "league" => ledger.earned > ledger.delivered

\* Variant: a held game receives its gift like any other.
DeliveryBeginsHeld(kind) ==
    /\ thread.at = "play" /\ trade.phase # "travelling" /\ count.txn < N /\ Chosen(kind)
    /\ Autosaves
    /\ thread' = [at |-> "saved", id |-> count.txn + 1, kind |-> kind]
    /\ count' = [count EXCEPT !.txn = @ + 1, !.files = @ + 1]
    /\ UNCHANGED <<game, barrier, pending, trade, ledger, receipts>>

\* The game is saved, and copied into a second emulator that receives the gift.
DeliveryBegins(kind) ==
    /\ Playing /\ trade.phase # "travelling" /\ count.txn < N /\ Chosen(kind)
    /\ Autosaves
    /\ thread' = [at |-> "saved", id |-> count.txn + 1, kind |-> kind]
    /\ count' = [count EXCEPT !.txn = @ + 1, !.files = @ + 1]
    /\ UNCHANGED <<game, barrier, pending, trade, ledger, receipts>>

DeliveryWrites ==
    /\ thread.at = "saved" /\ Goes("written")
    /\ results' = results \cup {thread.id}
    /\ UNCHANGED <<game, saves, barrier, pending, trade, ledger, receipts, count>>

Record(phase) ==
    [id |-> thread.id, phase |-> phase, kind |-> thread.kind, trade |-> barrier.trade,
     state |-> [got |-> game.got \cup {thread.id},
                gifts |-> IF thread.kind = "league" THEN game.gifts + 1 ELSE game.gifts,
                wins |-> Larger(game.wins, ledger.observed)]]

DeliveryStages ==
    /\ thread.at = "written" /\ Goes("staged")
    /\ pending' = Record("staged")
    /\ UNCHANGED <<game, saves, barrier, results, trade, ledger, receipts, count>>

\* Variant: the claim is used up when the gift is in the game.
DeliveryCommitsUnclaimed ==
    /\ thread.at \in {"written", "staged"} /\ Goes("committed")
    /\ pending' = Record("committed") /\ barrier' = [barrier EXCEPT !.gift = thread.id]
    /\ receipts' = receipts \cup {thread.id}
    /\ UNCHANGED <<game, saves, results, trade, ledger, count>>

\* One transaction: claim, barrier, record and journal.  Gen II has no staged record.
DeliveryCommits ==
    /\ thread.at \in {"written", "staged"} /\ Goes("committed")
    /\ Chosen(thread.kind)
    /\ ledger' = [ledger EXCEPT !.delivered = IF thread.kind = "league" THEN @ + 1 ELSE @]
    /\ pending' = Record("committed") /\ barrier' = [barrier EXCEPT !.gift = thread.id]
    /\ receipts' = receipts \cup {thread.id}
    /\ UNCHANGED <<game, saves, results, trade, count>>

\* recover_storage: the file, its manifest, and the record's last phase.
File(whole) ==
    /\ Room
    /\ saves' = {s \in saves : s.name # pending.id}
                  \cup {Written(pending.id, whole, [trade |-> pending.trade, gift |-> pending.id], pending.state)}
    /\ count' = [count EXCEPT !.files = @ + 1]

Publishes(from, bare, whole, done) ==
    \/ thread.at = from /\ Goes(bare) /\ File(FALSE) /\ UNCHANGED pending
    \/ thread.at = bare /\ Goes(whole) /\ File(TRUE) /\ UNCHANGED pending
    \/ /\ thread.at = whole /\ Goes(done)
       /\ pending' = [pending EXCEPT !.phase = "complete"] /\ UNCHANGED <<saves, count>>

DeliveryPublishes ==
    /\ Publishes("committed", "bare", "whole", "complete")
    /\ UNCHANGED <<game, barrier, results, trade, ledger, receipts>>

DeliveryLoads ==
    /\ thread.at = "complete" /\ Rests
    /\ Loads(pending.state)
    /\ UNCHANGED <<saves, barrier, pending, results, trade, ledger, receipts, count>>

\* Before its commit a failed delivery is forgotten, after it the game stops.
DeliveryFails ==
    /\ Fault /\ count' = Faulty
    /\ \/ thread.at \in Delivering /\ Rests
       \/ thread.at \in Publishing /\ Goes("fatal")
    /\ UNCHANGED <<game, saves, barrier, pending, results, trade, ledger, receipts>>

------------------------------------------------------------------------------
(* A trade, as module Participant has it in detail. *)

TradeBegins ==
    /\ Playing /\ trade.phase = "none" /\ count.txn < N
    /\ trade' = [NoTrade EXCEPT !.id = count.txn + 1, !.phase = "travelling"]
    /\ count' = [count EXCEPT !.txn = @ + 1]
    /\ UNCHANGED <<thread, game, saves, barrier, pending, results, ledger, receipts>>

\* At the Cable Club the game is held and saved, and the save named as the source.
TradeHolds ==
    /\ Playing /\ trade.phase = "travelling"
    /\ Autosaves
    /\ trade' = [trade EXCEPT !.phase = "held", !.tags = barrier, !.state = game]
    /\ count' = [count EXCEPT !.files = @ + 1]
    /\ UNCHANGED <<thread, game, barrier, pending, ledger, receipts>>

TradeAborts ==
    /\ thread.at = "play" /\ trade.phase \in {"travelling", "held"}
    /\ IF trade.phase = "held" THEN Loads(trade.state) ELSE UNCHANGED game
    /\ trade' = NoTrade
    /\ UNCHANGED <<thread, saves, barrier, pending, results, ledger, receipts, count>>

TradeCommits ==
    /\ thread.at = "play" /\ trade.phase = "held"
    /\ trade' = [trade EXCEPT !.phase = "committed"]
    /\ receipts' = receipts \cup {trade.id}
    /\ UNCHANGED <<thread, game, saves, barrier, pending, results, ledger, count>>

Received == [trade.state EXCEPT !.got = @ \cup {trade.id}]

\* _promote: a save that is there already is kept; then the barrier.
Promotes ==
    /\ \/ \E s \in saves : s.name = trade.id /\ UNCHANGED <<saves, count>>
       \/ /\ \A s \in saves : s.name # trade.id
          /\ Room
          /\ saves' = saves \cup {Written(trade.id, TRUE, [trade.tags EXCEPT !.trade = trade.id], Received)}
          /\ count' = [count EXCEPT !.files = @ + 1]
    /\ barrier' = [barrier EXCEPT !.trade = trade.id]

TradeApplies ==
    /\ thread.at = "play" /\ trade.phase = "committed"
    /\ Promotes /\ Loads(Received)
    /\ trade' = [trade EXCEPT !.phase = "applied"]
    /\ UNCHANGED <<thread, pending, results, ledger, receipts>>

TradeReleases ==
    /\ thread.at = "play" /\ trade.phase = "applied"
    /\ trade' = NoTrade
    /\ UNCHANGED <<thread, game, saves, barrier, pending, results, ledger, receipts, count>>

------------------------------------------------------------------------------
(* The worker's end and its next start. *)

\* Variant: every run ends with a save.
EndsSaved ==
    /\ \/ thread.at = "play" /\ (IF Held THEN UNCHANGED <<saves, results, count>>
                                 ELSE Autosaves /\ count' = [count EXCEPT !.files = @ + 1])
       \/ thread.at = "fatal" /\ Autosaves /\ count' = [count EXCEPT !.files = @ + 1]
    /\ Goes("down")
    /\ UNCHANGED <<game, barrier, pending, trade, ledger, receipts>>

\* The last save, unless the game is held or stopped over an error.
Ends ==
    /\ \/ thread.at = "play" /\ (IF Held THEN UNCHANGED <<saves, results, count>>
                                 ELSE Autosaves /\ count' = [count EXCEPT !.files = @ + 1])
       \/ thread.at = "fatal" /\ UNCHANGED <<saves, results, count>>
    /\ Goes("down")
    /\ UNCHANGED <<game, barrier, pending, trade, ledger, receipts>>

\* A save may be cut off between the file and its manifest.
Crashes ==
    /\ thread.at # "down" /\ Fault /\ Goes("down")
    /\ \/ UNCHANGED saves /\ count' = Faulty
       \/ /\ Playing /\ Room
          /\ saves' = saves \cup {Written(NoTxn, FALSE, barrier, game)}
          /\ count' = [Faulty EXCEPT !.files = @ + 1]
    /\ UNCHANGED <<game, barrier, pending, results, trade, ledger, receipts>>

Starts ==
    /\ thread.at = "down" /\ Goes("trade")
    /\ UNCHANGED <<game, saves, barrier, pending, results, trade, ledger, receipts, count>>

\* Exchanges first: a committed one is promoted again.
RecoversTrade ==
    /\ thread.at = "trade" /\ Goes("gift")
    /\ IF trade.phase \in {"committed", "applied"} THEN Promotes ELSE UNCHANGED <<saves, barrier, count>>
    /\ UNCHANGED <<game, pending, results, trade, ledger, receipts>>

\* What recover_storage asks of a committed record.
Recoverable ==
    /\ barrier.gift = pending.id /\ barrier.trade = pending.trade
    /\ pending.id \in results

RecoversGift ==
    /\ \/ /\ thread.at = "gift" /\ pending.phase # "committed" /\ Goes("restore")
          /\ pending' = IF pending.phase = "staged" THEN NoPending ELSE pending
          /\ UNCHANGED <<saves, count>>
       \/ /\ pending.phase = "committed" /\ Recoverable
          /\ Publishes("gift", "gift_bare", "gift_whole", "restore")
    /\ UNCHANGED <<game, barrier, results, trade, ledger, receipts>>

\* The newest save that loads; a game without saves starts from power-on, with the
\* run memory the database has.
Restores ==
    /\ thread.at = "restore" /\ Rests
    /\ \/ saves = {} /\ game' = [PowerOn EXCEPT !.wins = ledger.observed]
       \/ \E s \in saves :
            /\ Admissible(s) /\ \A r \in Newer(saves, s) : ~Admissible(r)
            /\ Loads(s.state)
    /\ ledger' = [ledger EXCEPT !.observed = Larger(@, game'.wins)]
    /\ UNCHANGED <<saves, barrier, pending, results, trade, receipts, count>>

------------------------------------------------------------------------------

RewardNext ==
    \/ Win \/ Autosave \/ Rewind \/ NewRun
    \/ \E kind \in Kinds : DeliveryBegins(kind)
    \/ DeliveryWrites \/ DeliveryStages \/ DeliveryCommits \/ DeliveryPublishes \/ DeliveryLoads \/ DeliveryFails
    \/ TradeBegins \/ TradeHolds \/ TradeAborts \/ TradeCommits \/ TradeApplies \/ TradeReleases
    \/ Ends \/ Crashes \/ Starts \/ RecoversTrade \/ RecoversGift \/ Restores

RewardSpec == RewardInit /\ [][RewardNext]_vars

------------------------------------------------------------------------------
(* What the owner can rely on. *)

\* A game that runs has exactly what the journal says was received and bought, and
\* as many League gifts as claims were used up: none lost, none twice, whatever
\* failed, crashed or was rewound, and trades in between.
PlayIsExact ==
    thread.at = "play" /\ trade.phase # "committed" =>
        game.got = receipts /\ game.gifts = ledger.delivered

\* A start never refuses its own records and a stuck game can always go back: the
\* committed gift is recoverable beside any trade, and some save passes both
\* barriers (a game whose only files are cut off is the exception, see the README).
StartSucceeds ==
    /\ thread.at \in {"gift", "gift_bare", "gift_whole"} /\ pending.phase = "committed" => Recoverable
    /\ thread.at \in {"restore", "play"} /\ (\E s \in saves : s.whole) => \E s \in saves : Admissible(s)

\* "Each new League victory" has its reward: no victory after a rewind or a
\* restart is taken for one that was claimed before.
EveryWinCounts == [][Playing /\ game'.wins = game.wins + 1 =>
                       ledger'.observed = ledger.observed + 1]_vars
==============================================================================
