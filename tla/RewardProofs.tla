---------------------------- MODULE RewardProofs ----------------------------
(***************************************************************************)
(* What is proved of RewardDelivery for every value of its bounds: the     *)
(* game is exact and a save passes both barriers.  The invariant follows a *)
(* delivery: at which steps the record is committed, what the saves that   *)
(* pass the barriers hold, and which numbers are not used by any file yet; *)
(* the second one follows the victories the ledger has seen and claimed.   *)
(***************************************************************************)
EXTENDS RewardDelivery, FiniteSetTheorems, TLAPS

\* A committed trade is in no save before it is promoted.
Settled == IF trade.phase = "committed" /\ barrier.trade # trade.id THEN receipts \ {trade.id} ELSE receipts
Exact(state) == state.got = Settled /\ state.gifts = ledger.delivered

\* Where the thread can be while a record is committed, and with which barriers.
RecordFits ==
    /\ thread.at \in {"committed", "bare", "whole"} => pending.phase = "committed"
    /\ pending.phase = "committed" =>
          /\ thread.at \notin {"play", "restore", "complete"} \cup Delivering
          /\ Recoverable
    /\ thread.at \in {"written", "staged"} => thread.id \in results
    /\ thread.at \in Delivering \cup Publishing \/ pending.phase = "committed" => trade.phase = "none"
    /\ pending.phase = "committed" \/ thread.at = "complete" => Exact(pending.state)

\* A held game is the one its trade will publish.
TradeFits ==
    /\ Held => /\ trade.tags.gift = barrier.gift
               /\ trade.state.got = receipts \ {trade.id} /\ trade.state.gifts = ledger.delivered
    /\ trade.phase \in {"committed", "applied"} => trade.id \in receipts
    /\ trade.phase = "applied" => barrier.trade = trade.id

GameFits == thread.at \in {"play"} \cup Delivering /\ trade.phase # "committed" => Exact(game)

SavesAreExact == \A s \in saves : Admissible(s) => Exact(s.state)
NothingYet == barrier.trade = 0 /\ barrier.gift = 0 => Settled = {} /\ ledger.delivered = 0
SomeSave ==
    pending.phase # "committed" \/ thread.at \in {"whole", "gift_whole"} =>
        \/ barrier.trade = 0 /\ barrier.gift = 0
        \/ \E s \in saves : Admissible(s)

Used(n) == n <= count.txn
NumbersFit ==
    /\ \A n \in receipts : Used(n)
    /\ Used(barrier.trade) /\ Used(barrier.gift) /\ Used(trade.id) /\ Used(pending.id)
    /\ \A s \in saves : s.at <= count.files /\ Used(s.name) /\ Used(s.tags.trade) /\ Used(s.tags.gift)

TradeIsNew ==
    /\ trade.phase # "none" => trade.id # NoTxn
    /\ trade.phase \in {"travelling", "held"} => trade.id \notin receipts /\ barrier.trade # trade.id
    /\ trade.phase # "none" /\ barrier.trade # trade.id =>
          \A s \in saves : s.name # trade.id /\ s.tags.trade # trade.id

DeliveryIsNew ==
    thread.at \in Delivering => thread.id \in Txn /\ Used(thread.id) /\ \A s \in saves : s.tags.gift # thread.id

RewardInv == RewardTypeOK /\ RecordFits /\ TradeFits /\ GameFits /\ SavesAreExact /\ NothingYet /\ SomeSave
             /\ NumbersFit /\ TradeIsNew /\ DeliveryIsNew

------------------------------------------------------------------------------

LEMMA EmptyCounts == Cardinality({}) = 0
  BY FS_EmptySet

\* The save of the moment is the newest one, and pruning keeps it.
LEMMA AutosaveAdds ==
    ASSUME RewardTypeOK, NumbersFit, Autosaves
    PROVE  /\ Written(NoTxn, TRUE, barrier, game) \in saves'
           /\ saves' \subseteq saves \cup {Written(NoTxn, TRUE, barrier, game)}
           /\ saves' \subseteq Saves
           /\ results' \subseteq results
           /\ pending.phase # "complete" /\ pending.id \in results => pending.id \in results'
<1> DEFINE new == Written(NoTxn, TRUE, barrier, game)
<1>1. new \in Saves /\ new.at = count.files + 1
  BY BoundsAssumption DEF RewardTypeOK, Counts, Written, Saves, NoTxn, Barriers
<1>2. \A s \in saves : s.at <= count.files /\ s.at \in Nat
  BY DEF RewardTypeOK, NumbersFit, Saves
<1>5. saves' = Pruned(saves \cup {new})
  BY DEF Autosaves
<1> HIDE DEF new
<1>3. Newer(saves \cup {new}, new) = {}
  <2>1. count.files \in Nat
    BY DEF RewardTypeOK, Counts
  <2> QED
    BY <1>1, <1>2, <2>1 DEF Newer
<1>4. Cardinality(Newer(saves \cup {new}, new)) < Keep
  BY <1>3, EmptyCounts, BoundsAssumption
<1>6. new \in saves' /\ saves' \subseteq saves \cup {new}
  BY <1>4, <1>5 DEF Pruned
<1>7. saves' \subseteq Saves
  BY <1>1, <1>6 DEF RewardTypeOK
<1>8. /\ results' \subseteq results
      /\ pending.phase # "complete" /\ pending.id \in results => pending.id \in results'
  BY DEF Autosaves
<1> QED
  BY <1>6, <1>7, <1>8 DEF new

LEMMA FileTyped ==
    ASSUME RewardTypeOK, NEW whole \in BOOLEAN, File(whole)
    PROVE  saves' \subseteq Saves /\ count' \in Counts
<1>1. Written(pending.id, whole, [trade |-> pending.trade, gift |-> pending.id], pending.state) \in Saves
  BY DEF RewardTypeOK, Records, Counts, Written, Saves, Barriers
<1>2. count' \in Counts
  BY DEF File, RewardTypeOK, Counts
<1>3. saves \subseteq Saves
  BY DEF RewardTypeOK
<1> QED
  BY <1>1, <1>2, <1>3 DEF File

LEMMA LoadTyped ==
    ASSUME RewardTypeOK, NEW state \in Games, Loads(state)
    PROVE  game' \in Games /\ game'.got = state.got /\ game'.gifts = state.gifts
  BY DEF RewardTypeOK, Ledgers, Loads, Larger, Games

LEMMA PromotionTyped ==
    ASSUME RewardTypeOK, Promotes, trade.phase \in {"committed", "applied"}, trade.id \in Txn
    PROVE  /\ Received \in Games
           /\ saves' \subseteq Saves /\ barrier' \in Barriers
           /\ count' \in Counts
<1>1. trade.state \in Games /\ trade.tags \in Barriers
  BY DEF RewardTypeOK, Trades
<1>2. Received \in Games
  BY <1>1 DEF Received, Games
<1>3. [trade.tags EXCEPT !.trade = trade.id] \in Barriers
  BY <1>1 DEF Barriers, Txn
<1>4. Written(trade.id, TRUE, [trade.tags EXCEPT !.trade = trade.id], Received) \in Saves
  BY <1>2, <1>3 DEF RewardTypeOK, Counts, Written, Saves, Txn
<1>5. barrier' \in Barriers
  BY DEF Promotes, RewardTypeOK, Barriers, Txn
<1>6. saves \subseteq Saves /\ count \in Counts
  BY DEF RewardTypeOK
<1>7. saves' \subseteq Saves
  BY <1>4, <1>6 DEF Promotes
<1>8. count' \in Counts
  <2>1. count' = count \/ count' = [count EXCEPT !.files = @ + 1]
    BY DEF Promotes
  <2> QED
    BY <1>6, <2>1 DEF Counts
<1> QED
  BY <1>2, <1>5, <1>7, <1>8

LEMMA NoneTyped ==
    /\ 0 \in 0 .. N /\ PowerOn \in Games /\ [trade |-> 0, gift |-> 0] \in Barriers
    /\ NoTrade \in Trades /\ NoPending \in Records
<1>1. 0 \in 0 .. N /\ PowerOn \in Games
  BY BoundsAssumption DEF PowerOn, Games
<1>2. [trade |-> 0, gift |-> 0] \in Barriers
  BY <1>1 DEF Barriers
<1> QED
  BY <1>1, <1>2 DEF NoTrade, NoPending, NoTxn, Trades, Records, Kinds

LEMMA RestTyped == ASSUME RewardTypeOK, Rests PROVE thread' \in Positions
<1>1. thread \in Positions /\ 0 \in 0 .. N
  BY NoneTyped DEF RewardTypeOK
<1> QED
  BY <1>1 DEF Rests, NoTxn, Positions, Places

LEMMA NumbersAre ==
    ASSUME RewardTypeOK
    PROVE  /\ count.txn \in Nat /\ count.files \in Nat /\ receipts \subseteq Nat
           /\ \A s \in saves : s.at \in Nat /\ s.name \in Nat /\ s.tags.trade \in Nat /\ s.tags.gift \in Nat
           /\ barrier.trade \in Nat /\ barrier.gift \in Nat /\ thread.id \in Nat /\ trade.id \in Nat
           /\ pending.id \in Nat /\ pending.trade \in Nat /\ trade.tags.gift \in Nat
  BY BoundsAssumption DEF RewardTypeOK, Counts, Saves, Barriers, Positions, Trades, Records, Txn

LEMMA PromotionIs ==
    ASSUME RewardTypeOK, Promotes
    PROVE  /\ \/ \E s \in saves : s.name = trade.id /\ UNCHANGED <<saves, count>>
              \/ /\ count'.files = count.files + 1 /\ count'.txn = count.txn
                 /\ saves' = saves \cup {Written(trade.id, TRUE, [trade |-> trade.id, gift |-> trade.tags.gift],
                                                [got |-> trade.state.got \cup {trade.id}, gifts |-> trade.state.gifts, wins |-> trade.state.wins])}
           /\ barrier'.trade = trade.id /\ barrier'.gift = barrier.gift
<1>1. /\ trade.tags \in Barriers /\ trade.state \in Games
      /\ barrier \in Barriers /\ count \in Counts
  BY DEF RewardTypeOK, Trades
<1>2. [trade.tags EXCEPT !.trade = trade.id] = [trade |-> trade.id, gift |-> trade.tags.gift]
  BY <1>1 DEF Barriers
<1>3. Received = [got |-> trade.state.got \cup {trade.id}, gifts |-> trade.state.gifts, wins |-> trade.state.wins]
  BY <1>1 DEF Received, Games
<1>4. barrier'.trade = trade.id /\ barrier'.gift = barrier.gift
  BY <1>1 DEF Promotes, Barriers
<1>5. count' = [count EXCEPT !.files = @ + 1] => count'.files = count.files + 1 /\ count'.txn = count.txn
  BY <1>1 DEF Counts
<1> QED
  BY <1>2, <1>3, <1>4, <1>5 DEF Promotes

LEMMA WinKeeps == ASSUME RewardInv, Win PROVE RewardInv'
<1> USE DEF RewardInv
<1>0. /\ thread.at = "play"
      /\ trade.phase \notin {"held", "committed", "applied"}
      /\ game'.got = game.got
      /\ game'.gifts = game.gifts
      /\ ledger'.delivered = ledger.delivered
      /\ UNCHANGED <<thread, saves, barrier, pending, results, trade, receipts, count>>
  BY SMTT(20) DEF Win, Playing, Larger, RewardTypeOK, Positions, Records, Trades, Ledgers,
     Counts, Games, Barriers, Saves, NoPending, NoTrade, PowerOn, Held, Delivering, Publishing,
     NoTxn, NumbersFit, RecordFits
<1>20. /\ count.txn \in Nat /\ count.files \in Nat /\ receipts \subseteq Nat
       /\ \A s \in saves : s.at \in Nat /\ s.name \in Nat /\ s.tags.trade \in Nat /\ s.tags.gift \in Nat
       /\ barrier.trade \in Nat /\ barrier.gift \in Nat /\ thread.id \in Nat /\ trade.id \in Nat
       /\ pending.id \in Nat /\ pending.trade \in Nat /\ trade.tags.gift \in Nat
  BY NumbersAre
<1>1. RewardTypeOK'
  <2>1. game' \in Games
    BY DEF Win, RewardTypeOK, Games
  <2>2. ledger' \in Ledgers
    <3>1. ledger \in Ledgers /\ game'.wins \in Nat
      BY <2>1 DEF RewardTypeOK, Games
    <3> DEFINE top == Larger(ledger.observed, game'.wins)
               new == Larger(0, game'.wins - ledger.observed)
    <3>2. top \in Nat /\ new \in Nat /\ ledger.earned + new \in Nat
      BY <3>1 DEF Ledgers, Larger
    <3>3. \/ ledger' = [ledger EXCEPT !.observed = top, !.earned = ledger.earned + new]
          \/ ledger' = [ledger EXCEPT !.observed = top, !.earned = ledger.earned]
      BY Zenon DEF Win
    <3> HIDE DEF top, new
    <3>4. CASE ledger' = [ledger EXCEPT !.observed = top, !.earned = ledger.earned + new]
      BY <3>1, <3>2, <3>4 DEF Ledgers
    <3>5. CASE ledger' = [ledger EXCEPT !.observed = top, !.earned = ledger.earned]
      BY <3>1, <3>2, <3>5 DEF Ledgers
    <3> QED
      BY <3>3, <3>4, <3>5
  <2>3. UNCHANGED <<thread, saves, barrier, pending, results, trade, receipts, count>>
    BY DEF Win
  <2> QED
    BY <2>1, <2>2, <2>3 DEF RewardTypeOK
<1>2. RecordFits'
  BY <1>0, SMTT(20) DEF Held, Delivering, Publishing, NoTxn, RecordFits, Recoverable, Exact,
     Settled, GameFits, TradeFits, DeliveryIsNew, TradeIsNew
<1>3. TradeFits'
  BY <1>0, SMTT(20) DEF Held, Delivering, Publishing, NoTxn, TradeFits, TradeIsNew, RecordFits,
     GameFits, Exact, Settled
<1>4. GameFits'
  BY <1>0, SMTT(20) DEF Held, Delivering, Publishing, NoTxn, GameFits, Exact, Settled,
     SavesAreExact, NothingYet, SomeSave, RecordFits, TradeFits, TradeIsNew
<1>5. SavesAreExact'
  BY <1>0, SMTT(20) DEF Held, Delivering, Publishing, NoTxn, SavesAreExact, Admissible, Exact,
     Settled, RecordFits, TradeFits, GameFits, TradeIsNew, DeliveryIsNew, Written
<1>6. NothingYet'
  BY <1>0, SMTT(20) DEF Held, Delivering, Publishing, NoTxn, NothingYet, Settled, TradeFits,
     TradeIsNew, DeliveryIsNew, RecordFits
<1>7. SomeSave'
  BY <1>0, SMTT(20) DEF Held, Delivering, Publishing, NoTxn, SomeSave, Admissible, RecordFits,
     Recoverable, TradeFits, TradeIsNew, Written
<1>8. NumbersFit'
  BY <1>0, <1>20, SMTT(20) DEF Held, Delivering, Publishing, NoTxn, NumbersFit, Used,
     DeliveryIsNew, TradeIsNew, Written
<1>9. TradeIsNew'
  BY <1>0, <1>20, SMTT(20) DEF Held, Delivering, Publishing, NoTxn, TradeIsNew, NumbersFit,
     Used, RecordFits, Written
<1>10. DeliveryIsNew'
  BY <1>0, <1>20, SMTT(20) DEF Held, Delivering, Publishing, NoTxn, DeliveryIsNew, NumbersFit,
     Used, Written
<1> QED
  BY <1>1, <1>2, <1>3, <1>4, <1>5, <1>6, <1>7, <1>8, <1>9, <1>10

LEMMA AutosaveKeeps == ASSUME RewardInv, Autosave PROVE RewardInv'
<1> USE DEF RewardInv
<1>0. /\ thread.at = "play"
      /\ trade.phase \notin {"held", "committed", "applied"}
      /\ Written(NoTxn, TRUE, barrier, game) \in saves'
      /\ saves' \subseteq saves \cup {Written(NoTxn, TRUE, barrier, game)}
      /\ results' \subseteq results
      /\ pending.phase # "complete" /\ pending.id \in results => pending.id \in results'
      /\ count'.txn = count.txn
      /\ count'.files = count.files + 1
      /\ UNCHANGED <<thread, game, barrier, pending, trade, ledger, receipts>>
  <2>1. Autosaves
    BY DEF Autosave
  <2>2. /\ Written(NoTxn, TRUE, barrier, game) \in saves'
        /\ saves' \subseteq saves \cup {Written(NoTxn, TRUE, barrier, game)}
        /\ results' \subseteq results
        /\ pending.phase # "complete" /\ pending.id \in results => pending.id \in results'
    BY <2>1, AutosaveAdds
  <2>3. /\ thread.at = "play"
        /\ trade.phase \notin {"held", "committed", "applied"}
        /\ count'.txn = count.txn
        /\ count'.files = count.files + 1
        /\ UNCHANGED <<thread, game, barrier, pending, trade, ledger, receipts>>
    BY BoundsAssumption DEF Autosave, Playing, Held, RewardTypeOK, Counts
  <2> QED
    BY <2>2, <2>3
<1>20. /\ count.txn \in Nat /\ count.files \in Nat /\ receipts \subseteq Nat
       /\ \A s \in saves : s.at \in Nat /\ s.name \in Nat /\ s.tags.trade \in Nat /\ s.tags.gift \in Nat
       /\ barrier.trade \in Nat /\ barrier.gift \in Nat /\ thread.id \in Nat /\ trade.id \in Nat
       /\ pending.id \in Nat /\ pending.trade \in Nat /\ trade.tags.gift \in Nat
  BY NumbersAre
<1>1. RewardTypeOK'
  <2>1. saves' \subseteq Saves
    BY AutosaveAdds DEF Autosave
  <2>2. results' \subseteq Txn
    BY AutosaveAdds DEF Autosave, RewardTypeOK
  <2>3. count' \in Counts
    BY BoundsAssumption DEF Autosave, RewardTypeOK, Counts
  <2>4. UNCHANGED <<thread, game, barrier, pending, trade, ledger, receipts>>
    BY DEF Autosave
  <2> QED
    BY <2>1, <2>2, <2>3, <2>4 DEF RewardTypeOK
<1>2. RecordFits'
  BY <1>0, SMTT(20) DEF Held, Delivering, Publishing, NoTxn, RecordFits, Recoverable, Exact,
     Settled, GameFits, TradeFits, DeliveryIsNew, TradeIsNew
<1>3. TradeFits'
  BY <1>0, SMTT(20) DEF Held, Delivering, Publishing, NoTxn, TradeFits, TradeIsNew, RecordFits,
     GameFits, Exact, Settled
<1>4. GameFits'
  BY <1>0, SMTT(20) DEF Held, Delivering, Publishing, NoTxn, GameFits, Exact, Settled,
     SavesAreExact, NothingYet, SomeSave, RecordFits, TradeFits, TradeIsNew
<1>5. SavesAreExact'
  BY <1>0, SMTT(20) DEF Held, Delivering, Publishing, NoTxn, SavesAreExact, Admissible, Exact,
     Settled, RecordFits, TradeFits, GameFits, TradeIsNew, DeliveryIsNew, Written
<1>6. NothingYet'
  BY <1>0, SMTT(20) DEF Held, Delivering, Publishing, NoTxn, NothingYet, Settled, TradeFits,
     TradeIsNew, DeliveryIsNew, RecordFits
<1>7. SomeSave'
  BY <1>0, SMTT(20) DEF Held, Delivering, Publishing, NoTxn, SomeSave, Admissible, RecordFits,
     Recoverable, TradeFits, TradeIsNew, Written
<1>8. NumbersFit'
  BY <1>0, <1>20, SMTT(20) DEF Held, Delivering, Publishing, NoTxn, NumbersFit, Used,
     DeliveryIsNew, TradeIsNew, Written
<1>9. TradeIsNew'
  BY <1>0, <1>20, SMTT(20) DEF Held, Delivering, Publishing, NoTxn, TradeIsNew, NumbersFit,
     Used, RecordFits, Written
<1>10. DeliveryIsNew'
  BY <1>0, <1>20, SMTT(20) DEF Held, Delivering, Publishing, NoTxn, DeliveryIsNew, NumbersFit,
     Used, Written
<1> QED
  BY <1>1, <1>2, <1>3, <1>4, <1>5, <1>6, <1>7, <1>8, <1>9, <1>10

LEMMA RewindKeeps == ASSUME RewardInv, Rewind PROVE RewardInv'
<1> USE DEF RewardInv
<1>0. /\ thread.at = "play"
      /\ trade.phase \notin {"held", "committed", "applied"}
      /\ \/ \E s \in saves : Admissible(s) /\ game'.got = s.state.got /\ game'.gifts = s.state.gifts
         \/ saves = {} /\ game'.got = {} /\ game'.gifts = 0
      /\ UNCHANGED <<thread, saves, barrier, pending, results, trade, ledger, receipts, count>>
  BY SMTT(20) DEF Rewind, Playing, Loads, Larger, RewardTypeOK, Positions, Records, Trades,
     Ledgers, Counts, Games, Barriers, Saves, NoPending, NoTrade, PowerOn, Held, Delivering,
     Publishing, NoTxn, NumbersFit, RecordFits
<1>20. /\ count.txn \in Nat /\ count.files \in Nat /\ receipts \subseteq Nat
       /\ \A s \in saves : s.at \in Nat /\ s.name \in Nat /\ s.tags.trade \in Nat /\ s.tags.gift \in Nat
       /\ barrier.trade \in Nat /\ barrier.gift \in Nat /\ thread.id \in Nat /\ trade.id \in Nat
       /\ pending.id \in Nat /\ pending.trade \in Nat /\ trade.tags.gift \in Nat
  BY NumbersAre
<1>1. RewardTypeOK'
  <2>1. game' \in Games
    BY LoadTyped DEF Rewind, RewardTypeOK, Saves, Games, PowerOn
  <2>2. UNCHANGED <<thread, saves, barrier, pending, results, trade, ledger, receipts, count>>
    BY DEF Rewind
  <2> QED
    BY <2>1, <2>2 DEF RewardTypeOK
<1>2. RecordFits'
  BY <1>0, SMTT(20) DEF Held, Delivering, Publishing, NoTxn, RecordFits, Recoverable, Exact,
     Settled, GameFits, TradeFits, DeliveryIsNew, TradeIsNew
<1>3. TradeFits'
  BY <1>0, SMTT(20) DEF Held, Delivering, Publishing, NoTxn, TradeFits, TradeIsNew, RecordFits,
     GameFits, Exact, Settled
<1>4. GameFits'
  BY <1>0, SMTT(20) DEF Held, Delivering, Publishing, NoTxn, GameFits, Exact, Settled,
     SavesAreExact, NothingYet, SomeSave, RecordFits, TradeFits, TradeIsNew
<1>5. SavesAreExact'
  BY <1>0, SMTT(20) DEF Held, Delivering, Publishing, NoTxn, SavesAreExact, Admissible, Exact,
     Settled, RecordFits, TradeFits, GameFits, TradeIsNew, DeliveryIsNew, Written
<1>6. NothingYet'
  BY <1>0, SMTT(20) DEF Held, Delivering, Publishing, NoTxn, NothingYet, Settled, TradeFits,
     TradeIsNew, DeliveryIsNew, RecordFits
<1>7. SomeSave'
  BY <1>0, SMTT(20) DEF Held, Delivering, Publishing, NoTxn, SomeSave, Admissible, RecordFits,
     Recoverable, TradeFits, TradeIsNew, Written
<1>8. NumbersFit'
  BY <1>0, <1>20, SMTT(20) DEF Held, Delivering, Publishing, NoTxn, NumbersFit, Used,
     DeliveryIsNew, TradeIsNew, Written
<1>9. TradeIsNew'
  BY <1>0, <1>20, SMTT(20) DEF Held, Delivering, Publishing, NoTxn, TradeIsNew, NumbersFit,
     Used, RecordFits, Written
<1>10. DeliveryIsNew'
  BY <1>0, <1>20, SMTT(20) DEF Held, Delivering, Publishing, NoTxn, DeliveryIsNew, NumbersFit,
     Used, Written
<1> QED
  BY <1>1, <1>2, <1>3, <1>4, <1>5, <1>6, <1>7, <1>8, <1>9, <1>10

LEMMA NewRunKeeps == ASSUME RewardInv, NewRun PROVE RewardInv'
<1> USE DEF RewardInv
<1>0. /\ thread.at = "play"
      /\ trade.phase = "none"
      /\ game'.got = {}
      /\ game'.gifts = 0
      /\ saves' = {}
      /\ barrier'.trade = 0
      /\ barrier'.gift = 0
      /\ pending'.phase = "none"
      /\ pending'.id = 0
      /\ receipts' = {}
      /\ ledger'.delivered = 0
      /\ UNCHANGED <<thread, results, trade, count>>
  BY SMTT(20) DEF NewRun, Playing, RewardTypeOK, Positions, Records, Trades, Ledgers, Counts,
     Games, Barriers, Saves, NoPending, NoTrade, PowerOn, Held, Delivering, Publishing, NoTxn,
     NumbersFit, RecordFits
<1>20. /\ count.txn \in Nat /\ count.files \in Nat /\ receipts \subseteq Nat
       /\ \A s \in saves : s.at \in Nat /\ s.name \in Nat /\ s.tags.trade \in Nat /\ s.tags.gift \in Nat
       /\ barrier.trade \in Nat /\ barrier.gift \in Nat /\ thread.id \in Nat /\ trade.id \in Nat
       /\ pending.id \in Nat /\ pending.trade \in Nat /\ trade.tags.gift \in Nat
  BY NumbersAre
<1>1. RewardTypeOK'
  <2>1. game' \in Games
    BY NoneTyped DEF NewRun
  <2>2. saves' \subseteq Saves
    BY DEF NewRun
  <2>3. barrier' \in Barriers
    BY NoneTyped DEF NewRun
  <2>4. pending' \in Records
    BY NoneTyped DEF NewRun
  <2>5. receipts' \subseteq Txn
    BY DEF NewRun
  <2>6. ledger' \in Ledgers
    BY DEF NewRun, Ledgers
  <2>7. UNCHANGED <<thread, results, trade, count>>
    BY DEF NewRun
  <2> QED
    BY <2>1, <2>2, <2>3, <2>4, <2>5, <2>6, <2>7 DEF RewardTypeOK
<1>2. RecordFits'
  BY <1>0, SMTT(20) DEF Held, Delivering, Publishing, NoTxn, RecordFits, Recoverable, Exact,
     Settled, GameFits, TradeFits, DeliveryIsNew, TradeIsNew
<1>3. TradeFits'
  BY <1>0, SMTT(20) DEF Held, Delivering, Publishing, NoTxn, TradeFits, TradeIsNew, RecordFits,
     GameFits, Exact, Settled
<1>4. GameFits'
  BY <1>0, SMTT(20) DEF Held, Delivering, Publishing, NoTxn, GameFits, Exact, Settled,
     SavesAreExact, NothingYet, SomeSave, RecordFits, TradeFits, TradeIsNew
<1>5. SavesAreExact'
  BY <1>0, SMTT(20) DEF Held, Delivering, Publishing, NoTxn, SavesAreExact, Admissible, Exact,
     Settled, RecordFits, TradeFits, GameFits, TradeIsNew, DeliveryIsNew, Written
<1>6. NothingYet'
  BY <1>0, SMTT(20) DEF Held, Delivering, Publishing, NoTxn, NothingYet, Settled, TradeFits,
     TradeIsNew, DeliveryIsNew, RecordFits
<1>7. SomeSave'
  BY <1>0, SMTT(20) DEF Held, Delivering, Publishing, NoTxn, SomeSave, Admissible, RecordFits,
     Recoverable, TradeFits, TradeIsNew, Written
<1>8. NumbersFit'
  BY <1>0, <1>20, SMTT(20) DEF Held, Delivering, Publishing, NoTxn, NumbersFit, Used,
     DeliveryIsNew, TradeIsNew, Written
<1>9. TradeIsNew'
  BY <1>0, <1>20, SMTT(20) DEF Held, Delivering, Publishing, NoTxn, TradeIsNew, NumbersFit,
     Used, RecordFits, Written
<1>10. DeliveryIsNew'
  BY <1>0, <1>20, SMTT(20) DEF Held, Delivering, Publishing, NoTxn, DeliveryIsNew, NumbersFit,
     Used, Written
<1> QED
  BY <1>1, <1>2, <1>3, <1>4, <1>5, <1>6, <1>7, <1>8, <1>9, <1>10

LEMMA DeliveryBeginsKeeps == ASSUME RewardInv, NEW kind \in Kinds, DeliveryBegins(kind) PROVE RewardInv'
<1> USE DEF RewardInv
<1>0. /\ thread.at = "play"
      /\ trade.phase \notin {"held", "committed", "applied"}
      /\ trade.phase = "none"
      /\ Written(NoTxn, TRUE, barrier, game) \in saves'
      /\ saves' \subseteq saves \cup {Written(NoTxn, TRUE, barrier, game)}
      /\ results' \subseteq results
      /\ pending.phase # "complete" /\ pending.id \in results => pending.id \in results'
      /\ thread'.at = "saved"
      /\ thread'.id = count.txn + 1
      /\ count'.txn = count.txn + 1
      /\ count.txn < N
      /\ count'.files = count.files + 1
      /\ UNCHANGED <<game, barrier, pending, trade, ledger, receipts>>
  <2>1. Autosaves
    BY DEF DeliveryBegins
  <2>2. /\ Written(NoTxn, TRUE, barrier, game) \in saves'
        /\ saves' \subseteq saves \cup {Written(NoTxn, TRUE, barrier, game)}
        /\ results' \subseteq results
        /\ pending.phase # "complete" /\ pending.id \in results => pending.id \in results'
    BY <2>1, AutosaveAdds
  <2>3. /\ thread.at = "play"
        /\ trade.phase \notin {"held", "committed", "applied"}
        /\ trade.phase = "none"
        /\ thread'.at = "saved"
        /\ thread'.id = count.txn + 1
        /\ count'.txn = count.txn + 1
        /\ count.txn < N
        /\ count'.files = count.files + 1
        /\ UNCHANGED <<game, barrier, pending, trade, ledger, receipts>>
    BY BoundsAssumption DEF DeliveryBegins, Playing, Held, RewardTypeOK, Counts, Positions,
       Trades
  <2> QED
    BY <2>2, <2>3
<1>20. /\ count.txn \in Nat /\ count.files \in Nat /\ receipts \subseteq Nat
       /\ \A s \in saves : s.at \in Nat /\ s.name \in Nat /\ s.tags.trade \in Nat /\ s.tags.gift \in Nat
       /\ barrier.trade \in Nat /\ barrier.gift \in Nat /\ thread.id \in Nat /\ trade.id \in Nat
       /\ pending.id \in Nat /\ pending.trade \in Nat /\ trade.tags.gift \in Nat
  BY NumbersAre
<1>1. RewardTypeOK'
  <2>1. saves' \subseteq Saves
    BY AutosaveAdds DEF DeliveryBegins
  <2>2. results' \subseteq Txn
    BY AutosaveAdds DEF DeliveryBegins, RewardTypeOK
  <2>3. thread' \in Positions
    BY BoundsAssumption DEF DeliveryBegins, RewardTypeOK, Positions, Counts, Places, Delivering,
       Publishing, Recovering
  <2>4. count' \in Counts
    <3>1. count \in Counts /\ count.txn + 1 \in 0 .. N /\ count.files + 1 \in Nat
      BY BoundsAssumption DEF DeliveryBegins, RewardTypeOK, Counts
    <3> QED
      BY <3>1 DEF DeliveryBegins, Counts
  <2>5. UNCHANGED <<game, barrier, pending, trade, ledger, receipts>>
    BY DEF DeliveryBegins
  <2> QED
    BY <2>1, <2>2, <2>3, <2>4, <2>5 DEF RewardTypeOK
<1>2. RecordFits'
  BY <1>0, SMTT(20) DEF Held, Delivering, Publishing, NoTxn, RecordFits, Recoverable, Exact,
     Settled, GameFits, TradeFits, DeliveryIsNew, TradeIsNew
<1>3. TradeFits'
  BY <1>0, SMTT(20) DEF Held, Delivering, Publishing, NoTxn, TradeFits, TradeIsNew, RecordFits,
     GameFits, Exact, Settled
<1>4. GameFits'
  BY <1>0, SMTT(20) DEF Held, Delivering, Publishing, NoTxn, GameFits, Exact, Settled,
     SavesAreExact, NothingYet, SomeSave, RecordFits, TradeFits, TradeIsNew
<1>5. SavesAreExact'
  BY <1>0, SMTT(20) DEF Held, Delivering, Publishing, NoTxn, SavesAreExact, Admissible, Exact,
     Settled, RecordFits, TradeFits, GameFits, TradeIsNew, DeliveryIsNew, Written
<1>6. NothingYet'
  BY <1>0, SMTT(20) DEF Held, Delivering, Publishing, NoTxn, NothingYet, Settled, TradeFits,
     TradeIsNew, DeliveryIsNew, RecordFits
<1>7. SomeSave'
  BY <1>0, SMTT(20) DEF Held, Delivering, Publishing, NoTxn, SomeSave, Admissible, RecordFits,
     Recoverable, TradeFits, TradeIsNew, Written
<1>8. NumbersFit'
  <2> DEFINE new == Written(NoTxn, TRUE, barrier, game)
  <2>1. /\ count'.txn = count.txn + 1 /\ count'.files = count.files + 1 /\ count.txn \in Nat /\ count.files \in Nat
        /\ saves' \subseteq saves \cup {new} /\ UNCHANGED <<barrier, pending, receipts, trade>>
    BY <1>0, <1>20
  <2>2. \A n \in Nat : Used(n) => Used(n)'
    BY <2>1 DEF Used
  <2>3. new.at = count.files + 1 /\ new.name = 0 /\ new.tags.trade = barrier.trade /\ new.tags.gift = barrier.gift
    BY DEF Written, NoTxn
  <2> HIDE DEF new
  <2>4. /\ Used(barrier.trade) /\ Used(barrier.gift) /\ Used(pending.id) /\ Used(trade.id)
        /\ barrier.trade \in Nat /\ barrier.gift \in Nat /\ pending.id \in Nat /\ trade.id \in Nat
        /\ \A n \in receipts : n \in Nat /\ Used(n)
    BY <1>20 DEF NumbersFit, Used
  <2>5. /\ Used(barrier.trade)' /\ Used(barrier.gift)' /\ Used(pending.id)' /\ Used(trade.id)'
        /\ \A n \in receipts' : Used(n)'
    BY <2>1, <2>4 DEF Used
  <2>6. \A s \in saves : /\ s.at <= count'.files
                        /\ Used(s.name)' /\ Used(s.tags.trade)' /\ Used(s.tags.gift)'
    BY <1>20, <2>1, <2>2 DEF NumbersFit
  <2>7. ASSUME NEW s, s = new
        PROVE  s.at <= count'.files /\ Used(s.name)' /\ Used(s.tags.trade)' /\ Used(s.tags.gift)'
    BY <2>1, <2>3, <2>4, <2>7 DEF Used
  <2>8. \A s \in saves' : /\ s.at <= count'.files
                         /\ Used(s.name)' /\ Used(s.tags.trade)' /\ Used(s.tags.gift)'
    BY <2>1, <2>6, <2>7
  <2> QED
    BY <2>5, <2>8 DEF NumbersFit
<1>9. TradeIsNew'
  BY <1>0, <1>20, SMTT(20) DEF Held, Delivering, Publishing, NoTxn, TradeIsNew, NumbersFit,
     Used, RecordFits, Written
<1>10. DeliveryIsNew'
  <2> DEFINE new == Written(NoTxn, TRUE, barrier, game)
  <2>1. thread'.id = count.txn + 1 /\ count'.txn = count.txn + 1 /\ count.txn < N /\ saves' \subseteq saves \cup {new}
    BY <1>0
  <2>2. \A n \in Nat : Used(n) => n # thread'.id
    BY <1>20, <2>1 DEF Used
  <2>3. new.tags.gift = barrier.gift
    BY DEF Written
  <2> HIDE DEF new
  <2>4. \A s \in saves' : s.tags.gift # thread'.id
    <3>1. barrier.gift # thread'.id
      <4>1. barrier.gift \in Nat /\ Used(barrier.gift)
        BY <1>20 DEF NumbersFit
      <4> QED
        BY <2>2, <4>1
    <3>2. \A s \in saves : s.tags.gift # thread'.id
      BY <1>20, <2>2 DEF NumbersFit
    <3> QED
      BY <2>1, <2>3, <3>1, <3>2
  <2>5. thread'.id \in Txn /\ Used(thread.id)'
    BY <1>20, <2>1, BoundsAssumption DEF Txn, Used
  <2> QED
    BY <2>4, <2>5 DEF DeliveryIsNew
<1> QED
  BY <1>1, <1>2, <1>3, <1>4, <1>5, <1>6, <1>7, <1>8, <1>9, <1>10

LEMMA DeliveryWritesKeeps == ASSUME RewardInv, DeliveryWrites PROVE RewardInv'
<1> USE DEF RewardInv
<1>0. /\ thread.at = "saved"
      /\ thread'.at = "written"
      /\ thread'.id = thread.id
      /\ results' = results \cup {thread.id}
      /\ UNCHANGED <<game, saves, barrier, pending, trade, ledger, receipts, count>>
  BY SMTT(20) DEF DeliveryWrites, Goes, RewardTypeOK, Positions, Records, Trades, Ledgers,
     Counts, Games, Barriers, Saves, NoPending, NoTrade, PowerOn, Held, Delivering, Publishing,
     NoTxn, NumbersFit, RecordFits
<1>20. /\ count.txn \in Nat /\ count.files \in Nat /\ receipts \subseteq Nat
       /\ \A s \in saves : s.at \in Nat /\ s.name \in Nat /\ s.tags.trade \in Nat /\ s.tags.gift \in Nat
       /\ barrier.trade \in Nat /\ barrier.gift \in Nat /\ thread.id \in Nat /\ trade.id \in Nat
       /\ pending.id \in Nat /\ pending.trade \in Nat /\ trade.tags.gift \in Nat
  BY NumbersAre
<1>1. RewardTypeOK'
  <2>1. thread' \in Positions
    BY DEF DeliveryWrites, Goes, RewardTypeOK, Positions, Places, Delivering, Publishing,
       Recovering
  <2>2. results' \subseteq Txn
    BY DEF DeliveryWrites, RewardTypeOK, DeliveryIsNew, Delivering
  <2>3. UNCHANGED <<game, saves, barrier, pending, trade, ledger, receipts, count>>
    BY DEF DeliveryWrites
  <2> QED
    BY <2>1, <2>2, <2>3 DEF RewardTypeOK
<1>2. RecordFits'
  BY <1>0, SMTT(20) DEF Held, Delivering, Publishing, NoTxn, RecordFits, Recoverable, Exact,
     Settled, GameFits, TradeFits, DeliveryIsNew, TradeIsNew
<1>3. TradeFits'
  BY <1>0, SMTT(20) DEF Held, Delivering, Publishing, NoTxn, TradeFits, TradeIsNew, RecordFits,
     GameFits, Exact, Settled
<1>4. GameFits'
  BY <1>0, SMTT(20) DEF Held, Delivering, Publishing, NoTxn, GameFits, Exact, Settled,
     SavesAreExact, NothingYet, SomeSave, RecordFits, TradeFits, TradeIsNew
<1>5. SavesAreExact'
  BY <1>0, SMTT(20) DEF Held, Delivering, Publishing, NoTxn, SavesAreExact, Admissible, Exact,
     Settled, RecordFits, TradeFits, GameFits, TradeIsNew, DeliveryIsNew, Written
<1>6. NothingYet'
  BY <1>0, SMTT(20) DEF Held, Delivering, Publishing, NoTxn, NothingYet, Settled, TradeFits,
     TradeIsNew, DeliveryIsNew, RecordFits
<1>7. SomeSave'
  BY <1>0, SMTT(20) DEF Held, Delivering, Publishing, NoTxn, SomeSave, Admissible, RecordFits,
     Recoverable, TradeFits, TradeIsNew, Written
<1>8. NumbersFit'
  BY <1>0, <1>20, SMTT(20) DEF Held, Delivering, Publishing, NoTxn, NumbersFit, Used,
     DeliveryIsNew, TradeIsNew, Written
<1>9. TradeIsNew'
  BY <1>0, <1>20, SMTT(20) DEF Held, Delivering, Publishing, NoTxn, TradeIsNew, NumbersFit,
     Used, RecordFits, Written
<1>10. DeliveryIsNew'
  BY <1>0, <1>20, SMTT(20) DEF Held, Delivering, Publishing, NoTxn, DeliveryIsNew, NumbersFit,
     Used, Written
<1> QED
  BY <1>1, <1>2, <1>3, <1>4, <1>5, <1>6, <1>7, <1>8, <1>9, <1>10

LEMMA DeliveryStagesKeeps == ASSUME RewardInv, DeliveryStages PROVE RewardInv'
<1> USE DEF RewardInv
<1>0. /\ thread.at = "written"
      /\ thread'.at = "staged"
      /\ thread'.id = thread.id
      /\ pending'.phase = "staged"
      /\ pending'.id = thread.id
      /\ pending'.trade = barrier.trade
      /\ pending'.state.got = game.got \cup {thread.id}
      /\ pending'.state.gifts = IF thread.kind = "league" THEN game.gifts + 1 ELSE game.gifts
      /\ UNCHANGED <<game, saves, barrier, results, trade, ledger, receipts, count>>
  BY SMTT(20) DEF DeliveryStages, Goes, Record, Larger, RewardTypeOK, Positions, Records,
     Trades, Ledgers, Counts, Games, Barriers, Saves, NoPending, NoTrade, PowerOn, Held,
     Delivering, Publishing, NoTxn, NumbersFit, RecordFits
<1>20. /\ count.txn \in Nat /\ count.files \in Nat /\ receipts \subseteq Nat
       /\ \A s \in saves : s.at \in Nat /\ s.name \in Nat /\ s.tags.trade \in Nat /\ s.tags.gift \in Nat
       /\ barrier.trade \in Nat /\ barrier.gift \in Nat /\ thread.id \in Nat /\ trade.id \in Nat
       /\ pending.id \in Nat /\ pending.trade \in Nat /\ trade.tags.gift \in Nat
  BY NumbersAre
<1>1. RewardTypeOK'
  <2>1. thread' \in Positions
    BY DEF DeliveryStages, Goes, RewardTypeOK, Positions, Places, Delivering, Publishing,
       Recovering
  <2>2. pending' \in Records
    <3>1. Record("staged") \in Records
      BY DEF RewardTypeOK, Record, Records, Positions, Barriers, Games, Ledgers, Larger,
         DeliveryIsNew, Delivering, DeliveryStages
    <3> QED
      BY <3>1 DEF DeliveryStages
  <2>3. UNCHANGED <<game, saves, barrier, results, trade, ledger, receipts, count>>
    BY DEF DeliveryStages
  <2> QED
    BY <2>1, <2>2, <2>3 DEF RewardTypeOK
<1>2. RecordFits'
  BY <1>0, SMTT(20) DEF Held, Delivering, Publishing, NoTxn, RecordFits, Recoverable, Exact,
     Settled, GameFits, TradeFits, DeliveryIsNew, TradeIsNew
<1>3. TradeFits'
  BY <1>0, SMTT(20) DEF Held, Delivering, Publishing, NoTxn, TradeFits, TradeIsNew, RecordFits,
     GameFits, Exact, Settled
<1>4. GameFits'
  BY <1>0, SMTT(20) DEF Held, Delivering, Publishing, NoTxn, GameFits, Exact, Settled,
     SavesAreExact, NothingYet, SomeSave, RecordFits, TradeFits, TradeIsNew
<1>5. SavesAreExact'
  BY <1>0, SMTT(20) DEF Held, Delivering, Publishing, NoTxn, SavesAreExact, Admissible, Exact,
     Settled, RecordFits, TradeFits, GameFits, TradeIsNew, DeliveryIsNew, Written
<1>6. NothingYet'
  BY <1>0, SMTT(20) DEF Held, Delivering, Publishing, NoTxn, NothingYet, Settled, TradeFits,
     TradeIsNew, DeliveryIsNew, RecordFits
<1>7. SomeSave'
  BY <1>0, SMTT(20) DEF Held, Delivering, Publishing, NoTxn, SomeSave, Admissible, RecordFits,
     Recoverable, TradeFits, TradeIsNew, Written
<1>8. NumbersFit'
  <2>1. Used(thread.id)
    BY <1>0 DEF DeliveryIsNew, Delivering
  <2> QED
    BY <1>0, <2>1 DEF NumbersFit, Used
<1>9. TradeIsNew'
  BY <1>0, <1>20, SMTT(20) DEF Held, Delivering, Publishing, NoTxn, TradeIsNew, NumbersFit,
     Used, RecordFits, Written
<1>10. DeliveryIsNew'
  BY <1>0, <1>20, SMTT(20) DEF Held, Delivering, Publishing, NoTxn, DeliveryIsNew, NumbersFit,
     Used, Written
<1> QED
  BY <1>1, <1>2, <1>3, <1>4, <1>5, <1>6, <1>7, <1>8, <1>9, <1>10

LEMMA DeliveryCommitsKeeps == ASSUME RewardInv, DeliveryCommits PROVE RewardInv'
<1> USE DEF RewardInv
<1>0. /\ thread.at \in {"written", "staged"}
      /\ thread'.at = "committed"
      /\ thread'.id = thread.id
      /\ pending'.phase = "committed"
      /\ pending'.id = thread.id
      /\ pending'.trade = barrier.trade
      /\ pending'.state.got = game.got \cup {thread.id}
      /\ pending'.state.gifts = IF thread.kind = "league" THEN game.gifts + 1 ELSE game.gifts
      /\ ledger'.delivered = IF thread.kind = "league" THEN ledger.delivered + 1 ELSE ledger.delivered
      /\ barrier'.gift = thread.id
      /\ barrier'.trade = barrier.trade
      /\ receipts' = receipts \cup {thread.id}
      /\ UNCHANGED <<game, saves, results, trade, count>>
  BY SMTT(20) DEF DeliveryCommits, Goes, Record, Larger, Chosen, RewardTypeOK, Positions,
     Records, Trades, Ledgers, Counts, Games, Barriers, Saves, NoPending, NoTrade, PowerOn,
     Held, Delivering, Publishing, NoTxn, NumbersFit, RecordFits
<1>20. /\ count.txn \in Nat /\ count.files \in Nat /\ receipts \subseteq Nat
       /\ \A s \in saves : s.at \in Nat /\ s.name \in Nat /\ s.tags.trade \in Nat /\ s.tags.gift \in Nat
       /\ barrier.trade \in Nat /\ barrier.gift \in Nat /\ thread.id \in Nat /\ trade.id \in Nat
       /\ pending.id \in Nat /\ pending.trade \in Nat /\ trade.tags.gift \in Nat
  BY NumbersAre
<1>1. RewardTypeOK'
  <2>1. thread' \in Positions
    BY DEF DeliveryCommits, Goes, RewardTypeOK, Positions, Places, Delivering, Publishing,
       Recovering
  <2>2. pending' \in Records
    <3>1. Record("committed") \in Records
      BY DEF RewardTypeOK, Record, Records, Positions, Barriers, Games, Ledgers, Larger,
         DeliveryIsNew, Delivering, DeliveryCommits
    <3> QED
      BY <3>1 DEF DeliveryCommits
  <2>3. ledger' \in Ledgers
    BY DEF DeliveryCommits, RewardTypeOK, Ledgers
  <2>4. barrier' \in Barriers
    BY DEF DeliveryCommits, RewardTypeOK, Barriers, Positions
  <2>5. receipts' \subseteq Txn
    BY DEF DeliveryCommits, RewardTypeOK, DeliveryIsNew, Delivering
  <2>6. UNCHANGED <<game, saves, results, trade, count>>
    BY DEF DeliveryCommits
  <2> QED
    BY <2>1, <2>2, <2>3, <2>4, <2>5, <2>6 DEF RewardTypeOK
<1>2. RecordFits'
  BY <1>0, SMTT(20) DEF Held, Delivering, Publishing, NoTxn, RecordFits, Recoverable, Exact,
     Settled, GameFits, TradeFits, DeliveryIsNew, TradeIsNew
<1>3. TradeFits'
  BY <1>0, SMTT(20) DEF Held, Delivering, Publishing, NoTxn, TradeFits, TradeIsNew, RecordFits,
     GameFits, Exact, Settled
<1>4. GameFits'
  BY <1>0, SMTT(20) DEF Held, Delivering, Publishing, NoTxn, GameFits, Exact, Settled,
     SavesAreExact, NothingYet, SomeSave, RecordFits, TradeFits, TradeIsNew
<1>5. SavesAreExact'
  <2>1. thread.id # 0 /\ \A s \in saves : s.tags.gift # thread.id
    BY <1>0 DEF DeliveryIsNew, Delivering, Txn
  <2> QED
    BY <1>0, <2>1 DEF SavesAreExact, Admissible, NoTxn
<1>6. NothingYet'
  <2>1. thread.id # 0
    BY <1>0 DEF DeliveryIsNew, Delivering, Txn
  <2> QED
    BY <1>0, <2>1 DEF NothingYet
<1>7. SomeSave'
  BY <1>0, SMTT(20) DEF Held, Delivering, Publishing, NoTxn, SomeSave, Admissible, RecordFits,
     Recoverable, TradeFits, TradeIsNew, Written
<1>8. NumbersFit'
  <2>1. Used(thread.id)
    BY <1>0 DEF DeliveryIsNew, Delivering
  <2> QED
    BY <1>0, <2>1 DEF NumbersFit, Used
<1>9. TradeIsNew'
  BY <1>0, <1>20, SMTT(20) DEF Held, Delivering, Publishing, NoTxn, TradeIsNew, NumbersFit,
     Used, RecordFits, Written
<1>10. DeliveryIsNew'
  BY <1>0, <1>20, SMTT(20) DEF Held, Delivering, Publishing, NoTxn, DeliveryIsNew, NumbersFit,
     Used, Written
<1> QED
  BY <1>1, <1>2, <1>3, <1>4, <1>5, <1>6, <1>7, <1>8, <1>9, <1>10

LEMMA DeliveryPublishesKeeps == ASSUME RewardInv, DeliveryPublishes PROVE RewardInv'
<1> USE DEF RewardInv
<1>0. /\ thread'.id = thread.id
      /\ count'.txn = count.txn
      /\ results' = results
      /\ \/ /\ thread.at = "committed" /\ thread'.at = "bare" /\ pending' = pending /\ count'.files = count.files + 1
            /\ saves' = {s \in saves : s.name # pending.id} \cup {Written(pending.id, FALSE, [trade |-> pending.trade, gift |-> pending.id], pending.state)}
         \/ /\ thread.at = "bare" /\ thread'.at = "whole" /\ pending' = pending /\ count'.files = count.files + 1
            /\ saves' = {s \in saves : s.name # pending.id} \cup {Written(pending.id, TRUE, [trade |-> pending.trade, gift |-> pending.id], pending.state)}
         \/ /\ thread.at = "whole" /\ thread'.at = "complete" /\ UNCHANGED <<saves, count>>
            /\ pending'.phase = "complete" /\ pending'.id = pending.id /\ pending'.trade = pending.trade /\ pending'.state = pending.state
      /\ UNCHANGED <<game, barrier, results, trade, ledger, receipts>>
  <2>0. UNCHANGED <<game, barrier, results, trade, ledger, receipts>>
    BY DEF DeliveryPublishes
  <2>1. CASE thread.at = "committed" /\ Goes("bare") /\ File(FALSE) /\ UNCHANGED pending
    <3>1. thread'.at = "bare" /\ thread'.id = thread.id
      BY <2>1 DEF Goes, RewardTypeOK, Positions
    <3>2. /\ count'.txn = count.txn /\ count'.files = count.files + 1
          /\ saves' = {s \in saves : s.name # pending.id}
                         \cup {Written(pending.id, FALSE, [trade |-> pending.trade, gift |-> pending.id], pending.state)}
      BY <2>1 DEF File, RewardTypeOK, Counts
    <3> QED
      BY <2>0, <2>1, <3>1, <3>2
  <2>2. CASE thread.at = "bare" /\ Goes("whole") /\ File(TRUE) /\ UNCHANGED pending
    <3>1. thread'.at = "whole" /\ thread'.id = thread.id
      BY <2>2 DEF Goes, RewardTypeOK, Positions
    <3>2. /\ count'.txn = count.txn /\ count'.files = count.files + 1
          /\ saves' = {s \in saves : s.name # pending.id}
                         \cup {Written(pending.id, TRUE, [trade |-> pending.trade, gift |-> pending.id], pending.state)}
      BY <2>2 DEF File, RewardTypeOK, Counts
    <3> QED
      BY <2>0, <2>2, <3>1, <3>2
  <2>3. CASE /\ thread.at = "whole" /\ Goes("complete")
             /\ pending' = [pending EXCEPT !.phase = "complete"] /\ UNCHANGED <<saves, count>>
    <3>1. thread'.at = "complete" /\ thread'.id = thread.id
      BY <2>3 DEF Goes, RewardTypeOK, Positions
    <3>2. /\ pending'.phase = "complete" /\ pending'.id = pending.id
          /\ pending'.trade = pending.trade /\ pending'.state = pending.state
      BY <2>3 DEF RewardTypeOK, Records
    <3> QED
      BY <2>0, <2>3, <3>1, <3>2
  <2> QED
    BY <2>1, <2>2, <2>3 DEF DeliveryPublishes, Publishes
<1>21. /\ thread'.id = thread.id
       /\ count'.txn = count.txn
       /\ results' = results
       /\ UNCHANGED <<game, barrier, results, trade, ledger, receipts>>
  BY <1>0
<1>22. \/ /\ thread.at = "committed" /\ thread'.at = "bare" /\ pending' = pending /\ count'.files = count.files + 1
          /\ saves' = {s \in saves : s.name # pending.id} \cup {Written(pending.id, FALSE, [trade |-> pending.trade, gift |-> pending.id], pending.state)}
       \/ /\ thread.at = "bare" /\ thread'.at = "whole" /\ pending' = pending /\ count'.files = count.files + 1
          /\ saves' = {s \in saves : s.name # pending.id} \cup {Written(pending.id, TRUE, [trade |-> pending.trade, gift |-> pending.id], pending.state)}
       \/ /\ thread.at = "whole" /\ thread'.at = "complete" /\ UNCHANGED <<saves, count>>
          /\ pending'.phase = "complete" /\ pending'.id = pending.id /\ pending'.trade = pending.trade /\ pending'.state = pending.state
  BY <1>0
<1>20. /\ count.txn \in Nat /\ count.files \in Nat /\ receipts \subseteq Nat
       /\ \A s \in saves : s.at \in Nat /\ s.name \in Nat /\ s.tags.trade \in Nat /\ s.tags.gift \in Nat
       /\ barrier.trade \in Nat /\ barrier.gift \in Nat /\ thread.id \in Nat /\ trade.id \in Nat
       /\ pending.id \in Nat /\ pending.trade \in Nat /\ trade.tags.gift \in Nat
  BY NumbersAre
<1>1. RewardTypeOK'
  <2>1. thread' \in Positions
    BY DEF DeliveryPublishes, Publishes, Goes, RewardTypeOK, Positions, Places, Delivering,
       Publishing, Recovering
  <2>2. saves' \subseteq Saves
    BY FileTyped DEF DeliveryPublishes, Publishes, RewardTypeOK
  <2>3. count' \in Counts
    BY FileTyped DEF DeliveryPublishes, Publishes, RewardTypeOK
  <2>4. pending' \in Records
    BY DEF DeliveryPublishes, Publishes, RewardTypeOK, Records
  <2>5. UNCHANGED <<game, barrier, results, trade, ledger, receipts>>
    BY DEF DeliveryPublishes
  <2> QED
    BY <2>1, <2>2, <2>3, <2>4, <2>5 DEF RewardTypeOK
<1>2. RecordFits'
  <2>1. CASE /\ thread.at = "committed" /\ thread'.at = "bare" /\ pending' = pending /\ count'.files = count.files + 1
             /\ saves' = {s \in saves : s.name # pending.id} \cup {Written(pending.id, FALSE, [trade |-> pending.trade, gift |-> pending.id], pending.state)}
    BY <1>21, <2>1, SMTT(20) DEF Held, Delivering, Publishing, NoTxn, RecordFits, Recoverable,
       Exact, Settled, GameFits, TradeFits, DeliveryIsNew, TradeIsNew
  <2>2. CASE /\ thread.at = "bare" /\ thread'.at = "whole" /\ pending' = pending /\ count'.files = count.files + 1
             /\ saves' = {s \in saves : s.name # pending.id} \cup {Written(pending.id, TRUE, [trade |-> pending.trade, gift |-> pending.id], pending.state)}
    BY <1>21, <2>2, SMTT(20) DEF Held, Delivering, Publishing, NoTxn, RecordFits, Recoverable,
       Exact, Settled, GameFits, TradeFits, DeliveryIsNew, TradeIsNew
  <2>3. CASE /\ thread.at = "whole" /\ thread'.at = "complete" /\ UNCHANGED <<saves, count>>
             /\ pending'.phase = "complete" /\ pending'.id = pending.id /\ pending'.trade = pending.trade /\ pending'.state = pending.state
    BY <1>21, <2>3, SMTT(20) DEF Held, Delivering, Publishing, NoTxn, RecordFits, Recoverable,
       Exact, Settled, GameFits, TradeFits, DeliveryIsNew, TradeIsNew
  <2> QED
    BY <1>22, <2>1, <2>2, <2>3
<1>3. TradeFits'
  BY <1>0, SMTT(20) DEF Held, Delivering, Publishing, NoTxn, TradeFits, TradeIsNew, RecordFits,
     GameFits, Exact, Settled
<1>4. GameFits'
  <2>1. CASE /\ thread.at = "committed" /\ thread'.at = "bare" /\ pending' = pending /\ count'.files = count.files + 1
             /\ saves' = {s \in saves : s.name # pending.id} \cup {Written(pending.id, FALSE, [trade |-> pending.trade, gift |-> pending.id], pending.state)}
    BY <1>21, <2>1, SMTT(20) DEF Held, Delivering, Publishing, NoTxn, GameFits, Exact, Settled,
       SavesAreExact, NothingYet, SomeSave, RecordFits, TradeFits, TradeIsNew
  <2>2. CASE /\ thread.at = "bare" /\ thread'.at = "whole" /\ pending' = pending /\ count'.files = count.files + 1
             /\ saves' = {s \in saves : s.name # pending.id} \cup {Written(pending.id, TRUE, [trade |-> pending.trade, gift |-> pending.id], pending.state)}
    BY <1>21, <2>2, SMTT(20) DEF Held, Delivering, Publishing, NoTxn, GameFits, Exact, Settled,
       SavesAreExact, NothingYet, SomeSave, RecordFits, TradeFits, TradeIsNew
  <2>3. CASE /\ thread.at = "whole" /\ thread'.at = "complete" /\ UNCHANGED <<saves, count>>
             /\ pending'.phase = "complete" /\ pending'.id = pending.id /\ pending'.trade = pending.trade /\ pending'.state = pending.state
    BY <1>21, <2>3, SMTT(20) DEF Held, Delivering, Publishing, NoTxn, GameFits, Exact, Settled,
       SavesAreExact, NothingYet, SomeSave, RecordFits, TradeFits, TradeIsNew
  <2> QED
    BY <1>22, <2>1, <2>2, <2>3
<1>5. SavesAreExact'
  BY <1>0, SMTT(20) DEF Held, Delivering, Publishing, NoTxn, SavesAreExact, Admissible, Exact,
     Settled, RecordFits, TradeFits, GameFits, TradeIsNew, DeliveryIsNew, Written
<1>6. NothingYet'
  BY <1>0, SMTT(20) DEF Held, Delivering, Publishing, NoTxn, NothingYet, Settled, TradeFits,
     TradeIsNew, DeliveryIsNew, RecordFits
<1>7. SomeSave'
  <2>1. CASE /\ thread.at = "committed" /\ thread'.at = "bare" /\ pending' = pending /\ count'.files = count.files + 1
             /\ saves' = {s \in saves : s.name # pending.id} \cup {Written(pending.id, FALSE, [trade |-> pending.trade, gift |-> pending.id], pending.state)}
    BY <1>21, <2>1, SMTT(20) DEF Held, Delivering, Publishing, NoTxn, SomeSave, Admissible,
       RecordFits, Recoverable, TradeFits, TradeIsNew, Written
  <2>2. CASE /\ thread.at = "bare" /\ thread'.at = "whole" /\ pending' = pending /\ count'.files = count.files + 1
             /\ saves' = {s \in saves : s.name # pending.id} \cup {Written(pending.id, TRUE, [trade |-> pending.trade, gift |-> pending.id], pending.state)}
    <3> DEFINE new == Written(pending.id, TRUE, [trade |-> pending.trade, gift |-> pending.id], pending.state)
    <3>1. barrier.gift = pending.id /\ barrier.trade = pending.trade
      BY <1>21, <2>2 DEF RecordFits, Recoverable
    <3>2. /\ new \in saves' /\ new.whole /\ new.tags.trade = pending.trade /\ new.tags.gift = pending.id
      BY <2>2 DEF Written
    <3>3. barrier'.trade = pending.trade /\ barrier'.gift = pending.id
      BY <1>21, <2>2, <3>1
    <3> HIDE DEF new
    <3> QED
      BY <3>2, <3>3 DEF SomeSave, Admissible
  <2>3. CASE /\ thread.at = "whole" /\ thread'.at = "complete" /\ UNCHANGED <<saves, count>>
             /\ pending'.phase = "complete" /\ pending'.id = pending.id /\ pending'.trade = pending.trade /\ pending'.state = pending.state
    BY <1>21, <2>3, SMTT(20) DEF Held, Delivering, Publishing, NoTxn, SomeSave, Admissible,
       RecordFits, Recoverable, TradeFits, TradeIsNew, Written
  <2> QED
    BY <1>22, <2>1, <2>2, <2>3
<1>8. NumbersFit'
  <2>1. CASE /\ thread.at = "committed" /\ thread'.at = "bare" /\ pending' = pending /\ count'.files = count.files + 1
             /\ saves' = {s \in saves : s.name # pending.id} \cup {Written(pending.id, FALSE, [trade |-> pending.trade, gift |-> pending.id], pending.state)}
    <3> DEFINE new == Written(pending.id, FALSE, [trade |-> pending.trade, gift |-> pending.id], pending.state)
    <3>1. barrier.trade = pending.trade
      BY <1>21, <2>1 DEF RecordFits, Recoverable
    <3>2. new.at = count.files + 1 /\ new.name = pending.id /\ new.tags.trade = pending.trade /\ new.tags.gift = pending.id
      BY DEF Written
    <3>3. \A s \in saves' : s \in saves \/ s = new
      BY <2>1
    <3>4. /\ UNCHANGED <<receipts>> /\ count'.txn = count.txn /\ count'.files = count.files + 1 /\ count.files \in Nat
          /\ UNCHANGED <<barrier, trade, pending>>
      BY <1>20, <1>21, <2>1
    <3> HIDE DEF new
    <3>5. ASSUME NEW s \in saves PROVE s.at <= count'.files /\ s.at \in Nat
      BY <1>20, <3>4 DEF NumbersFit
    <3>6. new.at <= count'.files
      BY <3>2, <3>4
    <3>7. \A s \in saves' : s.at <= count'.files
      BY <3>3, <3>5, <3>6
    <3>8. \A n : Used(n)' <=> Used(n)
      BY <3>4 DEF Used
    <3> QED
      BY <3>1, <3>2, <3>3, <3>4, <3>7, <3>8 DEF NumbersFit
  <2>2. CASE /\ thread.at = "bare" /\ thread'.at = "whole" /\ pending' = pending /\ count'.files = count.files + 1
             /\ saves' = {s \in saves : s.name # pending.id} \cup {Written(pending.id, TRUE, [trade |-> pending.trade, gift |-> pending.id], pending.state)}
    <3> DEFINE new == Written(pending.id, TRUE, [trade |-> pending.trade, gift |-> pending.id], pending.state)
    <3>1. barrier.trade = pending.trade
      BY <1>21, <2>2 DEF RecordFits, Recoverable
    <3>2. new.at = count.files + 1 /\ new.name = pending.id /\ new.tags.trade = pending.trade /\ new.tags.gift = pending.id
      BY DEF Written
    <3>3. \A s \in saves' : s \in saves \/ s = new
      BY <2>2
    <3>4. /\ UNCHANGED <<receipts>> /\ count'.txn = count.txn /\ count'.files = count.files + 1 /\ count.files \in Nat
          /\ UNCHANGED <<barrier, trade, pending>>
      BY <1>20, <1>21, <2>2
    <3> HIDE DEF new
    <3>5. ASSUME NEW s \in saves PROVE s.at <= count'.files /\ s.at \in Nat
      BY <1>20, <3>4 DEF NumbersFit
    <3>6. new.at <= count'.files
      BY <3>2, <3>4
    <3>7. \A s \in saves' : s.at <= count'.files
      BY <3>3, <3>5, <3>6
    <3>8. \A n : Used(n)' <=> Used(n)
      BY <3>4 DEF Used
    <3> QED
      BY <3>1, <3>2, <3>3, <3>4, <3>7, <3>8 DEF NumbersFit
  <2>3. CASE /\ thread.at = "whole" /\ thread'.at = "complete" /\ UNCHANGED <<saves, count>>
             /\ pending'.phase = "complete" /\ pending'.id = pending.id /\ pending'.trade = pending.trade /\ pending'.state = pending.state
    BY <1>21, <2>3, <1>20, SMTT(20) DEF Held, Delivering, Publishing, NoTxn, NumbersFit, Used,
       DeliveryIsNew, TradeIsNew, Written
  <2> QED
    BY <1>22, <2>1, <2>2, <2>3
<1>9. TradeIsNew'
  BY <1>0, <1>20, SMTT(20) DEF Held, Delivering, Publishing, NoTxn, TradeIsNew, NumbersFit,
     Used, RecordFits, Written
<1>10. DeliveryIsNew'
  BY <1>0, <1>20, SMTT(20) DEF Held, Delivering, Publishing, NoTxn, DeliveryIsNew, NumbersFit,
     Used, Written
<1> QED
  BY <1>1, <1>2, <1>3, <1>4, <1>5, <1>6, <1>7, <1>8, <1>9, <1>10

LEMMA DeliveryLoadsKeeps == ASSUME RewardInv, DeliveryLoads PROVE RewardInv'
<1> USE DEF RewardInv
<1>0. /\ thread.at = "complete"
      /\ thread'.at = "play"
      /\ game'.got = pending.state.got
      /\ game'.gifts = pending.state.gifts
      /\ UNCHANGED <<saves, barrier, pending, results, trade, ledger, receipts, count>>
  BY SMTT(20) DEF DeliveryLoads, Rests, Loads, Larger, RewardTypeOK, Positions, Records, Trades,
     Ledgers, Counts, Games, Barriers, Saves, NoPending, NoTrade, PowerOn, Held, Delivering,
     Publishing, NoTxn, NumbersFit, RecordFits
<1>20. /\ count.txn \in Nat /\ count.files \in Nat /\ receipts \subseteq Nat
       /\ \A s \in saves : s.at \in Nat /\ s.name \in Nat /\ s.tags.trade \in Nat /\ s.tags.gift \in Nat
       /\ barrier.trade \in Nat /\ barrier.gift \in Nat /\ thread.id \in Nat /\ trade.id \in Nat
       /\ pending.id \in Nat /\ pending.trade \in Nat /\ trade.tags.gift \in Nat
  BY NumbersAre
<1>1. RewardTypeOK'
  <2>1. thread' \in Positions
    BY RestTyped DEF DeliveryLoads
  <2>2. game' \in Games
    BY LoadTyped DEF DeliveryLoads, RewardTypeOK, Records
  <2>3. UNCHANGED <<saves, barrier, pending, results, trade, ledger, receipts, count>>
    BY DEF DeliveryLoads
  <2> QED
    BY <2>1, <2>2, <2>3 DEF RewardTypeOK
<1>2. RecordFits'
  BY <1>0, SMTT(20) DEF Held, Delivering, Publishing, NoTxn, RecordFits, Recoverable, Exact,
     Settled, GameFits, TradeFits, DeliveryIsNew, TradeIsNew
<1>3. TradeFits'
  BY <1>0, SMTT(20) DEF Held, Delivering, Publishing, NoTxn, TradeFits, TradeIsNew, RecordFits,
     GameFits, Exact, Settled
<1>4. GameFits'
  BY <1>0, SMTT(20) DEF Held, Delivering, Publishing, NoTxn, GameFits, Exact, Settled,
     SavesAreExact, NothingYet, SomeSave, RecordFits, TradeFits, TradeIsNew
<1>5. SavesAreExact'
  BY <1>0, SMTT(20) DEF Held, Delivering, Publishing, NoTxn, SavesAreExact, Admissible, Exact,
     Settled, RecordFits, TradeFits, GameFits, TradeIsNew, DeliveryIsNew, Written
<1>6. NothingYet'
  BY <1>0, SMTT(20) DEF Held, Delivering, Publishing, NoTxn, NothingYet, Settled, TradeFits,
     TradeIsNew, DeliveryIsNew, RecordFits
<1>7. SomeSave'
  BY <1>0, SMTT(20) DEF Held, Delivering, Publishing, NoTxn, SomeSave, Admissible, RecordFits,
     Recoverable, TradeFits, TradeIsNew, Written
<1>8. NumbersFit'
  BY <1>0, <1>20, SMTT(20) DEF Held, Delivering, Publishing, NoTxn, NumbersFit, Used,
     DeliveryIsNew, TradeIsNew, Written
<1>9. TradeIsNew'
  BY <1>0, <1>20, SMTT(20) DEF Held, Delivering, Publishing, NoTxn, TradeIsNew, NumbersFit,
     Used, RecordFits, Written
<1>10. DeliveryIsNew'
  BY <1>0, <1>20, SMTT(20) DEF Held, Delivering, Publishing, NoTxn, DeliveryIsNew, NumbersFit,
     Used, Written
<1> QED
  BY <1>1, <1>2, <1>3, <1>4, <1>5, <1>6, <1>7, <1>8, <1>9, <1>10

LEMMA DeliveryFailsKeeps == ASSUME RewardInv, DeliveryFails PROVE RewardInv'
<1> USE DEF RewardInv
<1>0. /\ \/ thread.at \in Delivering /\ thread'.at = "play"
         \/ thread.at \in Publishing /\ thread'.at = "fatal"
      /\ count'.txn = count.txn
      /\ count'.files = count.files
      /\ UNCHANGED <<game, saves, barrier, pending, results, trade, ledger, receipts>>
  <2>1. count'.txn = count.txn /\ count'.files = count.files
    BY DEF DeliveryFails, Faulty, RewardTypeOK, Counts
  <2>2. \/ thread.at \in Delivering /\ thread'.at = "play"
        \/ thread.at \in Publishing /\ thread'.at = "fatal"
    BY DEF DeliveryFails, Goes, Rests, RewardTypeOK, Positions
  <2> QED
    BY <2>1, <2>2 DEF DeliveryFails
<1>21. /\ count'.txn = count.txn
       /\ count'.files = count.files
       /\ UNCHANGED <<game, saves, barrier, pending, results, trade, ledger, receipts>>
  BY <1>0
<1>22. \/ thread.at \in Delivering /\ thread'.at = "play"
       \/ thread.at \in Publishing /\ thread'.at = "fatal"
  BY <1>0
<1>20. /\ count.txn \in Nat /\ count.files \in Nat /\ receipts \subseteq Nat
       /\ \A s \in saves : s.at \in Nat /\ s.name \in Nat /\ s.tags.trade \in Nat /\ s.tags.gift \in Nat
       /\ barrier.trade \in Nat /\ barrier.gift \in Nat /\ thread.id \in Nat /\ trade.id \in Nat
       /\ pending.id \in Nat /\ pending.trade \in Nat /\ trade.tags.gift \in Nat
  BY NumbersAre
<1>1. RewardTypeOK'
  <2>1. thread' \in Positions
    BY RestTyped DEF DeliveryFails, Goes, RewardTypeOK, Positions, Places
  <2>2. count' \in Counts
    BY BoundsAssumption DEF DeliveryFails, Faulty, RewardTypeOK, Counts
  <2>3. UNCHANGED <<game, saves, barrier, pending, results, trade, ledger, receipts>>
    BY DEF DeliveryFails
  <2> QED
    BY <2>1, <2>2, <2>3 DEF RewardTypeOK
<1>2. RecordFits'
  BY <1>0, SMTT(20) DEF Held, Delivering, Publishing, NoTxn, RecordFits, Recoverable, Exact,
     Settled, GameFits, TradeFits, DeliveryIsNew, TradeIsNew
<1>3. TradeFits'
  BY <1>0, SMTT(20) DEF Held, Delivering, Publishing, NoTxn, TradeFits, TradeIsNew, RecordFits,
     GameFits, Exact, Settled
<1>4. GameFits'
  BY <1>0, SMTT(20) DEF Held, Delivering, Publishing, NoTxn, GameFits, Exact, Settled,
     SavesAreExact, NothingYet, SomeSave, RecordFits, TradeFits, TradeIsNew
<1>5. SavesAreExact'
  BY <1>0, SMTT(20) DEF Held, Delivering, Publishing, NoTxn, SavesAreExact, Admissible, Exact,
     Settled, RecordFits, TradeFits, GameFits, TradeIsNew, DeliveryIsNew, Written
<1>6. NothingYet'
  BY <1>0, SMTT(20) DEF Held, Delivering, Publishing, NoTxn, NothingYet, Settled, TradeFits,
     TradeIsNew, DeliveryIsNew, RecordFits
<1>7. SomeSave'
  BY <1>0, SMTT(20) DEF Held, Delivering, Publishing, NoTxn, SomeSave, Admissible, RecordFits,
     Recoverable, TradeFits, TradeIsNew, Written
<1>8. NumbersFit'
  <2>1. CASE thread.at \in Delivering /\ thread'.at = "play"
    BY <1>21, <2>1, <1>20, SMTT(20) DEF Held, Delivering, Publishing, NoTxn, NumbersFit, Used,
       DeliveryIsNew, TradeIsNew, Written
  <2>2. CASE thread.at \in Publishing /\ thread'.at = "fatal"
    BY <1>21, <2>2, <1>20, SMTT(20) DEF Held, Delivering, Publishing, NoTxn, NumbersFit, Used,
       DeliveryIsNew, TradeIsNew, Written
  <2> QED
    BY <1>22, <2>1, <2>2
<1>9. TradeIsNew'
  BY <1>0, <1>20, SMTT(20) DEF Held, Delivering, Publishing, NoTxn, TradeIsNew, NumbersFit,
     Used, RecordFits, Written
<1>10. DeliveryIsNew'
  BY <1>0, <1>20, SMTT(20) DEF Held, Delivering, Publishing, NoTxn, DeliveryIsNew, NumbersFit,
     Used, Written
<1> QED
  BY <1>1, <1>2, <1>3, <1>4, <1>5, <1>6, <1>7, <1>8, <1>9, <1>10

LEMMA TradeBeginsKeeps == ASSUME RewardInv, TradeBegins PROVE RewardInv'
<1> USE DEF RewardInv
<1>0. /\ thread.at = "play"
      /\ trade.phase = "none"
      /\ trade'.phase = "travelling"
      /\ trade'.id = count.txn + 1
      /\ count'.txn = count.txn + 1
      /\ count'.files = count.files
      /\ UNCHANGED <<thread, game, saves, barrier, pending, results, ledger, receipts>>
  BY SMTT(20) DEF TradeBegins, Playing, RewardTypeOK, Positions, Records, Trades, Ledgers,
     Counts, Games, Barriers, Saves, NoPending, NoTrade, PowerOn, Held, Delivering, Publishing,
     NoTxn, NumbersFit, RecordFits
<1>20. /\ count.txn \in Nat /\ count.files \in Nat /\ receipts \subseteq Nat
       /\ \A s \in saves : s.at \in Nat /\ s.name \in Nat /\ s.tags.trade \in Nat /\ s.tags.gift \in Nat
       /\ barrier.trade \in Nat /\ barrier.gift \in Nat /\ thread.id \in Nat /\ trade.id \in Nat
       /\ pending.id \in Nat /\ pending.trade \in Nat /\ trade.tags.gift \in Nat
  BY NumbersAre
<1>1. RewardTypeOK'
  <2>1. trade' \in Trades
    <3>1. count.txn + 1 \in 0 .. N
      BY BoundsAssumption DEF TradeBegins, RewardTypeOK, Counts
    <3> QED
      BY <3>1, NoneTyped DEF TradeBegins, Trades
  <2>2. count' \in Counts
    BY BoundsAssumption DEF TradeBegins, RewardTypeOK, Counts
  <2>3. UNCHANGED <<thread, game, saves, barrier, pending, results, ledger, receipts>>
    BY DEF TradeBegins
  <2> QED
    BY <2>1, <2>2, <2>3 DEF RewardTypeOK
<1>2. RecordFits'
  BY <1>0, SMTT(20) DEF Held, Delivering, Publishing, NoTxn, RecordFits, Recoverable, Exact,
     Settled, GameFits, TradeFits, DeliveryIsNew, TradeIsNew
<1>3. TradeFits'
  BY <1>0, SMTT(20) DEF Held, Delivering, Publishing, NoTxn, TradeFits, TradeIsNew, RecordFits,
     GameFits, Exact, Settled
<1>4. GameFits'
  BY <1>0, SMTT(20) DEF Held, Delivering, Publishing, NoTxn, GameFits, Exact, Settled,
     SavesAreExact, NothingYet, SomeSave, RecordFits, TradeFits, TradeIsNew
<1>5. SavesAreExact'
  BY <1>0, SMTT(20) DEF Held, Delivering, Publishing, NoTxn, SavesAreExact, Admissible, Exact,
     Settled, RecordFits, TradeFits, GameFits, TradeIsNew, DeliveryIsNew, Written
<1>6. NothingYet'
  BY <1>0, SMTT(20) DEF Held, Delivering, Publishing, NoTxn, NothingYet, Settled, TradeFits,
     TradeIsNew, DeliveryIsNew, RecordFits
<1>7. SomeSave'
  BY <1>0, SMTT(20) DEF Held, Delivering, Publishing, NoTxn, SomeSave, Admissible, RecordFits,
     Recoverable, TradeFits, TradeIsNew, Written
<1>8. NumbersFit'
  <2>1. /\ count'.txn = count.txn + 1 /\ count'.files = count.files /\ trade'.id = count'.txn
        /\ UNCHANGED <<saves, barrier, pending, receipts>> /\ count.txn \in Nat
    BY <1>0, <1>20
  <2>2. Used(trade.id)' /\ \A n \in Nat : Used(n) => Used(n)'
    BY <2>1 DEF Used
  <2>3. \A n \in receipts : n \in Nat /\ Used(n)
    BY <1>20 DEF NumbersFit
  <2>4. /\ Used(barrier.trade) /\ Used(barrier.gift) /\ Used(pending.id)
        /\ barrier.trade \in Nat /\ barrier.gift \in Nat /\ pending.id \in Nat
    BY <1>20 DEF NumbersFit, Used
  <2>5. Used(barrier.trade)' /\ Used(barrier.gift)' /\ Used(pending.id)' /\ \A n \in receipts' : Used(n)'
    BY <2>1, <2>3, <2>4 DEF Used
  <2>6. \A s \in saves : /\ s.at <= count.files /\ Used(s.name)' /\ Used(s.tags.trade)' /\ Used(s.tags.gift)'
    BY <1>20, <2>2 DEF NumbersFit
  <2> QED
    BY <2>1, <2>2, <2>5, <2>6 DEF NumbersFit
<1>9. TradeIsNew'
  <2>1. trade'.id = count.txn + 1 /\ trade'.phase = "travelling" /\ UNCHANGED <<saves, barrier, receipts>>
    BY <1>0
  <2>2. \A n \in Nat : Used(n) => n # trade'.id
    <3>1. count.txn \in Nat /\ trade'.id = count.txn + 1
      BY <1>20, <2>1
    <3> QED
      BY <3>1 DEF Used
  <2>3. trade'.id # NoTxn /\ trade'.id \notin receipts /\ barrier.trade # trade'.id
    BY <1>20, <2>1, <2>2 DEF NumbersFit, NoTxn
  <2>4. \A s \in saves : s.name # trade'.id /\ s.tags.trade # trade'.id
    BY <1>20, <2>2 DEF NumbersFit
  <2> QED
    BY <2>1, <2>3, <2>4 DEF TradeIsNew
<1>10. DeliveryIsNew'
  BY <1>0, <1>20, SMTT(20) DEF Held, Delivering, Publishing, NoTxn, DeliveryIsNew, NumbersFit,
     Used, Written
<1> QED
  BY <1>1, <1>2, <1>3, <1>4, <1>5, <1>6, <1>7, <1>8, <1>9, <1>10

LEMMA TradeHoldsKeeps == ASSUME RewardInv, TradeHolds PROVE RewardInv'
<1> USE DEF RewardInv
<1>0. /\ thread.at = "play"
      /\ trade.phase = "travelling"
      /\ Written(NoTxn, TRUE, barrier, game) \in saves'
      /\ saves' \subseteq saves \cup {Written(NoTxn, TRUE, barrier, game)}
      /\ results' \subseteq results
      /\ pending.phase # "complete" /\ pending.id \in results => pending.id \in results'
      /\ trade'.phase = "held"
      /\ trade'.id = trade.id
      /\ trade'.tags = barrier
      /\ trade'.state = game
      /\ count'.txn = count.txn
      /\ count'.files = count.files + 1
      /\ UNCHANGED <<thread, game, barrier, pending, ledger, receipts>>
  <2>1. Autosaves
    BY DEF TradeHolds
  <2>2. /\ Written(NoTxn, TRUE, barrier, game) \in saves'
        /\ saves' \subseteq saves \cup {Written(NoTxn, TRUE, barrier, game)}
        /\ results' \subseteq results
        /\ pending.phase # "complete" /\ pending.id \in results => pending.id \in results'
    BY <2>1, AutosaveAdds
  <2>3. /\ thread.at = "play"
        /\ trade.phase = "travelling"
        /\ trade'.phase = "held"
        /\ trade'.id = trade.id
        /\ trade'.tags = barrier
        /\ trade'.state = game
        /\ count'.txn = count.txn
        /\ count'.files = count.files + 1
        /\ UNCHANGED <<thread, game, barrier, pending, ledger, receipts>>
    BY BoundsAssumption DEF TradeHolds, Playing, Held, RewardTypeOK, Counts, Trades, NoTrade
  <2> QED
    BY <2>2, <2>3
<1>20. /\ count.txn \in Nat /\ count.files \in Nat /\ receipts \subseteq Nat
       /\ \A s \in saves : s.at \in Nat /\ s.name \in Nat /\ s.tags.trade \in Nat /\ s.tags.gift \in Nat
       /\ barrier.trade \in Nat /\ barrier.gift \in Nat /\ thread.id \in Nat /\ trade.id \in Nat
       /\ pending.id \in Nat /\ pending.trade \in Nat /\ trade.tags.gift \in Nat
  BY NumbersAre
<1>1. RewardTypeOK'
  <2>1. saves' \subseteq Saves
    BY AutosaveAdds DEF TradeHolds
  <2>2. results' \subseteq Txn
    BY AutosaveAdds DEF TradeHolds, RewardTypeOK
  <2>3. trade' \in Trades
    BY DEF TradeHolds, RewardTypeOK, Trades
  <2>4. count' \in Counts
    BY BoundsAssumption DEF TradeHolds, RewardTypeOK, Counts
  <2>5. UNCHANGED <<thread, game, barrier, pending, ledger, receipts>>
    BY DEF TradeHolds
  <2> QED
    BY <2>1, <2>2, <2>3, <2>4, <2>5 DEF RewardTypeOK
<1>2. RecordFits'
  BY <1>0, SMTT(20) DEF Held, Delivering, Publishing, NoTxn, RecordFits, Recoverable, Exact,
     Settled, GameFits, TradeFits, DeliveryIsNew, TradeIsNew
<1>3. TradeFits'
  BY <1>0, SMTT(20) DEF Held, Delivering, Publishing, NoTxn, TradeFits, TradeIsNew, RecordFits,
     GameFits, Exact, Settled
<1>4. GameFits'
  BY <1>0, SMTT(20) DEF Held, Delivering, Publishing, NoTxn, GameFits, Exact, Settled,
     SavesAreExact, NothingYet, SomeSave, RecordFits, TradeFits, TradeIsNew
<1>5. SavesAreExact'
  BY <1>0, SMTT(20) DEF Held, Delivering, Publishing, NoTxn, SavesAreExact, Admissible, Exact,
     Settled, RecordFits, TradeFits, GameFits, TradeIsNew, DeliveryIsNew, Written
<1>6. NothingYet'
  BY <1>0, SMTT(20) DEF Held, Delivering, Publishing, NoTxn, NothingYet, Settled, TradeFits,
     TradeIsNew, DeliveryIsNew, RecordFits
<1>7. SomeSave'
  BY <1>0, SMTT(20) DEF Held, Delivering, Publishing, NoTxn, SomeSave, Admissible, RecordFits,
     Recoverable, TradeFits, TradeIsNew, Written
<1>8. NumbersFit'
  BY <1>0, <1>20, SMTT(20) DEF Held, Delivering, Publishing, NoTxn, NumbersFit, Used,
     DeliveryIsNew, TradeIsNew, Written
<1>9. TradeIsNew'
  BY <1>0, <1>20, SMTT(20) DEF Held, Delivering, Publishing, NoTxn, TradeIsNew, NumbersFit,
     Used, RecordFits, Written
<1>10. DeliveryIsNew'
  BY <1>0, <1>20, SMTT(20) DEF Held, Delivering, Publishing, NoTxn, DeliveryIsNew, NumbersFit,
     Used, Written
<1> QED
  BY <1>1, <1>2, <1>3, <1>4, <1>5, <1>6, <1>7, <1>8, <1>9, <1>10

LEMMA TradeAbortsKeeps == ASSUME RewardInv, TradeAborts PROVE RewardInv'
<1> USE DEF RewardInv
<1>0. /\ thread.at = "play"
      /\ \/ trade.phase = "held" /\ game'.got = trade.state.got /\ game'.gifts = trade.state.gifts
         \/ trade.phase = "travelling" /\ UNCHANGED game
      /\ trade'.phase = "none"
      /\ trade'.id = 0
      /\ UNCHANGED <<thread, saves, barrier, pending, results, ledger, receipts, count>>
  BY SMTT(20) DEF TradeAborts, Loads, Larger, RewardTypeOK, Positions, Records, Trades, Ledgers,
     Counts, Games, Barriers, Saves, NoPending, NoTrade, PowerOn, Held, Delivering, Publishing,
     NoTxn, NumbersFit, RecordFits
<1>21. /\ thread.at = "play"
       /\ trade'.phase = "none"
       /\ trade'.id = 0
       /\ UNCHANGED <<thread, saves, barrier, pending, results, ledger, receipts, count>>
  BY <1>0
<1>22. \/ trade.phase = "held" /\ game'.got = trade.state.got /\ game'.gifts = trade.state.gifts
       \/ trade.phase = "travelling" /\ UNCHANGED game
  BY <1>0
<1>20. /\ count.txn \in Nat /\ count.files \in Nat /\ receipts \subseteq Nat
       /\ \A s \in saves : s.at \in Nat /\ s.name \in Nat /\ s.tags.trade \in Nat /\ s.tags.gift \in Nat
       /\ barrier.trade \in Nat /\ barrier.gift \in Nat /\ thread.id \in Nat /\ trade.id \in Nat
       /\ pending.id \in Nat /\ pending.trade \in Nat /\ trade.tags.gift \in Nat
  BY NumbersAre
<1>1. RewardTypeOK'
  <2>1. game' \in Games
    BY LoadTyped DEF TradeAborts, RewardTypeOK, Trades
  <2>2. trade' \in Trades
    BY NoneTyped DEF TradeAborts
  <2>3. UNCHANGED <<thread, saves, barrier, pending, results, ledger, receipts, count>>
    BY DEF TradeAborts
  <2> QED
    BY <2>1, <2>2, <2>3 DEF RewardTypeOK
<1>2. RecordFits'
  BY <1>0, SMTT(20) DEF Held, Delivering, Publishing, NoTxn, RecordFits, Recoverable, Exact,
     Settled, GameFits, TradeFits, DeliveryIsNew, TradeIsNew
<1>3. TradeFits'
  BY <1>0, SMTT(20) DEF Held, Delivering, Publishing, NoTxn, TradeFits, TradeIsNew, RecordFits,
     GameFits, Exact, Settled
<1>4. GameFits'
  <2>1. CASE trade.phase = "held" /\ game'.got = trade.state.got /\ game'.gifts = trade.state.gifts
    <3>1. trade.state.got = receipts /\ trade.state.gifts = ledger.delivered
      BY <1>21, <2>1 DEF TradeFits, TradeIsNew, Held
    <3> QED
      BY <1>21, <2>1, <3>1 DEF GameFits, Exact, Settled
  <2>2. CASE trade.phase = "travelling" /\ UNCHANGED game
    BY <1>21, <2>2, SMTT(20) DEF Held, Delivering, Publishing, NoTxn, GameFits, Exact, Settled,
       SavesAreExact, NothingYet, SomeSave, RecordFits, TradeFits, TradeIsNew
  <2> QED
    BY <1>22, <2>1, <2>2
<1>5. SavesAreExact'
  BY <1>0, SMTT(20) DEF Held, Delivering, Publishing, NoTxn, SavesAreExact, Admissible, Exact,
     Settled, RecordFits, TradeFits, GameFits, TradeIsNew, DeliveryIsNew, Written
<1>6. NothingYet'
  BY <1>0, SMTT(20) DEF Held, Delivering, Publishing, NoTxn, NothingYet, Settled, TradeFits,
     TradeIsNew, DeliveryIsNew, RecordFits
<1>7. SomeSave'
  BY <1>0, SMTT(20) DEF Held, Delivering, Publishing, NoTxn, SomeSave, Admissible, RecordFits,
     Recoverable, TradeFits, TradeIsNew, Written
<1>8. NumbersFit'
  BY <1>0, <1>20 DEF NumbersFit, Used
<1>9. TradeIsNew'
  BY <1>0, <1>20, SMTT(20) DEF Held, Delivering, Publishing, NoTxn, TradeIsNew, NumbersFit,
     Used, RecordFits, Written
<1>10. DeliveryIsNew'
  BY <1>0, <1>20, SMTT(20) DEF Held, Delivering, Publishing, NoTxn, DeliveryIsNew, NumbersFit,
     Used, Written
<1> QED
  BY <1>1, <1>2, <1>3, <1>4, <1>5, <1>6, <1>7, <1>8, <1>9, <1>10

LEMMA TradeCommitsKeeps == ASSUME RewardInv, TradeCommits PROVE RewardInv'
<1> USE DEF RewardInv
<1>0. /\ thread.at = "play"
      /\ trade.phase = "held"
      /\ trade'.phase = "committed"
      /\ trade'.id = trade.id
      /\ trade'.tags = trade.tags
      /\ trade'.state = trade.state
      /\ receipts' = receipts \cup {trade.id}
      /\ UNCHANGED <<thread, game, saves, barrier, pending, results, ledger, count>>
  BY SMTT(20) DEF TradeCommits, RewardTypeOK, Positions, Records, Trades, Ledgers, Counts,
     Games, Barriers, Saves, NoPending, NoTrade, PowerOn, Held, Delivering, Publishing, NoTxn,
     NumbersFit, RecordFits
<1>20. /\ count.txn \in Nat /\ count.files \in Nat /\ receipts \subseteq Nat
       /\ \A s \in saves : s.at \in Nat /\ s.name \in Nat /\ s.tags.trade \in Nat /\ s.tags.gift \in Nat
       /\ barrier.trade \in Nat /\ barrier.gift \in Nat /\ thread.id \in Nat /\ trade.id \in Nat
       /\ pending.id \in Nat /\ pending.trade \in Nat /\ trade.tags.gift \in Nat
  BY NumbersAre
<1>1. RewardTypeOK'
  <2>1. trade' \in Trades
    BY DEF TradeCommits, RewardTypeOK, Trades
  <2>2. receipts' \subseteq Txn
    BY DEF TradeCommits, RewardTypeOK, Trades, TradeIsNew, Txn, NoTxn
  <2>3. UNCHANGED <<thread, game, saves, barrier, pending, results, ledger, count>>
    BY DEF TradeCommits
  <2> QED
    BY <2>1, <2>2, <2>3 DEF RewardTypeOK
<1>2. RecordFits'
  BY <1>0, SMTT(20) DEF Held, Delivering, Publishing, NoTxn, RecordFits, Recoverable, Exact,
     Settled, GameFits, TradeFits, DeliveryIsNew, TradeIsNew
<1>3. TradeFits'
  BY <1>0, SMTT(20) DEF Held, Delivering, Publishing, NoTxn, TradeFits, TradeIsNew, RecordFits,
     GameFits, Exact, Settled
<1>4. GameFits'
  BY <1>0, SMTT(20) DEF Held, Delivering, Publishing, NoTxn, GameFits, Exact, Settled,
     SavesAreExact, NothingYet, SomeSave, RecordFits, TradeFits, TradeIsNew
<1>5. SavesAreExact'
  BY <1>0, SMTT(20) DEF Held, Delivering, Publishing, NoTxn, SavesAreExact, Admissible, Exact,
     Settled, RecordFits, TradeFits, GameFits, TradeIsNew, DeliveryIsNew, Written
<1>6. NothingYet'
  BY <1>0, SMTT(20) DEF Held, Delivering, Publishing, NoTxn, NothingYet, Settled, TradeFits,
     TradeIsNew, DeliveryIsNew, RecordFits
<1>7. SomeSave'
  BY <1>0, SMTT(20) DEF Held, Delivering, Publishing, NoTxn, SomeSave, Admissible, RecordFits,
     Recoverable, TradeFits, TradeIsNew, Written
<1>8. NumbersFit'
  BY <1>0, <1>20, SMTT(20) DEF Held, Delivering, Publishing, NoTxn, NumbersFit, Used,
     DeliveryIsNew, TradeIsNew, Written
<1>9. TradeIsNew'
  BY <1>0, <1>20, SMTT(20) DEF Held, Delivering, Publishing, NoTxn, TradeIsNew, NumbersFit,
     Used, RecordFits, Written
<1>10. DeliveryIsNew'
  BY <1>0, <1>20, SMTT(20) DEF Held, Delivering, Publishing, NoTxn, DeliveryIsNew, NumbersFit,
     Used, Written
<1> QED
  BY <1>1, <1>2, <1>3, <1>4, <1>5, <1>6, <1>7, <1>8, <1>9, <1>10

LEMMA TradeAppliesKeeps == ASSUME RewardInv, TradeApplies PROVE RewardInv'
<1> USE DEF RewardInv
<1>0. /\ thread.at = "play"
      /\ trade.phase = "committed"
      /\ \/ \E s \in saves : s.name = trade.id /\ UNCHANGED <<saves, count>>
         \/ /\ count'.files = count.files + 1 /\ count'.txn = count.txn
            /\ saves' = saves \cup {Written(trade.id, TRUE, [trade |-> trade.id, gift |-> trade.tags.gift],
                                            [got |-> trade.state.got \cup {trade.id}, gifts |-> trade.state.gifts, wins |-> trade.state.wins])}
      /\ barrier'.trade = trade.id
      /\ barrier'.gift = barrier.gift
      /\ game'.got = trade.state.got \cup {trade.id}
      /\ game'.gifts = trade.state.gifts
      /\ trade'.phase = "applied"
      /\ trade'.id = trade.id
      /\ trade'.tags = trade.tags
      /\ trade'.state = trade.state
      /\ UNCHANGED <<thread, pending, results, ledger, receipts>>
  <2>1. Promotes /\ Loads(Received)
    BY DEF TradeApplies
  <2>2. /\ \/ \E s \in saves : s.name = trade.id /\ UNCHANGED <<saves, count>>
           \/ /\ count'.files = count.files + 1 /\ count'.txn = count.txn
              /\ saves' = saves \cup {Written(trade.id, TRUE, [trade |-> trade.id, gift |-> trade.tags.gift],
                                              [got |-> trade.state.got \cup {trade.id}, gifts |-> trade.state.gifts, wins |-> trade.state.wins])}
        /\ barrier'.trade = trade.id /\ barrier'.gift = barrier.gift
    BY <2>1, PromotionIs
  <2>3. /\ thread.at = "play" /\ trade.phase = "committed" /\ trade'.phase = "applied"
        /\ trade'.id = trade.id /\ trade'.tags = trade.tags /\ trade'.state = trade.state
        /\ UNCHANGED <<thread, pending, results, ledger, receipts>>
    BY DEF TradeApplies, RewardTypeOK, Trades
  <2>4. game'.got = trade.state.got \cup {trade.id} /\ game'.gifts = trade.state.gifts
    BY <2>1 DEF Loads, Received, RewardTypeOK, Trades, Games
  <2> QED
    BY <2>2, <2>3, <2>4
<1>21. /\ thread.at = "play"
       /\ trade.phase = "committed"
       /\ barrier'.trade = trade.id
       /\ barrier'.gift = barrier.gift
       /\ game'.got = trade.state.got \cup {trade.id}
       /\ game'.gifts = trade.state.gifts
       /\ trade'.phase = "applied"
       /\ trade'.id = trade.id
       /\ trade'.tags = trade.tags
       /\ trade'.state = trade.state
       /\ UNCHANGED <<thread, pending, results, ledger, receipts>>
  BY <1>0
<1>22. \/ \E s \in saves : s.name = trade.id /\ UNCHANGED <<saves, count>>
       \/ /\ count'.files = count.files + 1 /\ count'.txn = count.txn
          /\ saves' = saves \cup {Written(trade.id, TRUE, [trade |-> trade.id, gift |-> trade.tags.gift],
                                          [got |-> trade.state.got \cup {trade.id}, gifts |-> trade.state.gifts, wins |-> trade.state.wins])}
  BY <1>0
<1>20. /\ count.txn \in Nat /\ count.files \in Nat /\ receipts \subseteq Nat
       /\ \A s \in saves : s.at \in Nat /\ s.name \in Nat /\ s.tags.trade \in Nat /\ s.tags.gift \in Nat
       /\ barrier.trade \in Nat /\ barrier.gift \in Nat /\ thread.id \in Nat /\ trade.id \in Nat
       /\ pending.id \in Nat /\ pending.trade \in Nat /\ trade.tags.gift \in Nat
  BY NumbersAre
<1>1. RewardTypeOK'
  <2>0. trade.phase # "none" => trade.id \in Txn
    BY DEF RewardTypeOK, TradeIsNew, Trades, Txn, NoTxn
  <2>1. saves' \subseteq Saves
    BY PromotionTyped, <2>0 DEF TradeApplies
  <2>2. count' \in Counts
    BY PromotionTyped, <2>0 DEF TradeApplies
  <2>3. barrier' \in Barriers
    BY PromotionTyped, <2>0 DEF TradeApplies
  <2>4. game' \in Games
    BY PromotionTyped, LoadTyped, <2>0 DEF TradeApplies
  <2>5. trade' \in Trades
    BY DEF TradeApplies, RewardTypeOK, Trades
  <2>6. UNCHANGED <<thread, pending, results, ledger, receipts>>
    BY DEF TradeApplies
  <2> QED
    BY <2>1, <2>2, <2>3, <2>4, <2>5, <2>6 DEF RewardTypeOK
<1>2. RecordFits'
  BY <1>0, SMTT(20) DEF Held, Delivering, Publishing, NoTxn, RecordFits, Recoverable, Exact,
     Settled, GameFits, TradeFits, DeliveryIsNew, TradeIsNew
<1>3. TradeFits'
  BY <1>0, SMTT(20) DEF Held, Delivering, Publishing, NoTxn, TradeFits, TradeIsNew, RecordFits,
     GameFits, Exact, Settled
<1>4. GameFits'
  BY <1>0, SMTT(20) DEF Held, Delivering, Publishing, NoTxn, GameFits, Exact, Settled,
     SavesAreExact, NothingYet, SomeSave, RecordFits, TradeFits, TradeIsNew
<1>5. SavesAreExact'
  <2>1. CASE \E s \in saves : s.name = trade.id /\ UNCHANGED <<saves, count>>
    BY <1>21, <2>1, SMTT(20) DEF Held, Delivering, Publishing, NoTxn, SavesAreExact, Admissible,
       Exact, Settled, RecordFits, TradeFits, GameFits, TradeIsNew, DeliveryIsNew, Written
  <2>2. CASE /\ count'.files = count.files + 1 /\ count'.txn = count.txn
             /\ saves' = saves \cup {Written(trade.id, TRUE, [trade |-> trade.id, gift |-> trade.tags.gift],
                                             [got |-> trade.state.got \cup {trade.id}, gifts |-> trade.state.gifts, wins |-> trade.state.wins])}
    <3> DEFINE new == Written(trade.id, TRUE, [trade |-> trade.id, gift |-> trade.tags.gift],
                          [got |-> trade.state.got \cup {trade.id}, gifts |-> trade.state.gifts, wins |-> trade.state.wins])
    <3>1. trade.id # NoTxn /\ trade.id \in receipts
      BY <1>21, <2>2 DEF TradeFits, TradeIsNew
    <3>2. new.state.got = receipts /\ new.state.gifts = ledger.delivered
      BY <1>21, <2>2, <3>1 DEF TradeFits, Held, Written
    <3>3. Settled' = receipts
      BY <1>21, <2>2 DEF Settled
    <3>4. ASSUME NEW s \in saves, Admissible(s)' PROVE Exact(s.state)'
      <4>1. s.tags.trade = trade.id /\ (barrier.gift # NoTxn => s.tags.gift = barrier.gift) /\ s.whole
        BY <1>21, <2>2, <3>1, <3>4 DEF Admissible
      <4>2. barrier.trade = trade.id
        BY <1>21, <2>2, <4>1 DEF TradeIsNew
      <4>3. Admissible(s) /\ Settled = receipts
        BY <4>1, <4>2 DEF Admissible, Settled
      <4> QED
        BY <1>21, <3>3, <4>3 DEF SavesAreExact, Exact
    <3> QED
      BY <1>21, <2>2, <3>2, <3>3, <3>4 DEF SavesAreExact, Exact
  <2> QED
    BY <1>22, <2>1, <2>2
<1>6. NothingYet'
  BY <1>0, SMTT(20) DEF Held, Delivering, Publishing, NoTxn, NothingYet, Settled, TradeFits,
     TradeIsNew, DeliveryIsNew, RecordFits
<1>7. SomeSave'
  <2>1. CASE \E s \in saves : s.name = trade.id /\ UNCHANGED <<saves, count>>
    BY <1>21, <2>1, SMTT(20) DEF Held, Delivering, Publishing, NoTxn, SomeSave, Admissible,
       RecordFits, Recoverable, TradeFits, TradeIsNew, Written
  <2>2. CASE /\ count'.files = count.files + 1 /\ count'.txn = count.txn
             /\ saves' = saves \cup {Written(trade.id, TRUE, [trade |-> trade.id, gift |-> trade.tags.gift],
                                             [got |-> trade.state.got \cup {trade.id}, gifts |-> trade.state.gifts, wins |-> trade.state.wins])}
    <3> DEFINE new == Written(trade.id, TRUE, [trade |-> trade.id, gift |-> trade.tags.gift],
                          [got |-> trade.state.got \cup {trade.id}, gifts |-> trade.state.gifts, wins |-> trade.state.wins])
    <3>1. trade.tags.gift = barrier.gift
      BY <1>21, <2>2 DEF TradeFits, Held
    <3>2. /\ new \in saves' /\ new.whole /\ new.tags.trade = trade.id /\ new.tags.gift = trade.tags.gift
      BY <2>2 DEF Written
    <3>3. barrier'.trade = trade.id /\ barrier'.gift = trade.tags.gift
      BY <1>21, <2>2, <3>1
    <3> HIDE DEF new
    <3> QED
      BY <3>2, <3>3 DEF SomeSave, Admissible
  <2> QED
    BY <1>22, <2>1, <2>2
<1>8. NumbersFit'
  <2>1. CASE \E s \in saves : s.name = trade.id /\ UNCHANGED <<saves, count>>
    BY <1>21, <2>1, <1>20 DEF NumbersFit, Used
  <2>2. CASE /\ count'.files = count.files + 1 /\ count'.txn = count.txn
             /\ saves' = saves \cup {Written(trade.id, TRUE, [trade |-> trade.id, gift |-> trade.tags.gift],
                                             [got |-> trade.state.got \cup {trade.id}, gifts |-> trade.state.gifts, wins |-> trade.state.wins])}
    <3> DEFINE new == Written(trade.id, TRUE, [trade |-> trade.id, gift |-> trade.tags.gift],
                          [got |-> trade.state.got \cup {trade.id}, gifts |-> trade.state.gifts, wins |-> trade.state.wins])
    <3>1. trade.tags.gift = barrier.gift
      BY <1>21, <2>2 DEF TradeFits, Held
    <3>2. new.at = count.files + 1 /\ new.name = trade.id /\ new.tags.trade = trade.id /\ new.tags.gift = trade.tags.gift
      BY DEF Written
    <3>3. \A s \in saves' : s \in saves \/ s = new
      BY <2>2
    <3>4. /\ UNCHANGED <<receipts>> /\ count'.txn = count.txn /\ count'.files = count.files + 1 /\ count.files \in Nat
          /\ barrier'.trade = trade.id /\ barrier'.gift = barrier.gift /\ trade'.id = trade.id /\ UNCHANGED <<pending>>
      BY <1>20, <1>21, <2>2
    <3> HIDE DEF new
    <3>5. ASSUME NEW s \in saves PROVE s.at <= count'.files /\ s.at \in Nat
      BY <1>20, <3>4 DEF NumbersFit
    <3>6. new.at <= count'.files
      BY <3>2, <3>4
    <3>7. \A s \in saves' : s.at <= count'.files
      BY <3>3, <3>5, <3>6
    <3>8. \A n : Used(n)' <=> Used(n)
      BY <3>4 DEF Used
    <3> QED
      BY <3>1, <3>2, <3>3, <3>4, <3>7, <3>8 DEF NumbersFit
  <2> QED
    BY <1>22, <2>1, <2>2
<1>9. TradeIsNew'
  BY <1>0, <1>20, SMTT(20) DEF Held, Delivering, Publishing, NoTxn, TradeIsNew, NumbersFit,
     Used, RecordFits, Written
<1>10. DeliveryIsNew'
  BY <1>0, <1>20, SMTT(20) DEF Held, Delivering, Publishing, NoTxn, DeliveryIsNew, NumbersFit,
     Used, Written
<1> QED
  BY <1>1, <1>2, <1>3, <1>4, <1>5, <1>6, <1>7, <1>8, <1>9, <1>10

LEMMA TradeReleasesKeeps == ASSUME RewardInv, TradeReleases PROVE RewardInv'
<1> USE DEF RewardInv
<1>0. /\ thread.at = "play"
      /\ trade.phase = "applied"
      /\ trade'.phase = "none"
      /\ trade'.id = 0
      /\ UNCHANGED <<thread, game, saves, barrier, pending, results, ledger, receipts, count>>
  BY SMTT(20) DEF TradeReleases, RewardTypeOK, Positions, Records, Trades, Ledgers, Counts,
     Games, Barriers, Saves, NoPending, NoTrade, PowerOn, Held, Delivering, Publishing, NoTxn,
     NumbersFit, RecordFits
<1>20. /\ count.txn \in Nat /\ count.files \in Nat /\ receipts \subseteq Nat
       /\ \A s \in saves : s.at \in Nat /\ s.name \in Nat /\ s.tags.trade \in Nat /\ s.tags.gift \in Nat
       /\ barrier.trade \in Nat /\ barrier.gift \in Nat /\ thread.id \in Nat /\ trade.id \in Nat
       /\ pending.id \in Nat /\ pending.trade \in Nat /\ trade.tags.gift \in Nat
  BY NumbersAre
<1>1. RewardTypeOK'
  <2>1. trade' \in Trades
    BY NoneTyped DEF TradeReleases
  <2>2. UNCHANGED <<thread, game, saves, barrier, pending, results, ledger, receipts, count>>
    BY DEF TradeReleases
  <2> QED
    BY <2>1, <2>2 DEF RewardTypeOK
<1>2. RecordFits'
  BY <1>0, SMTT(20) DEF Held, Delivering, Publishing, NoTxn, RecordFits, Recoverable, Exact,
     Settled, GameFits, TradeFits, DeliveryIsNew, TradeIsNew
<1>3. TradeFits'
  BY <1>0, SMTT(20) DEF Held, Delivering, Publishing, NoTxn, TradeFits, TradeIsNew, RecordFits,
     GameFits, Exact, Settled
<1>4. GameFits'
  BY <1>0, SMTT(20) DEF Held, Delivering, Publishing, NoTxn, GameFits, Exact, Settled,
     SavesAreExact, NothingYet, SomeSave, RecordFits, TradeFits, TradeIsNew
<1>5. SavesAreExact'
  BY <1>0, SMTT(20) DEF Held, Delivering, Publishing, NoTxn, SavesAreExact, Admissible, Exact,
     Settled, RecordFits, TradeFits, GameFits, TradeIsNew, DeliveryIsNew, Written
<1>6. NothingYet'
  BY <1>0, SMTT(20) DEF Held, Delivering, Publishing, NoTxn, NothingYet, Settled, TradeFits,
     TradeIsNew, DeliveryIsNew, RecordFits
<1>7. SomeSave'
  BY <1>0, SMTT(20) DEF Held, Delivering, Publishing, NoTxn, SomeSave, Admissible, RecordFits,
     Recoverable, TradeFits, TradeIsNew, Written
<1>8. NumbersFit'
  BY <1>0, <1>20, SMTT(20) DEF Held, Delivering, Publishing, NoTxn, NumbersFit, Used,
     DeliveryIsNew, TradeIsNew, Written
<1>9. TradeIsNew'
  BY <1>0, <1>20, SMTT(20) DEF Held, Delivering, Publishing, NoTxn, TradeIsNew, NumbersFit,
     Used, RecordFits, Written
<1>10. DeliveryIsNew'
  BY <1>0, <1>20, SMTT(20) DEF Held, Delivering, Publishing, NoTxn, DeliveryIsNew, NumbersFit,
     Used, Written
<1> QED
  BY <1>1, <1>2, <1>3, <1>4, <1>5, <1>6, <1>7, <1>8, <1>9, <1>10

LEMMA EndsKeeps == ASSUME RewardInv, Ends PROVE RewardInv'
<1> USE DEF RewardInv
<1>0. /\ thread'.at = "down"
      /\ count'.txn = count.txn
      /\ \/ UNCHANGED <<saves, results, count>>
         \/ /\ thread.at = "play" /\ trade.phase \notin {"held", "committed", "applied"} /\ count'.files = count.files + 1
            /\ Written(NoTxn, TRUE, barrier, game) \in saves'
            /\ saves' \subseteq saves \cup {Written(NoTxn, TRUE, barrier, game)}
            /\ results' \subseteq results
            /\ pending.phase # "complete" /\ pending.id \in results => pending.id \in results'
      /\ UNCHANGED <<game, barrier, pending, trade, ledger, receipts>>
  <2>1. thread'.at = "down" /\ UNCHANGED <<game, barrier, pending, trade, ledger, receipts>>
    BY DEF Ends, Goes, RewardTypeOK, Positions
  <2>2. CASE UNCHANGED <<saves, results, count>>
    BY <2>1, <2>2
  <2>3. CASE thread.at = "play" /\ ~Held /\ Autosaves /\ count' = [count EXCEPT !.files = @ + 1]
    <3>1. /\ Written(NoTxn, TRUE, barrier, game) \in saves'
          /\ saves' \subseteq saves \cup {Written(NoTxn, TRUE, barrier, game)}
          /\ results' \subseteq results
          /\ pending.phase # "complete" /\ pending.id \in results => pending.id \in results'
      BY <2>3, AutosaveAdds
    <3>2. count'.txn = count.txn /\ count'.files = count.files + 1 /\ trade.phase \notin {"held", "committed", "applied"}
      BY <2>3 DEF RewardTypeOK, Counts, Held
    <3> QED
      BY <2>1, <2>3, <3>1, <3>2
  <2> QED
    BY <2>2, <2>3 DEF Ends
<1>21. /\ thread'.at = "down"
       /\ count'.txn = count.txn
       /\ UNCHANGED <<game, barrier, pending, trade, ledger, receipts>>
  BY <1>0
<1>22. \/ UNCHANGED <<saves, results, count>>
       \/ /\ thread.at = "play" /\ trade.phase \notin {"held", "committed", "applied"} /\ count'.files = count.files + 1
          /\ Written(NoTxn, TRUE, barrier, game) \in saves'
          /\ saves' \subseteq saves \cup {Written(NoTxn, TRUE, barrier, game)}
          /\ results' \subseteq results
          /\ pending.phase # "complete" /\ pending.id \in results => pending.id \in results'
  BY <1>0
<1>20. /\ count.txn \in Nat /\ count.files \in Nat /\ receipts \subseteq Nat
       /\ \A s \in saves : s.at \in Nat /\ s.name \in Nat /\ s.tags.trade \in Nat /\ s.tags.gift \in Nat
       /\ barrier.trade \in Nat /\ barrier.gift \in Nat /\ thread.id \in Nat /\ trade.id \in Nat
       /\ pending.id \in Nat /\ pending.trade \in Nat /\ trade.tags.gift \in Nat
  BY NumbersAre
<1>1. RewardTypeOK'
  <2>1. thread' \in Positions
    BY DEF Ends, Goes, RewardTypeOK, Positions, Places, Delivering, Publishing, Recovering
  <2>2. saves' \subseteq Saves
    BY AutosaveAdds DEF Ends, RewardTypeOK
  <2>3. results' \subseteq Txn
    BY AutosaveAdds DEF Ends, RewardTypeOK
  <2>4. count' \in Counts
    BY BoundsAssumption DEF Ends, RewardTypeOK, Counts
  <2>5. UNCHANGED <<game, barrier, pending, trade, ledger, receipts>>
    BY DEF Ends
  <2> QED
    BY <2>1, <2>2, <2>3, <2>4, <2>5 DEF RewardTypeOK
<1>2. RecordFits'
  <2>1. CASE UNCHANGED <<saves, results, count>>
    BY <1>21, <2>1, SMTT(20) DEF Held, Delivering, Publishing, NoTxn, RecordFits, Recoverable,
       Exact, Settled, GameFits, TradeFits, DeliveryIsNew, TradeIsNew
  <2>2. CASE /\ thread.at = "play" /\ trade.phase \notin {"held", "committed", "applied"} /\ count'.files = count.files + 1
             /\ Written(NoTxn, TRUE, barrier, game) \in saves'
             /\ saves' \subseteq saves \cup {Written(NoTxn, TRUE, barrier, game)}
             /\ results' \subseteq results
             /\ pending.phase # "complete" /\ pending.id \in results => pending.id \in results'
    BY <1>21, <2>2, SMTT(20) DEF Held, Delivering, Publishing, NoTxn, RecordFits, Recoverable,
       Exact, Settled, GameFits, TradeFits, DeliveryIsNew, TradeIsNew
  <2> QED
    BY <1>22, <2>1, <2>2
<1>3. TradeFits'
  BY <1>0, SMTT(20) DEF Held, Delivering, Publishing, NoTxn, TradeFits, TradeIsNew, RecordFits,
     GameFits, Exact, Settled
<1>4. GameFits'
  BY <1>0, SMTT(20) DEF Held, Delivering, Publishing, NoTxn, GameFits, Exact, Settled,
     SavesAreExact, NothingYet, SomeSave, RecordFits, TradeFits, TradeIsNew
<1>5. SavesAreExact'
  <2>1. CASE UNCHANGED <<saves, results, count>>
    BY <1>21, <2>1 DEF SavesAreExact, Exact, Settled, Admissible
  <2>2. CASE /\ thread.at = "play" /\ trade.phase \notin {"held", "committed", "applied"} /\ count'.files = count.files + 1
             /\ Written(NoTxn, TRUE, barrier, game) \in saves'
             /\ saves' \subseteq saves \cup {Written(NoTxn, TRUE, barrier, game)}
             /\ results' \subseteq results
             /\ pending.phase # "complete" /\ pending.id \in results => pending.id \in results'
    BY <1>21, <2>2, SMTT(20) DEF Held, Delivering, Publishing, NoTxn, SavesAreExact, Admissible,
       Exact, Settled, RecordFits, TradeFits, GameFits, TradeIsNew, DeliveryIsNew, Written
  <2> QED
    BY <1>22, <2>1, <2>2
<1>6. NothingYet'
  BY <1>0, SMTT(20) DEF Held, Delivering, Publishing, NoTxn, NothingYet, Settled, TradeFits,
     TradeIsNew, DeliveryIsNew, RecordFits
<1>7. SomeSave'
  BY <1>0, SMTT(20) DEF Held, Delivering, Publishing, NoTxn, SomeSave, Admissible, RecordFits,
     Recoverable, TradeFits, TradeIsNew, Written
<1>8. NumbersFit'
  <2>1. CASE UNCHANGED <<saves, results, count>>
    BY <1>21, <2>1, <1>20, SMTT(20) DEF Held, Delivering, Publishing, NoTxn, NumbersFit, Used,
       DeliveryIsNew, TradeIsNew, Written
  <2>2. CASE /\ thread.at = "play" /\ trade.phase \notin {"held", "committed", "applied"} /\ count'.files = count.files + 1
             /\ Written(NoTxn, TRUE, barrier, game) \in saves'
             /\ saves' \subseteq saves \cup {Written(NoTxn, TRUE, barrier, game)}
             /\ results' \subseteq results
             /\ pending.phase # "complete" /\ pending.id \in results => pending.id \in results'
    BY <1>21, <2>2, <1>20, SMTT(20) DEF Held, Delivering, Publishing, NoTxn, NumbersFit, Used,
       DeliveryIsNew, TradeIsNew, Written
  <2> QED
    BY <1>22, <2>1, <2>2
<1>9. TradeIsNew'
  BY <1>0, <1>20, SMTT(20) DEF Held, Delivering, Publishing, NoTxn, TradeIsNew, NumbersFit,
     Used, RecordFits, Written
<1>10. DeliveryIsNew'
  BY <1>0, <1>20, SMTT(20) DEF Held, Delivering, Publishing, NoTxn, DeliveryIsNew, NumbersFit,
     Used, Written
<1> QED
  BY <1>1, <1>2, <1>3, <1>4, <1>5, <1>6, <1>7, <1>8, <1>9, <1>10

LEMMA CrashesKeeps == ASSUME RewardInv, Crashes PROVE RewardInv'
<1> USE DEF RewardInv
<1>0. /\ thread'.at = "down"
      /\ count'.txn = count.txn
      /\ \/ saves' = saves /\ count'.files = count.files
         \/ /\ thread.at = "play" /\ count'.files = count.files + 1
            /\ saves' = saves \cup {Written(NoTxn, FALSE, barrier, game)}
      /\ UNCHANGED <<game, barrier, pending, results, trade, ledger, receipts>>
  <2>1. thread'.at = "down"
    BY DEF Crashes, Goes, RewardTypeOK, Positions
  <2>2. CASE saves' = saves /\ count' = Faulty
    BY <2>1, <2>2 DEF Crashes, Faulty, RewardTypeOK, Counts
  <2>3. CASE /\ Playing /\ count' = [Faulty EXCEPT !.files = @ + 1]
             /\ saves' = saves \cup {Written(NoTxn, FALSE, barrier, game)}
    <3>1. count'.txn = count.txn /\ count'.files = count.files + 1
      BY <2>3 DEF Faulty, RewardTypeOK, Counts
    <3> QED
      BY <2>1, <2>3, <3>1 DEF Crashes, Playing
  <2> QED
    BY <2>2, <2>3 DEF Crashes
<1>21. /\ thread'.at = "down"
       /\ count'.txn = count.txn
       /\ UNCHANGED <<game, barrier, pending, results, trade, ledger, receipts>>
  BY <1>0
<1>22. \/ saves' = saves /\ count'.files = count.files
       \/ /\ thread.at = "play" /\ count'.files = count.files + 1
          /\ saves' = saves \cup {Written(NoTxn, FALSE, barrier, game)}
  BY <1>0
<1>20. /\ count.txn \in Nat /\ count.files \in Nat /\ receipts \subseteq Nat
       /\ \A s \in saves : s.at \in Nat /\ s.name \in Nat /\ s.tags.trade \in Nat /\ s.tags.gift \in Nat
       /\ barrier.trade \in Nat /\ barrier.gift \in Nat /\ thread.id \in Nat /\ trade.id \in Nat
       /\ pending.id \in Nat /\ pending.trade \in Nat /\ trade.tags.gift \in Nat
  BY NumbersAre
<1>1. RewardTypeOK'
  <2>1. thread' \in Positions
    BY DEF Crashes, Goes, RewardTypeOK, Positions, Places, Delivering, Publishing, Recovering
  <2>2. saves' \subseteq Saves
    <3>1. Written(NoTxn, FALSE, barrier, game) \in Saves
      BY BoundsAssumption DEF RewardTypeOK, Counts, Written, Saves, NoTxn
    <3> QED
      BY <3>1 DEF Crashes, RewardTypeOK
  <2>3. count' \in Counts
    <3>1. count \in Counts /\ count.faults + 1 \in Nat /\ count.files + 1 \in Nat
      BY DEF RewardTypeOK, Counts
    <3>2. count' = Faulty \/ count' = [Faulty EXCEPT !.files = @ + 1]
      BY DEF Crashes
    <3> QED
      BY <3>1, <3>2 DEF Faulty, Counts
  <2>4. UNCHANGED <<game, barrier, pending, results, trade, ledger, receipts>>
    BY DEF Crashes
  <2> QED
    BY <2>1, <2>2, <2>3, <2>4 DEF RewardTypeOK
<1>2. RecordFits'
  BY <1>0, SMTT(20) DEF Held, Delivering, Publishing, NoTxn, RecordFits, Recoverable, Exact,
     Settled, GameFits, TradeFits, DeliveryIsNew, TradeIsNew
<1>3. TradeFits'
  BY <1>0, SMTT(20) DEF Held, Delivering, Publishing, NoTxn, TradeFits, TradeIsNew, RecordFits,
     GameFits, Exact, Settled
<1>4. GameFits'
  BY <1>0, SMTT(20) DEF Held, Delivering, Publishing, NoTxn, GameFits, Exact, Settled,
     SavesAreExact, NothingYet, SomeSave, RecordFits, TradeFits, TradeIsNew
<1>5. SavesAreExact'
  <2>1. CASE saves' = saves /\ count'.files = count.files
    BY <1>21, <2>1 DEF SavesAreExact, Exact, Settled, Admissible
  <2>2. CASE /\ thread.at = "play" /\ count'.files = count.files + 1
             /\ saves' = saves \cup {Written(NoTxn, FALSE, barrier, game)}
    BY <1>21, <2>2 DEF SavesAreExact, Exact, Settled, Admissible, Written
  <2> QED
    BY <1>22, <2>1, <2>2
<1>6. NothingYet'
  BY <1>0, SMTT(20) DEF Held, Delivering, Publishing, NoTxn, NothingYet, Settled, TradeFits,
     TradeIsNew, DeliveryIsNew, RecordFits
<1>7. SomeSave'
  BY <1>0, SMTT(20) DEF Held, Delivering, Publishing, NoTxn, SomeSave, Admissible, RecordFits,
     Recoverable, TradeFits, TradeIsNew, Written
<1>8. NumbersFit'
  BY <1>0, <1>20, SMTT(20) DEF Held, Delivering, Publishing, NoTxn, NumbersFit, Used,
     DeliveryIsNew, TradeIsNew, Written
<1>9. TradeIsNew'
  BY <1>0, <1>20, SMTT(20) DEF Held, Delivering, Publishing, NoTxn, TradeIsNew, NumbersFit,
     Used, RecordFits, Written
<1>10. DeliveryIsNew'
  BY <1>0, <1>20, SMTT(20) DEF Held, Delivering, Publishing, NoTxn, DeliveryIsNew, NumbersFit,
     Used, Written
<1> QED
  BY <1>1, <1>2, <1>3, <1>4, <1>5, <1>6, <1>7, <1>8, <1>9, <1>10

LEMMA StartsKeeps == ASSUME RewardInv, Starts PROVE RewardInv'
<1> USE DEF RewardInv
<1>0. /\ thread.at = "down"
      /\ thread'.at = "trade"
      /\ UNCHANGED <<game, saves, barrier, pending, results, trade, ledger, receipts, count>>
  BY SMTT(20) DEF Starts, Goes, RewardTypeOK, Positions, Records, Trades, Ledgers, Counts,
     Games, Barriers, Saves, NoPending, NoTrade, PowerOn, Held, Delivering, Publishing, NoTxn,
     NumbersFit, RecordFits
<1>20. /\ count.txn \in Nat /\ count.files \in Nat /\ receipts \subseteq Nat
       /\ \A s \in saves : s.at \in Nat /\ s.name \in Nat /\ s.tags.trade \in Nat /\ s.tags.gift \in Nat
       /\ barrier.trade \in Nat /\ barrier.gift \in Nat /\ thread.id \in Nat /\ trade.id \in Nat
       /\ pending.id \in Nat /\ pending.trade \in Nat /\ trade.tags.gift \in Nat
  BY NumbersAre
<1>1. RewardTypeOK'
  <2>1. thread' \in Positions
    BY DEF Starts, Goes, RewardTypeOK, Positions, Places, Delivering, Publishing, Recovering
  <2>2. UNCHANGED <<game, saves, barrier, pending, results, trade, ledger, receipts, count>>
    BY DEF Starts
  <2> QED
    BY <2>1, <2>2 DEF RewardTypeOK
<1>2. RecordFits'
  BY <1>0, SMTT(20) DEF Held, Delivering, Publishing, NoTxn, RecordFits, Recoverable, Exact,
     Settled, GameFits, TradeFits, DeliveryIsNew, TradeIsNew
<1>3. TradeFits'
  BY <1>0, SMTT(20) DEF Held, Delivering, Publishing, NoTxn, TradeFits, TradeIsNew, RecordFits,
     GameFits, Exact, Settled
<1>4. GameFits'
  BY <1>0, SMTT(20) DEF Held, Delivering, Publishing, NoTxn, GameFits, Exact, Settled,
     SavesAreExact, NothingYet, SomeSave, RecordFits, TradeFits, TradeIsNew
<1>5. SavesAreExact'
  BY <1>0 DEF SavesAreExact, Exact, Settled, Admissible
<1>6. NothingYet'
  BY <1>0, SMTT(20) DEF Held, Delivering, Publishing, NoTxn, NothingYet, Settled, TradeFits,
     TradeIsNew, DeliveryIsNew, RecordFits
<1>7. SomeSave'
  BY <1>0, SMTT(20) DEF Held, Delivering, Publishing, NoTxn, SomeSave, Admissible, RecordFits,
     Recoverable, TradeFits, TradeIsNew, Written
<1>8. NumbersFit'
  BY <1>0, <1>20, SMTT(20) DEF Held, Delivering, Publishing, NoTxn, NumbersFit, Used,
     DeliveryIsNew, TradeIsNew, Written
<1>9. TradeIsNew'
  BY <1>0, <1>20, SMTT(20) DEF Held, Delivering, Publishing, NoTxn, TradeIsNew, NumbersFit,
     Used, RecordFits, Written
<1>10. DeliveryIsNew'
  BY <1>0, <1>20, SMTT(20) DEF Held, Delivering, Publishing, NoTxn, DeliveryIsNew, NumbersFit,
     Used, Written
<1> QED
  BY <1>1, <1>2, <1>3, <1>4, <1>5, <1>6, <1>7, <1>8, <1>9, <1>10

LEMMA RecoversTradeKeeps == ASSUME RewardInv, RecoversTrade PROVE RewardInv'
<1> USE DEF RewardInv
<1>0. /\ thread.at = "trade"
      /\ thread'.at = "gift"
      /\ count'.txn = count.txn
      /\ \/ /\ trade.phase \in {"committed", "applied"} /\ barrier'.trade = trade.id /\ barrier'.gift = barrier.gift
            /\ \E s \in saves : s.name = trade.id /\ UNCHANGED <<saves, count>>
         \/ /\ trade.phase \in {"committed", "applied"} /\ barrier'.trade = trade.id /\ barrier'.gift = barrier.gift
            /\ count'.files = count.files + 1
            /\ saves' = saves \cup {Written(trade.id, TRUE, [trade |-> trade.id, gift |-> trade.tags.gift],
                                            [got |-> trade.state.got \cup {trade.id}, gifts |-> trade.state.gifts, wins |-> trade.state.wins])}
         \/ trade.phase \notin {"committed", "applied"} /\ UNCHANGED <<saves, barrier, count>>
      /\ UNCHANGED <<game, pending, results, trade, ledger, receipts>>
  <2>1. /\ thread.at = "trade" /\ thread'.at = "gift"
        /\ UNCHANGED <<game, pending, results, trade, ledger, receipts>>
    BY DEF RecoversTrade, Goes, RewardTypeOK, Positions
  <2>2. CASE trade.phase \in {"committed", "applied"}
    <3>1. Promotes
      BY <2>2 DEF RecoversTrade
    <3>2. /\ \/ \E s \in saves : s.name = trade.id /\ UNCHANGED <<saves, count>>
             \/ /\ count'.files = count.files + 1 /\ count'.txn = count.txn
                /\ saves' = saves \cup {Written(trade.id, TRUE, [trade |-> trade.id, gift |-> trade.tags.gift],
                                                [got |-> trade.state.got \cup {trade.id}, gifts |-> trade.state.gifts, wins |-> trade.state.wins])}
          /\ barrier'.trade = trade.id /\ barrier'.gift = barrier.gift
      BY <3>1, PromotionIs
    <3> QED
      BY <2>1, <2>2, <3>2
  <2>3. CASE trade.phase \notin {"committed", "applied"}
    BY <2>1, <2>3 DEF RecoversTrade
  <2> QED
    BY <2>2, <2>3
<1>21. /\ thread.at = "trade"
       /\ thread'.at = "gift"
       /\ count'.txn = count.txn
       /\ UNCHANGED <<game, pending, results, trade, ledger, receipts>>
  BY <1>0
<1>22. \/ /\ trade.phase \in {"committed", "applied"} /\ barrier'.trade = trade.id /\ barrier'.gift = barrier.gift
          /\ \E s \in saves : s.name = trade.id /\ UNCHANGED <<saves, count>>
       \/ /\ trade.phase \in {"committed", "applied"} /\ barrier'.trade = trade.id /\ barrier'.gift = barrier.gift
          /\ count'.files = count.files + 1
          /\ saves' = saves \cup {Written(trade.id, TRUE, [trade |-> trade.id, gift |-> trade.tags.gift],
                                          [got |-> trade.state.got \cup {trade.id}, gifts |-> trade.state.gifts, wins |-> trade.state.wins])}
       \/ trade.phase \notin {"committed", "applied"} /\ UNCHANGED <<saves, barrier, count>>
  BY <1>0
<1>20. /\ count.txn \in Nat /\ count.files \in Nat /\ receipts \subseteq Nat
       /\ \A s \in saves : s.at \in Nat /\ s.name \in Nat /\ s.tags.trade \in Nat /\ s.tags.gift \in Nat
       /\ barrier.trade \in Nat /\ barrier.gift \in Nat /\ thread.id \in Nat /\ trade.id \in Nat
       /\ pending.id \in Nat /\ pending.trade \in Nat /\ trade.tags.gift \in Nat
  BY NumbersAre
<1>1. RewardTypeOK'
  <2>0. trade.phase # "none" => trade.id \in Txn
    BY DEF RewardTypeOK, TradeIsNew, Trades, Txn, NoTxn
  <2>1. thread' \in Positions
    BY DEF RecoversTrade, Goes, RewardTypeOK, Positions, Places, Delivering, Publishing,
       Recovering
  <2>2. saves' \subseteq Saves
    BY PromotionTyped, <2>0 DEF RecoversTrade, RewardTypeOK
  <2>3. count' \in Counts
    BY PromotionTyped, <2>0 DEF RecoversTrade, RewardTypeOK
  <2>4. barrier' \in Barriers
    BY PromotionTyped, <2>0 DEF RecoversTrade, RewardTypeOK
  <2>5. UNCHANGED <<game, pending, results, trade, ledger, receipts>>
    BY DEF RecoversTrade
  <2> QED
    BY <2>1, <2>2, <2>3, <2>4, <2>5 DEF RewardTypeOK
<1>2. RecordFits'
  <2>1. CASE /\ trade.phase \in {"committed", "applied"} /\ barrier'.trade = trade.id /\ barrier'.gift = barrier.gift
             /\ \E s \in saves : s.name = trade.id /\ UNCHANGED <<saves, count>>
    BY <1>21, <2>1, SMTT(20) DEF Held, Delivering, Publishing, NoTxn, RecordFits, Recoverable,
       Exact, Settled, GameFits, TradeFits, DeliveryIsNew, TradeIsNew
  <2>2. CASE /\ trade.phase \in {"committed", "applied"} /\ barrier'.trade = trade.id /\ barrier'.gift = barrier.gift
             /\ count'.files = count.files + 1
             /\ saves' = saves \cup {Written(trade.id, TRUE, [trade |-> trade.id, gift |-> trade.tags.gift],
                                             [got |-> trade.state.got \cup {trade.id}, gifts |-> trade.state.gifts, wins |-> trade.state.wins])}
    BY <1>21, <2>2, SMTT(20) DEF Held, Delivering, Publishing, NoTxn, RecordFits, Recoverable,
       Exact, Settled, GameFits, TradeFits, DeliveryIsNew, TradeIsNew
  <2>3. CASE trade.phase \notin {"committed", "applied"} /\ UNCHANGED <<saves, barrier, count>>
    BY <1>21, <2>3, SMTT(20) DEF Held, Delivering, Publishing, NoTxn, RecordFits, Recoverable,
       Exact, Settled, GameFits, TradeFits, DeliveryIsNew, TradeIsNew
  <2> QED
    BY <1>22, <2>1, <2>2, <2>3
<1>3. TradeFits'
  <2>1. CASE /\ trade.phase \in {"committed", "applied"} /\ barrier'.trade = trade.id /\ barrier'.gift = barrier.gift
             /\ \E s \in saves : s.name = trade.id /\ UNCHANGED <<saves, count>>
    BY <1>21, <2>1, SMTT(20) DEF Held, Delivering, Publishing, NoTxn, TradeFits, TradeIsNew,
       RecordFits, GameFits, Exact, Settled
  <2>2. CASE /\ trade.phase \in {"committed", "applied"} /\ barrier'.trade = trade.id /\ barrier'.gift = barrier.gift
             /\ count'.files = count.files + 1
             /\ saves' = saves \cup {Written(trade.id, TRUE, [trade |-> trade.id, gift |-> trade.tags.gift],
                                             [got |-> trade.state.got \cup {trade.id}, gifts |-> trade.state.gifts, wins |-> trade.state.wins])}
    BY <1>21, <2>2, SMTT(20) DEF Held, Delivering, Publishing, NoTxn, TradeFits, TradeIsNew,
       RecordFits, GameFits, Exact, Settled
  <2>3. CASE trade.phase \notin {"committed", "applied"} /\ UNCHANGED <<saves, barrier, count>>
    BY <1>21, <2>3, SMTT(20) DEF Held, Delivering, Publishing, NoTxn, TradeFits, TradeIsNew,
       RecordFits, GameFits, Exact, Settled
  <2> QED
    BY <1>22, <2>1, <2>2, <2>3
<1>4. GameFits'
  BY <1>0, SMTT(20) DEF Held, Delivering, Publishing, NoTxn, GameFits, Exact, Settled,
     SavesAreExact, NothingYet, SomeSave, RecordFits, TradeFits, TradeIsNew
<1>5. SavesAreExact'
  <2>1. CASE /\ trade.phase \in {"committed", "applied"} /\ barrier'.trade = trade.id /\ barrier'.gift = barrier.gift
             /\ \E s \in saves : s.name = trade.id /\ UNCHANGED <<saves, count>>
    BY <1>21, <2>1, SMTT(20) DEF Held, Delivering, Publishing, NoTxn, SavesAreExact, Admissible,
       Exact, Settled, RecordFits, TradeFits, GameFits, TradeIsNew, DeliveryIsNew, Written
  <2>2. CASE /\ trade.phase \in {"committed", "applied"} /\ barrier'.trade = trade.id /\ barrier'.gift = barrier.gift
             /\ count'.files = count.files + 1
             /\ saves' = saves \cup {Written(trade.id, TRUE, [trade |-> trade.id, gift |-> trade.tags.gift],
                                             [got |-> trade.state.got \cup {trade.id}, gifts |-> trade.state.gifts, wins |-> trade.state.wins])}
    <3> DEFINE new == Written(trade.id, TRUE, [trade |-> trade.id, gift |-> trade.tags.gift],
                          [got |-> trade.state.got \cup {trade.id}, gifts |-> trade.state.gifts, wins |-> trade.state.wins])
    <3>1. trade.id # NoTxn /\ trade.id \in receipts
      BY <1>21, <2>2 DEF TradeFits, TradeIsNew
    <3>2. new.state.got = receipts /\ new.state.gifts = ledger.delivered
      BY <1>21, <2>2, <3>1 DEF TradeFits, Held, Written
    <3>3. Settled' = receipts
      BY <1>21, <2>2 DEF Settled
    <3>4. ASSUME NEW s \in saves, Admissible(s)' PROVE Exact(s.state)'
      <4>1. s.tags.trade = trade.id /\ (barrier.gift # NoTxn => s.tags.gift = barrier.gift) /\ s.whole
        BY <1>21, <2>2, <3>1, <3>4 DEF Admissible
      <4>2. barrier.trade = trade.id
        BY <1>21, <2>2, <4>1 DEF TradeIsNew
      <4>3. Admissible(s) /\ Settled = receipts
        BY <4>1, <4>2 DEF Admissible, Settled
      <4> QED
        BY <1>21, <3>3, <4>3 DEF SavesAreExact, Exact
    <3> QED
      BY <1>21, <2>2, <3>2, <3>3, <3>4 DEF SavesAreExact, Exact
  <2>3. CASE trade.phase \notin {"committed", "applied"} /\ UNCHANGED <<saves, barrier, count>>
    BY <1>21, <2>3, SMTT(20) DEF Held, Delivering, Publishing, NoTxn, SavesAreExact, Admissible,
       Exact, Settled, RecordFits, TradeFits, GameFits, TradeIsNew, DeliveryIsNew, Written
  <2> QED
    BY <1>22, <2>1, <2>2, <2>3
<1>6. NothingYet'
  <2>1. CASE /\ trade.phase \in {"committed", "applied"} /\ barrier'.trade = trade.id /\ barrier'.gift = barrier.gift
             /\ \E s \in saves : s.name = trade.id /\ UNCHANGED <<saves, count>>
    BY <1>21, <2>1, SMTT(20) DEF Held, Delivering, Publishing, NoTxn, NothingYet, Settled,
       TradeFits, TradeIsNew, DeliveryIsNew, RecordFits
  <2>2. CASE /\ trade.phase \in {"committed", "applied"} /\ barrier'.trade = trade.id /\ barrier'.gift = barrier.gift
             /\ count'.files = count.files + 1
             /\ saves' = saves \cup {Written(trade.id, TRUE, [trade |-> trade.id, gift |-> trade.tags.gift],
                                             [got |-> trade.state.got \cup {trade.id}, gifts |-> trade.state.gifts, wins |-> trade.state.wins])}
    BY <1>21, <2>2, SMTT(20) DEF Held, Delivering, Publishing, NoTxn, NothingYet, Settled,
       TradeFits, TradeIsNew, DeliveryIsNew, RecordFits
  <2>3. CASE trade.phase \notin {"committed", "applied"} /\ UNCHANGED <<saves, barrier, count>>
    BY <1>21, <2>3, SMTT(20) DEF Held, Delivering, Publishing, NoTxn, NothingYet, Settled,
       TradeFits, TradeIsNew, DeliveryIsNew, RecordFits
  <2> QED
    BY <1>22, <2>1, <2>2, <2>3
<1>7. SomeSave'
  <2>1. CASE /\ trade.phase \in {"committed", "applied"} /\ barrier'.trade = trade.id /\ barrier'.gift = barrier.gift
             /\ \E s \in saves : s.name = trade.id /\ UNCHANGED <<saves, count>>
    BY <1>21, <2>1, SMTT(20) DEF Held, Delivering, Publishing, NoTxn, SomeSave, Admissible,
       RecordFits, Recoverable, TradeFits, TradeIsNew, Written
  <2>2. CASE /\ trade.phase \in {"committed", "applied"} /\ barrier'.trade = trade.id /\ barrier'.gift = barrier.gift
             /\ count'.files = count.files + 1
             /\ saves' = saves \cup {Written(trade.id, TRUE, [trade |-> trade.id, gift |-> trade.tags.gift],
                                             [got |-> trade.state.got \cup {trade.id}, gifts |-> trade.state.gifts, wins |-> trade.state.wins])}
    <3> DEFINE new == Written(trade.id, TRUE, [trade |-> trade.id, gift |-> trade.tags.gift],
                          [got |-> trade.state.got \cup {trade.id}, gifts |-> trade.state.gifts, wins |-> trade.state.wins])
    <3>1. trade.tags.gift = barrier.gift
      BY <1>21, <2>2 DEF TradeFits, Held
    <3>2. /\ new \in saves' /\ new.whole /\ new.tags.trade = trade.id /\ new.tags.gift = trade.tags.gift
      BY <2>2 DEF Written
    <3>3. barrier'.trade = trade.id /\ barrier'.gift = trade.tags.gift
      BY <1>21, <2>2, <3>1
    <3> HIDE DEF new
    <3> QED
      BY <3>2, <3>3 DEF SomeSave, Admissible
  <2>3. CASE trade.phase \notin {"committed", "applied"} /\ UNCHANGED <<saves, barrier, count>>
    BY <1>21, <2>3, SMTT(20) DEF Held, Delivering, Publishing, NoTxn, SomeSave, Admissible,
       RecordFits, Recoverable, TradeFits, TradeIsNew, Written
  <2> QED
    BY <1>22, <2>1, <2>2, <2>3
<1>8. NumbersFit'
  <2>1. CASE /\ trade.phase \in {"committed", "applied"} /\ barrier'.trade = trade.id /\ barrier'.gift = barrier.gift
             /\ \E s \in saves : s.name = trade.id /\ UNCHANGED <<saves, count>>
    BY <1>21, <2>1, <1>20, SMTT(20) DEF Held, Delivering, Publishing, NoTxn, NumbersFit, Used,
       DeliveryIsNew, TradeIsNew, Written
  <2>2. CASE /\ trade.phase \in {"committed", "applied"} /\ barrier'.trade = trade.id /\ barrier'.gift = barrier.gift
             /\ count'.files = count.files + 1
             /\ saves' = saves \cup {Written(trade.id, TRUE, [trade |-> trade.id, gift |-> trade.tags.gift],
                                             [got |-> trade.state.got \cup {trade.id}, gifts |-> trade.state.gifts, wins |-> trade.state.wins])}
    <3> DEFINE new == Written(trade.id, TRUE, [trade |-> trade.id, gift |-> trade.tags.gift],
                          [got |-> trade.state.got \cup {trade.id}, gifts |-> trade.state.gifts, wins |-> trade.state.wins])
    <3>1. trade.tags.gift = barrier.gift
      BY <1>21, <2>2 DEF TradeFits, Held
    <3>2. new.at = count.files + 1 /\ new.name = trade.id /\ new.tags.trade = trade.id /\ new.tags.gift = trade.tags.gift
      BY DEF Written
    <3>3. \A s \in saves' : s \in saves \/ s = new
      BY <2>2
    <3>4. /\ UNCHANGED <<receipts>> /\ count'.txn = count.txn /\ count'.files = count.files + 1 /\ count.files \in Nat
          /\ barrier'.trade = trade.id /\ barrier'.gift = barrier.gift /\ trade'.id = trade.id /\ UNCHANGED <<pending>>
      BY <1>20, <1>21, <2>2
    <3> HIDE DEF new
    <3>5. ASSUME NEW s \in saves PROVE s.at <= count'.files /\ s.at \in Nat
      BY <1>20, <3>4 DEF NumbersFit
    <3>6. new.at <= count'.files
      BY <3>2, <3>4
    <3>7. \A s \in saves' : s.at <= count'.files
      BY <3>3, <3>5, <3>6
    <3>8. \A n : Used(n)' <=> Used(n)
      BY <3>4 DEF Used
    <3> QED
      BY <3>1, <3>2, <3>3, <3>4, <3>7, <3>8 DEF NumbersFit
  <2>3. CASE trade.phase \notin {"committed", "applied"} /\ UNCHANGED <<saves, barrier, count>>
    BY <1>21, <2>3 DEF NumbersFit, Used
  <2> QED
    BY <1>22, <2>1, <2>2, <2>3
<1>9. TradeIsNew'
  BY <1>0, <1>20, SMTT(20) DEF Held, Delivering, Publishing, NoTxn, TradeIsNew, NumbersFit,
     Used, RecordFits, Written
<1>10. DeliveryIsNew'
  BY <1>0, <1>20, SMTT(20) DEF Held, Delivering, Publishing, NoTxn, DeliveryIsNew, NumbersFit,
     Used, Written
<1> QED
  BY <1>1, <1>2, <1>3, <1>4, <1>5, <1>6, <1>7, <1>8, <1>9, <1>10

LEMMA RecoversGiftKeeps == ASSUME RewardInv, RecoversGift PROVE RewardInv'
<1> USE DEF RewardInv
<1>0. /\ count'.txn = count.txn
      /\ \/ /\ thread.at = "gift" /\ pending.phase # "committed" /\ thread'.at = "restore" /\ UNCHANGED <<saves, count>>
            /\ pending'.phase # "committed" /\ pending'.id \in {0, pending.id}
         \/ /\ pending.phase = "committed" /\ Recoverable /\ thread.at = "gift" /\ thread'.at = "gift_bare" /\ pending' = pending /\ count'.files = count.files + 1
            /\ saves' = {s \in saves : s.name # pending.id} \cup {Written(pending.id, FALSE, [trade |-> pending.trade, gift |-> pending.id], pending.state)}
         \/ /\ pending.phase = "committed" /\ Recoverable /\ thread.at = "gift_bare" /\ thread'.at = "gift_whole" /\ pending' = pending /\ count'.files = count.files + 1
            /\ saves' = {s \in saves : s.name # pending.id} \cup {Written(pending.id, TRUE, [trade |-> pending.trade, gift |-> pending.id], pending.state)}
         \/ /\ pending.phase = "committed" /\ Recoverable /\ thread.at = "gift_whole" /\ thread'.at = "restore" /\ UNCHANGED <<saves, count>>
            /\ pending'.phase = "complete" /\ pending'.id = pending.id /\ pending'.trade = pending.trade /\ pending'.state = pending.state
      /\ UNCHANGED <<game, barrier, results, trade, ledger, receipts>>
  <2>0. UNCHANGED <<game, barrier, results, trade, ledger, receipts>>
    BY DEF RecoversGift
  <2>1. CASE /\ pending.phase = "committed" /\ Recoverable
             /\ thread.at = "gift" /\ Goes("gift_bare") /\ File(FALSE) /\ UNCHANGED pending
    <3>1. thread'.at = "gift_bare"
      BY <2>1 DEF Goes, RewardTypeOK, Positions
    <3>2. /\ count'.txn = count.txn /\ count'.files = count.files + 1
          /\ saves' = {s \in saves : s.name # pending.id}
                         \cup {Written(pending.id, FALSE, [trade |-> pending.trade, gift |-> pending.id], pending.state)}
      BY <2>1 DEF File, RewardTypeOK, Counts
    <3> QED
      BY <2>0, <2>1, <3>1, <3>2
  <2>2. CASE /\ pending.phase = "committed" /\ Recoverable
             /\ thread.at = "gift_bare" /\ Goes("gift_whole") /\ File(TRUE) /\ UNCHANGED pending
    <3>1. thread'.at = "gift_whole"
      BY <2>2 DEF Goes, RewardTypeOK, Positions
    <3>2. /\ count'.txn = count.txn /\ count'.files = count.files + 1
          /\ saves' = {s \in saves : s.name # pending.id}
                         \cup {Written(pending.id, TRUE, [trade |-> pending.trade, gift |-> pending.id], pending.state)}
      BY <2>2 DEF File, RewardTypeOK, Counts
    <3> QED
      BY <2>0, <2>2, <3>1, <3>2
  <2>3. CASE /\ pending.phase = "committed" /\ Recoverable
             /\ thread.at = "gift_whole" /\ Goes("restore")
             /\ pending' = [pending EXCEPT !.phase = "complete"] /\ UNCHANGED <<saves, count>>
    <3>1. thread'.at = "restore"
      BY <2>3 DEF Goes, RewardTypeOK, Positions
    <3>2. /\ pending'.phase = "complete" /\ pending'.id = pending.id
          /\ pending'.trade = pending.trade /\ pending'.state = pending.state
      BY <2>3 DEF RewardTypeOK, Records
    <3> QED
      BY <2>0, <2>3, <3>1, <3>2
  <2>4. CASE /\ thread.at = "gift" /\ pending.phase # "committed" /\ Goes("restore")
             /\ pending' = IF pending.phase = "staged" THEN NoPending ELSE pending
             /\ UNCHANGED <<saves, count>>
    <3>1. thread'.at = "restore"
      BY <2>4 DEF Goes, RewardTypeOK, Positions
    <3>2. pending'.phase # "committed" /\ pending'.id \in {0, pending.id}
      BY <2>4 DEF NoPending, NoTxn
    <3> QED
      BY <2>0, <2>4, <3>1, <3>2
  <2> QED
    BY <2>1, <2>2, <2>3, <2>4 DEF RecoversGift, Publishes
<1>21. /\ count'.txn = count.txn
       /\ UNCHANGED <<game, barrier, results, trade, ledger, receipts>>
  BY <1>0
<1>22. \/ /\ thread.at = "gift" /\ pending.phase # "committed" /\ thread'.at = "restore" /\ UNCHANGED <<saves, count>>
          /\ pending'.phase # "committed" /\ pending'.id \in {0, pending.id}
       \/ /\ pending.phase = "committed" /\ Recoverable /\ thread.at = "gift" /\ thread'.at = "gift_bare" /\ pending' = pending /\ count'.files = count.files + 1
          /\ saves' = {s \in saves : s.name # pending.id} \cup {Written(pending.id, FALSE, [trade |-> pending.trade, gift |-> pending.id], pending.state)}
       \/ /\ pending.phase = "committed" /\ Recoverable /\ thread.at = "gift_bare" /\ thread'.at = "gift_whole" /\ pending' = pending /\ count'.files = count.files + 1
          /\ saves' = {s \in saves : s.name # pending.id} \cup {Written(pending.id, TRUE, [trade |-> pending.trade, gift |-> pending.id], pending.state)}
       \/ /\ pending.phase = "committed" /\ Recoverable /\ thread.at = "gift_whole" /\ thread'.at = "restore" /\ UNCHANGED <<saves, count>>
          /\ pending'.phase = "complete" /\ pending'.id = pending.id /\ pending'.trade = pending.trade /\ pending'.state = pending.state
  BY <1>0
<1>20. /\ count.txn \in Nat /\ count.files \in Nat /\ receipts \subseteq Nat
       /\ \A s \in saves : s.at \in Nat /\ s.name \in Nat /\ s.tags.trade \in Nat /\ s.tags.gift \in Nat
       /\ barrier.trade \in Nat /\ barrier.gift \in Nat /\ thread.id \in Nat /\ trade.id \in Nat
       /\ pending.id \in Nat /\ pending.trade \in Nat /\ trade.tags.gift \in Nat
  BY NumbersAre
<1>1. RewardTypeOK'
  <2>1. thread' \in Positions
    BY DEF RecoversGift, Publishes, Goes, RewardTypeOK, Positions, Places, Delivering,
       Publishing, Recovering
  <2>2. saves' \subseteq Saves
    BY FileTyped DEF RecoversGift, Publishes, RewardTypeOK
  <2>3. count' \in Counts
    BY FileTyped DEF RecoversGift, Publishes, RewardTypeOK
  <2>4. pending' \in Records
    BY NoneTyped DEF RecoversGift, Publishes, RewardTypeOK, Records
  <2>5. UNCHANGED <<game, barrier, results, trade, ledger, receipts>>
    BY DEF RecoversGift
  <2> QED
    BY <2>1, <2>2, <2>3, <2>4, <2>5 DEF RewardTypeOK
<1>2. RecordFits'
  <2>1. CASE /\ thread.at = "gift" /\ pending.phase # "committed" /\ thread'.at = "restore" /\ UNCHANGED <<saves, count>>
             /\ pending'.phase # "committed" /\ pending'.id \in {0, pending.id}
    BY <1>21, <2>1, SMTT(20) DEF Held, Delivering, Publishing, NoTxn, RecordFits, Recoverable,
       Exact, Settled, GameFits, TradeFits, DeliveryIsNew, TradeIsNew
  <2>2. CASE /\ pending.phase = "committed" /\ Recoverable /\ thread.at = "gift" /\ thread'.at = "gift_bare" /\ pending' = pending /\ count'.files = count.files + 1
             /\ saves' = {s \in saves : s.name # pending.id} \cup {Written(pending.id, FALSE, [trade |-> pending.trade, gift |-> pending.id], pending.state)}
    BY <1>21, <2>2, SMTT(20) DEF Held, Delivering, Publishing, NoTxn, RecordFits, Recoverable,
       Exact, Settled, GameFits, TradeFits, DeliveryIsNew, TradeIsNew
  <2>3. CASE /\ pending.phase = "committed" /\ Recoverable /\ thread.at = "gift_bare" /\ thread'.at = "gift_whole" /\ pending' = pending /\ count'.files = count.files + 1
             /\ saves' = {s \in saves : s.name # pending.id} \cup {Written(pending.id, TRUE, [trade |-> pending.trade, gift |-> pending.id], pending.state)}
    BY <1>21, <2>3, SMTT(20) DEF Held, Delivering, Publishing, NoTxn, RecordFits, Recoverable,
       Exact, Settled, GameFits, TradeFits, DeliveryIsNew, TradeIsNew
  <2>4. CASE /\ pending.phase = "committed" /\ Recoverable /\ thread.at = "gift_whole" /\ thread'.at = "restore" /\ UNCHANGED <<saves, count>>
             /\ pending'.phase = "complete" /\ pending'.id = pending.id /\ pending'.trade = pending.trade /\ pending'.state = pending.state
    BY <1>21, <2>4, SMTT(20) DEF Held, Delivering, Publishing, NoTxn, RecordFits, Recoverable,
       Exact, Settled, GameFits, TradeFits, DeliveryIsNew, TradeIsNew
  <2> QED
    BY <1>22, <2>1, <2>2, <2>3, <2>4
<1>3. TradeFits'
  BY <1>0, SMTT(20) DEF Held, Delivering, Publishing, NoTxn, TradeFits, TradeIsNew, RecordFits,
     GameFits, Exact, Settled
<1>4. GameFits'
  <2>1. CASE /\ thread.at = "gift" /\ pending.phase # "committed" /\ thread'.at = "restore" /\ UNCHANGED <<saves, count>>
             /\ pending'.phase # "committed" /\ pending'.id \in {0, pending.id}
    BY <1>21, <2>1, SMTT(20) DEF Held, Delivering, Publishing, NoTxn, GameFits, Exact, Settled,
       SavesAreExact, NothingYet, SomeSave, RecordFits, TradeFits, TradeIsNew
  <2>2. CASE /\ pending.phase = "committed" /\ Recoverable /\ thread.at = "gift" /\ thread'.at = "gift_bare" /\ pending' = pending /\ count'.files = count.files + 1
             /\ saves' = {s \in saves : s.name # pending.id} \cup {Written(pending.id, FALSE, [trade |-> pending.trade, gift |-> pending.id], pending.state)}
    BY <1>21, <2>2, SMTT(20) DEF Held, Delivering, Publishing, NoTxn, GameFits, Exact, Settled,
       SavesAreExact, NothingYet, SomeSave, RecordFits, TradeFits, TradeIsNew
  <2>3. CASE /\ pending.phase = "committed" /\ Recoverable /\ thread.at = "gift_bare" /\ thread'.at = "gift_whole" /\ pending' = pending /\ count'.files = count.files + 1
             /\ saves' = {s \in saves : s.name # pending.id} \cup {Written(pending.id, TRUE, [trade |-> pending.trade, gift |-> pending.id], pending.state)}
    BY <1>21, <2>3, SMTT(20) DEF Held, Delivering, Publishing, NoTxn, GameFits, Exact, Settled,
       SavesAreExact, NothingYet, SomeSave, RecordFits, TradeFits, TradeIsNew
  <2>4. CASE /\ pending.phase = "committed" /\ Recoverable /\ thread.at = "gift_whole" /\ thread'.at = "restore" /\ UNCHANGED <<saves, count>>
             /\ pending'.phase = "complete" /\ pending'.id = pending.id /\ pending'.trade = pending.trade /\ pending'.state = pending.state
    BY <1>21, <2>4, SMTT(20) DEF Held, Delivering, Publishing, NoTxn, GameFits, Exact, Settled,
       SavesAreExact, NothingYet, SomeSave, RecordFits, TradeFits, TradeIsNew
  <2> QED
    BY <1>22, <2>1, <2>2, <2>3, <2>4
<1>5. SavesAreExact'
  <2>1. CASE /\ thread.at = "gift" /\ pending.phase # "committed" /\ thread'.at = "restore" /\ UNCHANGED <<saves, count>>
             /\ pending'.phase # "committed" /\ pending'.id \in {0, pending.id}
    BY <1>21, <2>1 DEF SavesAreExact, Exact, Settled, Admissible
  <2>2. CASE /\ pending.phase = "committed" /\ Recoverable /\ thread.at = "gift" /\ thread'.at = "gift_bare" /\ pending' = pending /\ count'.files = count.files + 1
             /\ saves' = {s \in saves : s.name # pending.id} \cup {Written(pending.id, FALSE, [trade |-> pending.trade, gift |-> pending.id], pending.state)}
    BY <1>21, <2>2, SMTT(20) DEF Held, Delivering, Publishing, NoTxn, SavesAreExact, Admissible,
       Exact, Settled, RecordFits, TradeFits, GameFits, TradeIsNew, DeliveryIsNew, Written
  <2>3. CASE /\ pending.phase = "committed" /\ Recoverable /\ thread.at = "gift_bare" /\ thread'.at = "gift_whole" /\ pending' = pending /\ count'.files = count.files + 1
             /\ saves' = {s \in saves : s.name # pending.id} \cup {Written(pending.id, TRUE, [trade |-> pending.trade, gift |-> pending.id], pending.state)}
    BY <1>21, <2>3, SMTT(20) DEF Held, Delivering, Publishing, NoTxn, SavesAreExact, Admissible,
       Exact, Settled, RecordFits, TradeFits, GameFits, TradeIsNew, DeliveryIsNew, Written
  <2>4. CASE /\ pending.phase = "committed" /\ Recoverable /\ thread.at = "gift_whole" /\ thread'.at = "restore" /\ UNCHANGED <<saves, count>>
             /\ pending'.phase = "complete" /\ pending'.id = pending.id /\ pending'.trade = pending.trade /\ pending'.state = pending.state
    BY <1>21, <2>4, SMTT(20) DEF Held, Delivering, Publishing, NoTxn, SavesAreExact, Admissible,
       Exact, Settled, RecordFits, TradeFits, GameFits, TradeIsNew, DeliveryIsNew, Written
  <2> QED
    BY <1>22, <2>1, <2>2, <2>3, <2>4
<1>6. NothingYet'
  BY <1>0, SMTT(20) DEF Held, Delivering, Publishing, NoTxn, NothingYet, Settled, TradeFits,
     TradeIsNew, DeliveryIsNew, RecordFits
<1>7. SomeSave'
  <2>1. CASE /\ thread.at = "gift" /\ pending.phase # "committed" /\ thread'.at = "restore" /\ UNCHANGED <<saves, count>>
             /\ pending'.phase # "committed" /\ pending'.id \in {0, pending.id}
    BY <1>21, <2>1, SMTT(20) DEF Held, Delivering, Publishing, NoTxn, SomeSave, Admissible,
       RecordFits, Recoverable, TradeFits, TradeIsNew, Written
  <2>2. CASE /\ pending.phase = "committed" /\ Recoverable /\ thread.at = "gift" /\ thread'.at = "gift_bare" /\ pending' = pending /\ count'.files = count.files + 1
             /\ saves' = {s \in saves : s.name # pending.id} \cup {Written(pending.id, FALSE, [trade |-> pending.trade, gift |-> pending.id], pending.state)}
    BY <1>21, <2>2, SMTT(20) DEF Held, Delivering, Publishing, NoTxn, SomeSave, Admissible,
       RecordFits, Recoverable, TradeFits, TradeIsNew, Written
  <2>3. CASE /\ pending.phase = "committed" /\ Recoverable /\ thread.at = "gift_bare" /\ thread'.at = "gift_whole" /\ pending' = pending /\ count'.files = count.files + 1
             /\ saves' = {s \in saves : s.name # pending.id} \cup {Written(pending.id, TRUE, [trade |-> pending.trade, gift |-> pending.id], pending.state)}
    <3> DEFINE new == Written(pending.id, TRUE, [trade |-> pending.trade, gift |-> pending.id], pending.state)
    <3>1. barrier.gift = pending.id /\ barrier.trade = pending.trade
      BY <1>21, <2>3 DEF RecordFits, Recoverable
    <3>2. /\ new \in saves' /\ new.whole /\ new.tags.trade = pending.trade /\ new.tags.gift = pending.id
      BY <2>3 DEF Written
    <3>3. barrier'.trade = pending.trade /\ barrier'.gift = pending.id
      BY <1>21, <2>3, <3>1
    <3> HIDE DEF new
    <3> QED
      BY <3>2, <3>3 DEF SomeSave, Admissible
  <2>4. CASE /\ pending.phase = "committed" /\ Recoverable /\ thread.at = "gift_whole" /\ thread'.at = "restore" /\ UNCHANGED <<saves, count>>
             /\ pending'.phase = "complete" /\ pending'.id = pending.id /\ pending'.trade = pending.trade /\ pending'.state = pending.state
    BY <1>21, <2>4, SMTT(20) DEF Held, Delivering, Publishing, NoTxn, SomeSave, Admissible,
       RecordFits, Recoverable, TradeFits, TradeIsNew, Written
  <2> QED
    BY <1>22, <2>1, <2>2, <2>3, <2>4
<1>8. NumbersFit'
  <2>1. CASE /\ thread.at = "gift" /\ pending.phase # "committed" /\ thread'.at = "restore" /\ UNCHANGED <<saves, count>>
             /\ pending'.phase # "committed" /\ pending'.id \in {0, pending.id}
    BY <1>21, <2>1, <1>20, SMTT(20) DEF Held, Delivering, Publishing, NoTxn, NumbersFit, Used,
       DeliveryIsNew, TradeIsNew, Written
  <2>2. CASE /\ pending.phase = "committed" /\ Recoverable /\ thread.at = "gift" /\ thread'.at = "gift_bare" /\ pending' = pending /\ count'.files = count.files + 1
             /\ saves' = {s \in saves : s.name # pending.id} \cup {Written(pending.id, FALSE, [trade |-> pending.trade, gift |-> pending.id], pending.state)}
    <3> DEFINE new == Written(pending.id, FALSE, [trade |-> pending.trade, gift |-> pending.id], pending.state)
    <3>1. barrier.trade = pending.trade
      BY <1>21, <2>2 DEF RecordFits, Recoverable
    <3>2. new.at = count.files + 1 /\ new.name = pending.id /\ new.tags.trade = pending.trade /\ new.tags.gift = pending.id
      BY DEF Written
    <3>3. \A s \in saves' : s \in saves \/ s = new
      BY <2>2
    <3>4. /\ UNCHANGED <<receipts>> /\ count'.txn = count.txn /\ count'.files = count.files + 1 /\ count.files \in Nat
          /\ UNCHANGED <<barrier, trade, pending>>
      BY <1>20, <1>21, <2>2
    <3> HIDE DEF new
    <3>5. ASSUME NEW s \in saves PROVE s.at <= count'.files /\ s.at \in Nat
      BY <1>20, <3>4 DEF NumbersFit
    <3>6. new.at <= count'.files
      BY <3>2, <3>4
    <3>7. \A s \in saves' : s.at <= count'.files
      BY <3>3, <3>5, <3>6
    <3>8. \A n : Used(n)' <=> Used(n)
      BY <3>4 DEF Used
    <3> QED
      BY <3>1, <3>2, <3>3, <3>4, <3>7, <3>8 DEF NumbersFit
  <2>3. CASE /\ pending.phase = "committed" /\ Recoverable /\ thread.at = "gift_bare" /\ thread'.at = "gift_whole" /\ pending' = pending /\ count'.files = count.files + 1
             /\ saves' = {s \in saves : s.name # pending.id} \cup {Written(pending.id, TRUE, [trade |-> pending.trade, gift |-> pending.id], pending.state)}
    <3> DEFINE new == Written(pending.id, TRUE, [trade |-> pending.trade, gift |-> pending.id], pending.state)
    <3>1. barrier.trade = pending.trade
      BY <1>21, <2>3 DEF RecordFits, Recoverable
    <3>2. new.at = count.files + 1 /\ new.name = pending.id /\ new.tags.trade = pending.trade /\ new.tags.gift = pending.id
      BY DEF Written
    <3>3. \A s \in saves' : s \in saves \/ s = new
      BY <2>3
    <3>4. /\ UNCHANGED <<receipts>> /\ count'.txn = count.txn /\ count'.files = count.files + 1 /\ count.files \in Nat
          /\ UNCHANGED <<barrier, trade, pending>>
      BY <1>20, <1>21, <2>3
    <3> HIDE DEF new
    <3>5. ASSUME NEW s \in saves PROVE s.at <= count'.files /\ s.at \in Nat
      BY <1>20, <3>4 DEF NumbersFit
    <3>6. new.at <= count'.files
      BY <3>2, <3>4
    <3>7. \A s \in saves' : s.at <= count'.files
      BY <3>3, <3>5, <3>6
    <3>8. \A n : Used(n)' <=> Used(n)
      BY <3>4 DEF Used
    <3> QED
      BY <3>1, <3>2, <3>3, <3>4, <3>7, <3>8 DEF NumbersFit
  <2>4. CASE /\ pending.phase = "committed" /\ Recoverable /\ thread.at = "gift_whole" /\ thread'.at = "restore" /\ UNCHANGED <<saves, count>>
             /\ pending'.phase = "complete" /\ pending'.id = pending.id /\ pending'.trade = pending.trade /\ pending'.state = pending.state
    BY <1>21, <2>4, <1>20, SMTT(20) DEF Held, Delivering, Publishing, NoTxn, NumbersFit, Used,
       DeliveryIsNew, TradeIsNew, Written
  <2> QED
    BY <1>22, <2>1, <2>2, <2>3, <2>4
<1>9. TradeIsNew'
  BY <1>0, <1>20, SMTT(20) DEF Held, Delivering, Publishing, NoTxn, TradeIsNew, NumbersFit,
     Used, RecordFits, Written
<1>10. DeliveryIsNew'
  BY <1>0, <1>20, SMTT(20) DEF Held, Delivering, Publishing, NoTxn, DeliveryIsNew, NumbersFit,
     Used, Written
<1> QED
  BY <1>1, <1>2, <1>3, <1>4, <1>5, <1>6, <1>7, <1>8, <1>9, <1>10

LEMMA RestoresKeeps == ASSUME RewardInv, Restores PROVE RewardInv'
<1> USE DEF RewardInv
<1>0. /\ thread.at = "restore"
      /\ thread'.at = "play"
      /\ \/ saves = {} /\ game'.got = {} /\ game'.gifts = 0
         \/ \E s \in saves : Admissible(s) /\ game'.got = s.state.got /\ game'.gifts = s.state.gifts
      /\ ledger'.delivered = ledger.delivered
      /\ UNCHANGED <<saves, barrier, pending, results, trade, receipts, count>>
  BY SMTT(20) DEF Restores, Rests, Loads, Larger, RewardTypeOK, Positions, Records, Trades,
     Ledgers, Counts, Games, Barriers, Saves, NoPending, NoTrade, PowerOn, Held, Delivering,
     Publishing, NoTxn, NumbersFit, RecordFits
<1>21. /\ thread.at = "restore"
       /\ thread'.at = "play"
       /\ ledger'.delivered = ledger.delivered
       /\ UNCHANGED <<saves, barrier, pending, results, trade, receipts, count>>
  BY <1>0
<1>22. \/ saves = {} /\ game'.got = {} /\ game'.gifts = 0
       \/ \E s \in saves : Admissible(s) /\ game'.got = s.state.got /\ game'.gifts = s.state.gifts
  BY <1>0
<1>20. /\ count.txn \in Nat /\ count.files \in Nat /\ receipts \subseteq Nat
       /\ \A s \in saves : s.at \in Nat /\ s.name \in Nat /\ s.tags.trade \in Nat /\ s.tags.gift \in Nat
       /\ barrier.trade \in Nat /\ barrier.gift \in Nat /\ thread.id \in Nat /\ trade.id \in Nat
       /\ pending.id \in Nat /\ pending.trade \in Nat /\ trade.tags.gift \in Nat
  BY NumbersAre
<1>1. RewardTypeOK'
  <2>1. thread' \in Positions
    BY RestTyped DEF Restores
  <2>2. game' \in Games
    BY LoadTyped DEF Restores, RewardTypeOK, Saves, Ledgers, Games, PowerOn
  <2>3. ledger' \in Ledgers
    BY <2>2 DEF Restores, RewardTypeOK, Ledgers, Games, Larger
  <2>4. UNCHANGED <<saves, barrier, pending, results, trade, receipts, count>>
    BY DEF Restores
  <2> QED
    BY <2>1, <2>2, <2>3, <2>4 DEF RewardTypeOK
<1>2. RecordFits'
  BY <1>0, SMTT(20) DEF Held, Delivering, Publishing, NoTxn, RecordFits, Recoverable, Exact,
     Settled, GameFits, TradeFits, DeliveryIsNew, TradeIsNew
<1>3. TradeFits'
  BY <1>0, SMTT(20) DEF Held, Delivering, Publishing, NoTxn, TradeFits, TradeIsNew, RecordFits,
     GameFits, Exact, Settled
<1>4. GameFits'
  BY <1>0, SMTT(20) DEF Held, Delivering, Publishing, NoTxn, GameFits, Exact, Settled,
     SavesAreExact, NothingYet, SomeSave, RecordFits, TradeFits, TradeIsNew
<1>5. SavesAreExact'
  <2>1. CASE saves = {} /\ game'.got = {} /\ game'.gifts = 0
    BY <1>21, <2>1, SMTT(20) DEF Held, Delivering, Publishing, NoTxn, SavesAreExact, Admissible,
       Exact, Settled, RecordFits, TradeFits, GameFits, TradeIsNew, DeliveryIsNew, Written
  <2>2. CASE \E s \in saves : Admissible(s) /\ game'.got = s.state.got /\ game'.gifts = s.state.gifts
    BY <1>21, <2>2 DEF SavesAreExact, Exact, Settled, Admissible
  <2> QED
    BY <1>22, <2>1, <2>2
<1>6. NothingYet'
  BY <1>0, SMTT(20) DEF Held, Delivering, Publishing, NoTxn, NothingYet, Settled, TradeFits,
     TradeIsNew, DeliveryIsNew, RecordFits
<1>7. SomeSave'
  BY <1>0, SMTT(20) DEF Held, Delivering, Publishing, NoTxn, SomeSave, Admissible, RecordFits,
     Recoverable, TradeFits, TradeIsNew, Written
<1>8. NumbersFit'
  BY <1>0, <1>20 DEF NumbersFit, Used
<1>9. TradeIsNew'
  BY <1>0, <1>20, SMTT(20) DEF Held, Delivering, Publishing, NoTxn, TradeIsNew, NumbersFit,
     Used, RecordFits, Written
<1>10. DeliveryIsNew'
  BY <1>0, <1>20, SMTT(20) DEF Held, Delivering, Publishing, NoTxn, DeliveryIsNew, NumbersFit,
     Used, Written
<1> QED
  BY <1>1, <1>2, <1>3, <1>4, <1>5, <1>6, <1>7, <1>8, <1>9, <1>10

------------------------------------------------------------------------------
(* Victories and claims. *)

\* The game that runs counts every victory that was claimed and no other; what a save
\* or a record holds may count fewer.  No gift is owed without a victory, nor given
\* without being owed.
WinsFit ==
    /\ thread.at \in {"play"} \cup Delivering => game.wins = ledger.observed
    /\ \A s \in saves : s.state.wins <= ledger.observed
    /\ pending.state.wins <= ledger.observed
    /\ Held => trade.state.wins <= ledger.observed
ClaimsFit == ledger.delivered <= ledger.earned /\ ledger.earned <= ledger.observed
WinsInv == RewardInv /\ WinsFit /\ ClaimsFit

\* A game that was played on may count one more victory only by winning it.
WinCounts == Playing /\ game'.wins = game.wins + 1 => ledger'.observed = ledger.observed + 1

LEMMA WinsAre ==
    ASSUME RewardTypeOK
    PROVE  /\ game \in Games /\ game.wins \in Nat
           /\ ledger \in Ledgers /\ ledger.observed \in Nat /\ ledger.earned \in Nat /\ ledger.delivered \in Nat
           /\ \A s \in saves : s.state \in Games /\ s.state.wins \in Nat
           /\ pending.state \in Games /\ pending.state.wins \in Nat
           /\ trade.state \in Games /\ trade.state.wins \in Nat
           /\ thread \in Positions /\ barrier \in Barriers /\ count \in Counts
  BY DEF RewardTypeOK, Games, Ledgers, Saves, Records, Trades

\* A loaded game has every victory that was claimed.
LEMMA LoadWins ==
    ASSUME RewardTypeOK, NEW state \in Games, Loads(state), state.wins <= ledger.observed
    PROVE  game'.wins = ledger.observed
<1>1. state.wins \in Nat /\ ledger.observed \in Nat
  BY WinsAre DEF Games
<1> QED
  BY <1>1 DEF Loads, Larger, Games

LEMMA PlayWins ==
    ASSUME WinsInv, Playing
    PROVE  game.wins = ledger.observed
  BY DEF WinsInv, WinsFit, Playing

\* What a step does that writes neither the ledger nor a record of more victories.
LEMMA WinsKept ==
    ASSUME WinsInv, UNCHANGED ledger,
           \A s \in saves' : s \in saves \/ s.state.wins <= ledger.observed,
           pending'.state.wins <= ledger.observed,
           Held' => trade'.state.wins <= ledger.observed,
           thread'.at \in {"play"} \cup Delivering => game'.wins = ledger.observed
    PROVE  WinsFit' /\ ClaimsFit'
  BY DEF WinsInv, WinsFit, ClaimsFit

LEMMA WinWins == ASSUME WinsInv, Win PROVE WinsFit' /\ ClaimsFit' /\ WinCounts
<1>1. /\ game.wins = ledger.observed /\ game \in Games /\ ledger \in Ledgers
      /\ ledger.observed \in Nat /\ ledger.earned \in Nat /\ ledger.delivered \in Nat
  BY PlayWins, WinsAre DEF WinsInv, RewardInv, Win
<1>2. game'.wins = ledger.observed + 1
  BY <1>1 DEF Win, Games
<1> DEFINE new == Larger(0, game'.wins - ledger.observed)
           observed == Larger(ledger.observed, game'.wins)
<1>3. new = 1 /\ observed = ledger.observed + 1
  BY <1>1, <1>2 DEF Larger
<1>4. \E enabled \in BOOLEAN :
         ledger' = [ledger EXCEPT !.observed = observed, !.earned = IF enabled THEN @ + new ELSE @]
  BY Zenon DEF Win
<1> HIDE DEF new, observed
<1>5. /\ ledger'.observed = ledger.observed + 1 /\ ledger'.delivered = ledger.delivered
      /\ ledger'.earned \in {ledger.earned, ledger.earned + 1}
  BY <1>1, <1>3, <1>4 DEF Ledgers
<1>6. UNCHANGED <<saves, pending, trade>>
  BY DEF Win
<1>7. /\ \A s \in saves : s.state.wins \in Nat
      /\ pending.state.wins \in Nat /\ trade.state.wins \in Nat
  BY WinsAre DEF WinsInv, RewardInv
<1>8. WinsFit'
  BY <1>1, <1>2, <1>5, <1>6, <1>7 DEF WinsInv, WinsFit, Held
<1>9. ClaimsFit'
  BY <1>1, <1>5 DEF WinsInv, ClaimsFit
<1> QED
  BY <1>5, <1>8, <1>9 DEF WinCounts

\* The save of the moment holds the game that runs.
LEMMA AutosaveWins ==
    ASSUME WinsInv, Autosaves, game.wins <= ledger.observed
    PROVE  \A s \in saves' : s \in saves \/ s.state.wins <= ledger.observed
<1>1. saves' \subseteq saves \cup {Written(NoTxn, TRUE, barrier, game)}
  BY AutosaveAdds DEF WinsInv, RewardInv
<1> QED
  BY <1>1 DEF Written

\* No step but a victory makes the game that runs count one more.
LEMMA SameWinsCount ==
    ASSUME WinsInv, Playing => game'.wins \in {game.wins, ledger.observed}
    PROVE  WinCounts
<1>1. game.wins \in Nat
  BY WinsAre DEF WinsInv, RewardInv
<1>2. Playing => game'.wins = game.wins
  BY PlayWins
<1> QED
  BY <1>1, <1>2 DEF WinCounts

\* What a step leaves as it is keeps to the ledger.
LEMMA OldWins ==
    ASSUME WinsInv
    PROVE  /\ ledger.observed <= ledger.observed
           /\ pending.state.wins <= ledger.observed
           /\ Held => trade.state.wins <= ledger.observed
           /\ \A s \in saves : s.state.wins <= ledger.observed
           /\ thread.at \in {"play"} \cup Delivering => game.wins = ledger.observed
<1>1. ledger.observed \in Nat
  BY WinsAre DEF WinsInv, RewardInv
<1> QED
  BY <1>1 DEF WinsInv, WinsFit

LEMMA WinsStep ==
    ASSUME WinsInv, [RewardNext]_vars
    PROVE  WinsFit' /\ ClaimsFit' /\ WinCounts
<1> USE DEF Delivering, Held, Playing
<1>0. /\ WinsInv /\ RewardTypeOK
      /\ game \in Games /\ game.wins \in Nat
      /\ ledger \in Ledgers /\ ledger.observed \in Nat /\ ledger.earned \in Nat /\ ledger.delivered \in Nat
      /\ \A s \in saves : s.state \in Games /\ s.state.wins \in Nat
      /\ pending.state \in Games /\ pending.state.wins \in Nat
      /\ trade.state \in Games /\ trade.state.wins \in Nat
      /\ thread \in Positions /\ barrier \in Barriers /\ count \in Counts
  BY WinsAre DEF WinsInv, RewardInv
<1>old. /\ ledger.observed <= ledger.observed
        /\ pending.state.wins <= ledger.observed
        /\ Held => trade.state.wins <= ledger.observed
        /\ \A s \in saves : s.state.wins <= ledger.observed
        /\ thread.at \in {"play"} \cup Delivering => game.wins = ledger.observed
  BY OldWins
<1>1. CASE Win
  BY <1>1, WinWins
<1>2. CASE Autosave
  <2>1. \A s \in saves' : s \in saves \/ s.state.wins <= ledger.observed
    BY <1>0, <1>old, <1>2, AutosaveWins DEF Autosave
  <2>2. UNCHANGED <<thread, game, pending, trade, ledger>>
    BY <1>2 DEF Autosave
  <2> QED
    BY <1>0, <1>old, <2>1, <2>2, WinsKept, SameWinsCount
<1>3. CASE Rewind
  <2>1. game'.wins = ledger.observed
    <3>1. CASE \E s \in saves : Admissible(s) /\ Loads(s.state)
      BY <1>0, <1>old, <3>1, LoadWins
    <3>2. CASE game' = [PowerOn EXCEPT !.wins = game.wins]
      BY <1>old, <1>3, <3>2 DEF Rewind, PowerOn
    <3> QED
      BY <1>3, <3>1, <3>2 DEF Rewind
  <2>2. UNCHANGED <<thread, saves, pending, trade, ledger>>
    BY <1>3 DEF Rewind
  <2> QED
    BY <1>0, <1>old, <2>1, <2>2, WinsKept, SameWinsCount
<1>4. CASE NewRun
  <2>1. /\ game'.wins = 0 /\ saves' = {} /\ pending'.state.wins = 0 /\ trade'.phase = "none"
        /\ ledger'.observed = 0 /\ ledger'.earned = 0 /\ ledger'.delivered = 0
    BY <1>4 DEF NewRun, PowerOn, NoPending
  <2>2. ~(game'.wins = game.wins + 1)
    BY <1>0, <2>1
  <2> QED
    BY <2>1, <2>2 DEF WinsFit, ClaimsFit, WinCounts
<1>5. CASE \E kind \in Kinds : DeliveryBegins(kind)
  <2>1. PICK kind \in Kinds : DeliveryBegins(kind)
    BY <1>5
  <2>2. \A s \in saves' : s \in saves \/ s.state.wins <= ledger.observed
    BY <1>0, <1>old, <2>1, AutosaveWins DEF DeliveryBegins
  <2>3. UNCHANGED <<game, pending, trade, ledger>> /\ thread.at = "play"
    BY <2>1 DEF DeliveryBegins
  <2> QED
    BY <1>0, <1>old, <2>2, <2>3, WinsKept, SameWinsCount
<1>6. CASE DeliveryWrites
  <2>1. UNCHANGED <<game, saves, pending, trade, ledger>> /\ thread.at = "saved"
    BY <1>6 DEF DeliveryWrites
  <2> QED
    BY <1>0, <1>old, <2>1, WinsKept, SameWinsCount
<1>7. CASE DeliveryStages
  <2>1. UNCHANGED <<game, saves, trade, ledger>> /\ thread.at = "written"
    BY <1>7 DEF DeliveryStages
  <2>2. pending'.state.wins = ledger.observed
    BY <1>0, <1>old, <1>7, <2>1 DEF DeliveryStages, Record, Larger
  <2> QED
    BY <1>0, <1>old, <2>1, <2>2, WinsKept, SameWinsCount
<1>8. CASE DeliveryCommits
  <2>1. /\ UNCHANGED <<game, saves, trade>> /\ thread.at \in {"written", "staged"}
        /\ thread'.at = "committed"
    BY <1>0, <1>8 DEF DeliveryCommits, Goes, Positions
  <2>2. pending'.state.wins = ledger.observed
    BY <1>0, <1>old, <1>8, <2>1 DEF DeliveryCommits, Record, Larger
  <2>3. /\ ledger'.observed = ledger.observed /\ ledger'.earned = ledger.earned
        /\ \/ ledger'.delivered = ledger.delivered
           \/ ledger'.delivered = ledger.delivered + 1 /\ ledger.earned > ledger.delivered
    BY <1>0, <1>8 DEF DeliveryCommits, Chosen, Ledgers
  <2>4. ClaimsFit'
    BY <1>0, <2>3 DEF WinsInv, ClaimsFit
  <2>5. WinsFit'
    BY <1>0, <1>old, <2>1, <2>2, <2>3 DEF WinsFit
  <2> QED
    BY <1>0, <2>1, <2>4, <2>5, SameWinsCount
<1>9. CASE DeliveryPublishes
  <2>1. UNCHANGED <<game, trade, ledger>> /\ thread'.at \in {"bare", "whole", "complete"}
        /\ thread.at # "play"
    BY <1>0, <1>9 DEF DeliveryPublishes, Publishes, Goes, Positions
  <2>2. /\ pending'.state = pending.state
        /\ \A s \in saves' : s \in saves \/ s.state = pending.state
    BY <1>0, <1>9 DEF DeliveryPublishes, Publishes, File, Written, RewardTypeOK, Records
  <2> QED
    BY <1>0, <1>old, <2>1, <2>2, WinsKept, SameWinsCount
<1>10. CASE DeliveryLoads
  <2>1. game'.wins = ledger.observed
    BY <1>0, <1>old, <1>10, LoadWins DEF DeliveryLoads
  <2>2. UNCHANGED <<saves, pending, trade, ledger>>
    BY <1>10 DEF DeliveryLoads
  <2> QED
    BY <1>0, <1>old, <2>1, <2>2, WinsKept, SameWinsCount
<1>11. CASE DeliveryFails
  <2>1. /\ UNCHANGED <<game, saves, pending, trade, ledger>>
        /\ thread.at \in Delivering \/ thread'.at = "fatal"
    BY <1>0, <1>11 DEF DeliveryFails, Goes, Positions
  <2> QED
    BY <1>0, <1>old, <2>1, WinsKept, SameWinsCount
<1>12. CASE TradeBegins
  <2>1. UNCHANGED <<thread, game, saves, pending, ledger>> /\ trade'.phase = "travelling"
    BY <1>12 DEF TradeBegins, NoTrade
  <2> QED
    BY <1>0, <1>old, <2>1, WinsKept, SameWinsCount
<1>13. CASE TradeHolds
  <2>1. \A s \in saves' : s \in saves \/ s.state.wins <= ledger.observed
    BY <1>0, <1>old, <1>13, AutosaveWins DEF TradeHolds
  <2>2. UNCHANGED <<thread, game, pending, ledger>> /\ trade'.state = game /\ thread.at = "play"
    BY <1>0, <1>13 DEF TradeHolds, RewardTypeOK, Trades
  <2> QED
    BY <1>0, <1>old, <2>1, <2>2, WinsKept, SameWinsCount
<1>14. CASE TradeAborts
  <2>1. game'.wins = ledger.observed
    BY <1>0, <1>old, <1>14, LoadWins DEF TradeAborts
  <2>2. UNCHANGED <<thread, saves, pending, ledger>> /\ trade'.phase = "none"
    BY <1>14 DEF TradeAborts, NoTrade
  <2> QED
    BY <1>0, <1>old, <2>1, <2>2, WinsKept, SameWinsCount
<1>15. CASE TradeCommits
  <2>1. UNCHANGED <<thread, game, saves, pending, ledger>> /\ trade'.state = trade.state /\ trade.phase = "held"
    BY <1>0, <1>15 DEF TradeCommits, RewardTypeOK, Trades
  <2> QED
    BY <1>0, <1>old, <2>1, WinsKept, SameWinsCount
<1>16. CASE TradeApplies
  <2>1. Received \in Games /\ Received.wins = trade.state.wins /\ trade.phase = "committed"
    <3>1. trade.id \in Txn
      BY <1>0, <1>16 DEF TradeApplies, WinsInv, RewardInv, TradeIsNew, RewardTypeOK, Trades,
         Txn, NoTxn
    <3> QED
      BY <1>0, <1>16, <3>1 DEF TradeApplies, Received, Games
  <2>2. game'.wins = ledger.observed
    BY <1>0, <1>old, <1>16, <2>1, LoadWins DEF TradeApplies
  <2>3. UNCHANGED <<thread, pending, ledger>> /\ trade'.state = trade.state
    BY <1>0, <1>16 DEF TradeApplies, RewardTypeOK, Trades
  <2>4. \A s \in saves' : s \in saves \/ s.state = Received
    BY <1>16 DEF TradeApplies, Promotes, Written
  <2> QED
    BY <1>0, <1>old, <2>1, <2>2, <2>3, <2>4, WinsKept, SameWinsCount
<1>17. CASE TradeReleases
  <2>1. UNCHANGED <<thread, game, saves, pending, ledger>> /\ trade'.phase = "none"
    BY <1>17 DEF TradeReleases, NoTrade
  <2> QED
    BY <1>0, <1>old, <2>1, WinsKept, SameWinsCount
<1>18. CASE Ends
  <2>1. \A s \in saves' : s \in saves \/ s.state.wins <= ledger.observed
    BY <1>0, <1>old, <1>18, AutosaveWins DEF Ends
  <2>2. UNCHANGED <<game, pending, trade, ledger>> /\ thread'.at = "down"
    BY <1>0, <1>18 DEF Ends, Goes, Positions
  <2> QED
    BY <1>0, <1>old, <2>1, <2>2, WinsKept, SameWinsCount
<1>19. CASE Crashes
  <2>1. \A s \in saves' : s \in saves \/ s.state.wins <= ledger.observed
    BY <1>0, <1>old, <1>19 DEF Crashes, Written
  <2>2. UNCHANGED <<game, pending, trade, ledger>> /\ thread'.at = "down"
    BY <1>0, <1>19 DEF Crashes, Goes, Positions
  <2> QED
    BY <1>0, <1>old, <2>1, <2>2, WinsKept, SameWinsCount
<1>20. CASE Starts
  <2>1. UNCHANGED <<game, saves, pending, trade, ledger>> /\ thread'.at = "trade"
    BY <1>0, <1>20 DEF Starts, Goes, Positions
  <2> QED
    BY <1>0, <1>old, <2>1, WinsKept, SameWinsCount
<1>21. CASE RecoversTrade
  <2>1. UNCHANGED <<game, pending, trade, ledger>> /\ thread'.at = "gift"
    BY <1>0, <1>21 DEF RecoversTrade, Goes, Positions
  <2>2. CASE trade.phase \in {"committed", "applied"}
    <3>1. Received.wins = trade.state.wins
      BY <1>0 DEF Received, Games
    <3>2. \A s \in saves' : s \in saves \/ s.state = Received
      BY <1>21, <2>2 DEF RecoversTrade, Promotes, Written
    <3> QED
      BY <1>0, <1>old, <2>1, <2>2, <3>1, <3>2, WinsKept, SameWinsCount
  <2>3. CASE trade.phase \notin {"committed", "applied"}
    BY <1>0, <1>old, <1>21, <2>1, <2>3, WinsKept, SameWinsCount DEF RecoversTrade
  <2> QED
    BY <2>2, <2>3
<1>22. CASE RecoversGift
  <2>1. UNCHANGED <<game, trade, ledger>> /\ thread'.at \in {"restore", "gift_bare", "gift_whole"}
        /\ thread.at # "play"
    BY <1>0, <1>22 DEF RecoversGift, Publishes, Goes, Positions
  <2>2. /\ pending' = NoPending \/ pending'.state = pending.state
        /\ \A s \in saves' : s \in saves \/ s.state = pending.state
    BY <1>0, <1>22 DEF RecoversGift, Publishes, File, Written, RewardTypeOK, Records
  <2>3. pending'.state.wins <= ledger.observed
    BY <1>0, <1>old, <2>2 DEF NoPending, PowerOn
  <2> QED
    BY <1>0, <1>old, <2>1, <2>2, <2>3, WinsKept, SameWinsCount
<1>23. CASE Restores
  <2>1. game'.wins = ledger.observed
    <3>1. CASE game' = [PowerOn EXCEPT !.wins = ledger.observed]
      BY <3>1 DEF PowerOn
    <3>2. CASE \E s \in saves : Loads(s.state)
      BY <1>0, <1>old, <3>2, LoadWins
    <3> QED
      BY <1>23, <3>1, <3>2 DEF Restores
  <2>2. UNCHANGED <<saves, pending, trade>>
    BY <1>23 DEF Restores
  <2>3. ledger' = ledger
    BY <1>0, <1>23, <2>1 DEF Restores, Larger, Ledgers
  <2> QED
    BY <1>0, <1>old, <2>1, <2>2, <2>3, WinsKept, SameWinsCount
<1>24. CASE UNCHANGED vars
  <2>1. UNCHANGED <<thread, game, saves, pending, trade, ledger>>
    BY <1>24 DEF vars
  <2> QED
    BY <1>0, <1>old, <2>1, WinsKept, SameWinsCount
<1> QED
  BY <1>1, <1>2, <1>3, <1>4, <1>5, <1>6, <1>7, <1>8, <1>9, <1>10, <1>11, <1>12, <1>13, <1>14,
     <1>15,
     <1>16, <1>17, <1>18, <1>19, <1>20, <1>21, <1>22, <1>23, <1>24 DEF RewardNext

------------------------------------------------------------------------------
(* The theorems. *)

LEMMA StartKeeps == ASSUME RewardInit PROVE RewardInv
<1>1. RewardTypeOK
  BY NoneTyped, BoundsAssumption
     DEF RewardInit, RewardTypeOK, Positions, Places, Ledgers, Counts, Kinds, NoTxn
<1>2. RecordFits /\ TradeFits /\ GameFits
  BY DEF RewardInit, RecordFits, TradeFits, GameFits, Exact, Settled, Held, Delivering,
     Publishing,
         NoPending, NoTrade, NoTxn, PowerOn
<1>3. SavesAreExact /\ NothingYet /\ SomeSave
  BY DEF RewardInit, SavesAreExact, NothingYet, SomeSave, Settled, NoTrade
<1>4. NumbersFit
  BY BoundsAssumption DEF RewardInit, NumbersFit, Used, NoPending, NoTrade, NoTxn
<1>5. TradeIsNew /\ DeliveryIsNew
  BY DEF RewardInit, TradeIsNew, DeliveryIsNew, Delivering, NoTrade
<1> QED
  BY <1>1, <1>2, <1>3, <1>4, <1>5 DEF RewardInv

LEMMA NothingKeeps == ASSUME RewardInv, UNCHANGED vars PROVE RewardInv'
<1> USE DEF vars
<1>1. RewardTypeOK' /\ RecordFits' /\ TradeFits' /\ GameFits'
  BY DEF RewardInv, RewardTypeOK, RecordFits, Recoverable, TradeFits, GameFits, Exact, Settled,
     Held
<1>2. SavesAreExact' /\ NothingYet' /\ SomeSave' /\ NumbersFit' /\ TradeIsNew' /\ DeliveryIsNew'
  BY DEF RewardInv, SavesAreExact, Admissible, Exact, NothingYet, Settled, SomeSave, NumbersFit,
     Used,
         TradeIsNew, DeliveryIsNew
<1> QED
  BY <1>1, <1>2 DEF RewardInv

LEMMA NextKeeps == ASSUME RewardInv, [RewardNext]_vars PROVE RewardInv'
<1>1. CASE Win
  BY <1>1, WinKeeps
<1>2. CASE Autosave
  BY <1>2, AutosaveKeeps
<1>3. CASE Rewind
  BY <1>3, RewindKeeps
<1>4. CASE NewRun
  BY <1>4, NewRunKeeps
<1>5. CASE \E kind \in Kinds : DeliveryBegins(kind)
  BY <1>5, DeliveryBeginsKeeps
<1>6. CASE DeliveryWrites
  BY <1>6, DeliveryWritesKeeps
<1>7. CASE DeliveryStages
  BY <1>7, DeliveryStagesKeeps
<1>8. CASE DeliveryCommits
  BY <1>8, DeliveryCommitsKeeps
<1>9. CASE DeliveryPublishes
  BY <1>9, DeliveryPublishesKeeps
<1>10. CASE DeliveryLoads
  BY <1>10, DeliveryLoadsKeeps
<1>11. CASE DeliveryFails
  BY <1>11, DeliveryFailsKeeps
<1>12. CASE TradeBegins
  BY <1>12, TradeBeginsKeeps
<1>13. CASE TradeHolds
  BY <1>13, TradeHoldsKeeps
<1>14. CASE TradeAborts
  BY <1>14, TradeAbortsKeeps
<1>15. CASE TradeCommits
  BY <1>15, TradeCommitsKeeps
<1>16. CASE TradeApplies
  BY <1>16, TradeAppliesKeeps
<1>17. CASE TradeReleases
  BY <1>17, TradeReleasesKeeps
<1>18. CASE Ends
  BY <1>18, EndsKeeps
<1>19. CASE Crashes
  BY <1>19, CrashesKeeps
<1>20. CASE Starts
  BY <1>20, StartsKeeps
<1>21. CASE RecoversTrade
  BY <1>21, RecoversTradeKeeps
<1>22. CASE RecoversGift
  BY <1>22, RecoversGiftKeeps
<1>23. CASE Restores
  BY <1>23, RestoresKeeps
<1>24. CASE UNCHANGED vars
  BY <1>24, NothingKeeps
<1> QED
  BY <1>1, <1>2, <1>3, <1>4, <1>5, <1>6, <1>7, <1>8, <1>9, <1>10, <1>11, <1>12, <1>13, <1>14,
     <1>15,
     <1>16, <1>17, <1>18, <1>19, <1>20, <1>21, <1>22, <1>23, <1>24 DEF RewardNext

\* The invariant is inductive.
THEOREM RewardInvariant == RewardSpec => []RewardInv
<1>1. RewardInit => RewardInv
  BY StartKeeps
<1>2. RewardInv /\ [RewardNext]_vars => RewardInv'
  BY NextKeeps
<1> QED
  BY <1>1, <1>2, PTL DEF RewardSpec

\* Every value has its type, whatever the bounds.
THEOREM RewardTypeCorrect == RewardSpec => []RewardTypeOK
<1>1. RewardInv => RewardTypeOK
  BY DEF RewardInv
<1> QED
  BY <1>1, RewardInvariant, PTL

\* A running game holds what the journal says and uses up as many claims as it has
\* League gifts, for any number of gifts, purchases, trades, crashes and rewinds.
THEOREM PlayIsAlwaysExact == RewardSpec => []PlayIsExact
<1>1. RewardInv => PlayIsExact
  BY DEF RewardInv, PlayIsExact, GameFits, Exact, Settled
<1> QED
  BY <1>1, RewardInvariant, PTL

\* A committed gift is always recoverable and some save always passes both barriers,
\* however many saves are kept.
THEOREM StartAlwaysSucceeds == RewardSpec => []StartSucceeds
<1>1. ASSUME RewardInv, thread.at \in {"restore", "play"}, NEW s \in saves, s.whole
      PROVE  \E r \in saves : Admissible(r)
  <2>1. pending.phase # "committed" \/ thread.at \in {"whole", "gift_whole"}
    BY <1>1 DEF RewardInv, RecordFits
  <2>2. \/ barrier.trade = 0 /\ barrier.gift = 0
        \/ \E r \in saves : Admissible(r)
    BY <1>1, <2>1 DEF RewardInv, SomeSave
  <2> QED
    BY <1>1, <2>2 DEF Admissible, NoTxn
<1>2. RewardInv => StartSucceeds
  BY <1>1 DEF StartSucceeds, RewardInv, RecordFits
<1> QED
  BY <1>2, RewardInvariant, PTL

LEMMA WinsAlways == RewardSpec => []WinsInv
<1>1. RewardInit => WinsInv
  BY StartKeeps, BoundsAssumption
     DEF RewardInit, WinsInv, WinsFit, ClaimsFit, Held, NoTrade, NoPending, PowerOn
<1>2. WinsInv /\ [RewardNext]_vars => WinsInv'
  BY NextKeeps, WinsStep DEF WinsInv
<1> QED
  BY <1>1, <1>2, PTL DEF RewardSpec

\* Every new League victory has its claim: after any rewinds, restarts, gifts and
\* trades the ledger has counted what the game has, and nothing more.
THEOREM EveryWinAlwaysCounts == RewardSpec => EveryWinCounts
<1>1. WinsInv /\ [RewardNext]_vars =>
        [Playing /\ game'.wins = game.wins + 1 => ledger'.observed = ledger.observed + 1]_vars
  BY WinsStep DEF WinCounts
<1> QED
  BY <1>1, WinsAlways, PTL DEF RewardSpec, EveryWinCounts

\* A running game has at most one League gift for each victory it counts.
GiftsAreWon == thread.at = "play" /\ trade.phase # "committed" => game.gifts <= game.wins

\* A running game never has more League gifts than it counts League victories, though
\* rewinds undo victories and crashes repeat deliveries (reward_delivery.py).
THEOREM EveryGiftIsWon == RewardSpec => []GiftsAreWon
<1>1. ASSUME WinsInv, thread.at = "play", trade.phase # "committed"
      PROVE  game.gifts <= game.wins
  <2>1. game.gifts = ledger.delivered /\ game.wins = ledger.observed
    BY <1>1 DEF WinsInv, RewardInv, GameFits, Exact, WinsFit
  <2>2. ledger.observed \in Nat /\ ledger.earned \in Nat /\ ledger.delivered \in Nat
    BY <1>1, WinsAre DEF WinsInv, RewardInv
  <2> QED
    BY <1>1, <2>1, <2>2 DEF WinsInv, ClaimsFit
<1>2. WinsInv => GiftsAreWon
  BY <1>1 DEF GiftsAreWon
<1> QED
  BY <1>2, WinsAlways, PTL

=============================================================================
