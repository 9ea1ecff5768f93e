--------------------------- MODULE LegacySavesProofs ---------------------------
(* What is proved of the saves of the two games that LegacyPair links: what a  *)
(* game plays with and can go back to is what its journal says, and the pair   *)
(* implements the atomic exchange.                                             *)
EXTENDS LegacyProofs

------------------------------------------------------------------------------
(* The inductive invariant: the saves. *)

Journalled(g) == active.id \in marks[g]
Files(g) == {saves[g][i] : i \in DOMAIN saves[g]}

\* The outputs of the transaction under way that the game's journal does not know yet.
Staged(g) == {s \in Files(g) : s.name = active.id /\ active.id # NoTxn /\ ~Journalled(g)}

\* Where the coordinator is decides what can be staged; and from the staging to
\* the journal, the game is held on the save the output was made from.
PlacedFits(g) ==
    /\ coord.at = "abort" => Staged(g) = {}
    /\ coord.at = "discard" /\ coord.ix > Ix(g) => Staged(g) = {}
    /\ ~active.targets => Staged(g) = {}
    /\ \/ Staged(g) # {} \/ coord.at \in {"target", "publish", "decide"}
       \/ active.phase = "committed" /\ ~Journalled(g)
       => /\ hold[g].phase = "prepared"
          /\ result.inv[g] = receipts[g] \cup (IF g \in result.gets THEN {active.id} ELSE {})
    /\ coord.at = "publish" =>
          /\ coord.ix < 2 * Ix(g) => Staged(g) = {}
          /\ coord.ix = 2 * Ix(g) => Staged(g) # {}
          /\ coord.ix > 2 * Ix(g) => \E s \in Staged(g) : s.whole
    /\ coord.at = "decide" \/ active.phase = "committed" =>
          Journalled(g) \/ \E s \in Staged(g) : s.whole
    /\ hold[g].phase = "prepared" /\ ~active.targets => Last(saves[g]) = hold[g].source

OutputFits(g) ==
    /\ \A s \in Staged(g) : s.tag = active.id /\ s.inv = result.inv[g]
    /\ \A i \in DOMAIN saves[g] : saves[g][i] \in Staged(g) => i = Len(saves[g])

\* Tags are barriers of before: a file tagged with the exchange is its output.
TagsFit(g) ==
    /\ barrier[g] # NoTxn => barrier[g] \in marks[g]
    /\ \A s \in Files(g) :
          /\ s.tag <= count.txn /\ s.name <= count.txn
          /\ s.tag = active.id /\ s.tag # NoTxn /\ ~Journalled(g) => s.name = active.id

\* A hold keeps the save it was taken on.
SourceFits(g) ==
    /\ hold[g].phase = "none" <=> hold[g] = NoHold
    /\ hold[g].phase = "preparing" => hold[g].source = NoSave
    /\ hold[g].phase = "loaded" => Journalled(g)
    /\ hold[g].phase = "prepared" => hold[g].source # NoSave
    /\ hold[g].phase = "prepared" /\ ~Journalled(g) =>
          /\ hold[g].source \in Files(g) /\ hold[g].source.name = NoTxn
          /\ Admissible(g, hold[g].source) /\ hold[g].source.inv = receipts[g]

\* What a game has, and what it can go back to.
SavesAreExact(g) == \A s \in Files(g) : Admissible(g, s) /\ s \notin Staged(g) => s.inv = receipts[g]
PlayIsExact(g) == up[g] /\ hold[g].phase # "prepared" => inv[g] = receipts[g]
NothingYet(g) == saves[g] = <<>> => receipts[g] = {}
SomeSave(g) == barrier[g] # NoTxn => \E s \in Files(g) : Admissible(g, s)

GameFits(g) ==
    /\ OutputFits(g) /\ TagsFit(g) /\ SourceFits(g)
    /\ SavesAreExact(g) /\ PlayIsExact(g) /\ NothingYet(g) /\ SomeSave(g)

\* A load or a release is asked for when both journals have the exchange, an abort
\* when no output is left.
RequestFits(g) == \A i \in DOMAIN queue[g] :
    /\ queue[g][i].action \in {"load", "release"} => \A h \in Games : Journalled(h)
    /\ queue[g][i].action = "abort" =>
          /\ active.phase = "preparing" /\ coord.at \in {"idle", "discard", "abort"}
          /\ \A h \in Games : Staged(h) = {}

SavesInv == \A g \in Games : PlacedFits(g) /\ GameFits(g) /\ RequestFits(g)

------------------------------------------------------------------------------
(* Lemmas about the saves. *)

\* What a step that leaves a game alone keeps of it.
SameGame(g) ==
    /\ up'[g] = up[g] /\ inv'[g] = inv[g] /\ hold'[g] = hold[g] /\ saves'[g] = saves[g]
    /\ barrier'[g] = barrier[g] /\ marks'[g] = marks[g] /\ receipts'[g] = receipts[g]
SameExchange == active' = active /\ result' = result /\ count'.txn = count.txn

LEMMA SameGameFits ==
    ASSUME NEW g \in Games, SameGame(g), active'.id = active.id, count'.txn = count.txn
    PROVE  /\ Files(g)' = Files(g) /\ Staged(g)' = Staged(g) /\ (Journalled(g)' <=> Journalled(g))
           /\ TagsFit(g) => TagsFit(g)'
           /\ SourceFits(g) => SourceFits(g)'
           /\ SavesAreExact(g) => SavesAreExact(g)'
           /\ PlayIsExact(g) => PlayIsExact(g)'
           /\ NothingYet(g) => NothingYet(g)'
           /\ SomeSave(g) => SomeSave(g)'
           /\ OutputFits(g) /\ (Staged(g) = {} \/ result' = result) => OutputFits(g)'
<1>1. /\ Files(g)' = Files(g) /\ Staged(g)' = Staged(g) /\ (Journalled(g)' <=> Journalled(g))
      /\ \A s : Admissible(g, s)' <=> Admissible(g, s)
  BY DEF SameGame, Files, Staged, Journalled, Admissible
<1>2. TagsFit(g) => TagsFit(g)'
  BY <1>1 DEF TagsFit, SameGame
<1>3. SourceFits(g) => SourceFits(g)'
  <2>1. Admissible(g, hold[g].source)' <=> Admissible(g, hold[g].source)
    BY DEF Admissible, SameGame
  <2> QED
    BY <1>1, <2>1 DEF SourceFits, SameGame
<1>4. SavesAreExact(g) => SavesAreExact(g)'
  BY <1>1 DEF SavesAreExact, SameGame
<1>5. PlayIsExact(g) => PlayIsExact(g)'
  BY DEF PlayIsExact, SameGame
<1>6. NothingYet(g) => NothingYet(g)'
  BY DEF NothingYet, SameGame
<1>7. SomeSave(g) => SomeSave(g)'
  BY <1>1 DEF SomeSave, SameGame
<1>8. OutputFits(g) /\ (Staged(g) = {} \/ result' = result) => OutputFits(g)'
  BY <1>1 DEF OutputFits, SameGame
<1> QED
  BY <1>1, <1>2, <1>3, <1>4, <1>5, <1>6, <1>7, <1>8

LEMMA SameGameKeeps ==
    ASSUME NEW g \in Games, SameGame(g), SameExchange, GameFits(g)
    PROVE  GameFits(g)'
<1>1. active'.id = active.id /\ count'.txn = count.txn /\ result' = result
  BY DEF SameExchange
<1> QED
  BY <1>1, SameGameFits DEF GameFits

LEMMA SamePlaced ==
    ASSUME NEW g \in Games, SameGame(g), SameExchange, PlacedFits(g),
           coord'.at = coord.at, coord'.ix = coord.ix
    PROVE  PlacedFits(g)'
<1>1. /\ Staged(g)' = Staged(g) /\ (Journalled(g)' <=> Journalled(g))
  BY SameGameFits DEF SameExchange
<1> QED
  BY <1>1 DEF PlacedFits, SameGame, SameExchange

\* Requests that stay in a queue.
MayAbort == active.phase = "preparing" /\ coord.at \in {"idle", "discard", "abort"}

LEMMA RequestsKeep ==
    ASSUME NEW g \in Games, RequestFits(g),
           \A i \in DOMAIN queue'[g] : \E j \in DOMAIN queue[g] : queue'[g][i].action = queue[g][j].action,
           MayAbort /\ queue'[g] # <<>> => MayAbort',
           \A h \in Games : Journalled(h) => Journalled(h)',
           \A h \in Games : Staged(h) = {} => Staged(h)' = {}
    PROVE  RequestFits(g)'
<1> SUFFICES ASSUME NEW i \in DOMAIN queue'[g]
             PROVE  /\ queue'[g][i].action \in {"load", "release"} => \A h \in Games : Journalled(h)'
                    /\ queue'[g][i].action = "abort" => MayAbort' /\ \A h \in Games : Staged(h)' = {}
  BY DEF RequestFits, MayAbort
<1>1. PICK j \in DOMAIN queue[g] : queue'[g][i].action = queue[g][j].action
  OBVIOUS
<1>2. queue'[g] # <<>>
  OBVIOUS
<1> QED
  BY <1>1, <1>2 DEF RequestFits, MayAbort

\* A step of one game.
LEMMA GameStep ==
    ASSUME SavesInv, NEW g \in Games, SameExchange, coord'.at = coord.at, coord'.ix = coord.ix,
           \A h \in Games : h # g => SameGame(h),
           \A h \in Games : \A i \in DOMAIN queue'[h] :
              \E j \in DOMAIN queue[h] : queue'[h][i].action = queue[h][j].action,
           marks' = marks, Staged(g) = {} => Staged(g)' = {},
           PlacedFits(g)', GameFits(g)'
    PROVE  SavesInv'
<1>1. \A h \in Games : PlacedFits(h)' /\ GameFits(h)'
  BY SameGameKeeps, SamePlaced DEF SavesInv
<1>2. \A h \in Games : (Journalled(h) => Journalled(h)') /\ (Staged(h) = {} => Staged(h)' = {})
  BY SameGameFits DEF SameExchange, Journalled
<1>3. ASSUME NEW h \in Games PROVE RequestFits(h)'
  <2>1. /\ \A i \in DOMAIN queue'[h] : \E j \in DOMAIN queue[h] : queue'[h][i].action = queue[h][j].action
        /\ RequestFits(h) /\ (MayAbort => MayAbort')
    BY DEF SavesInv, SameExchange, MayAbort
  <2> QED
    BY <1>2, <2>1, RequestsKeep
<1> QED
  BY <1>1, <1>3 DEF SavesInv

\* A step of the coordinator.
LEMMA CoordStep ==
    ASSUME SavesInv, UNCHANGED <<gameVars, result>>, active'.id = active.id, count'.txn = count.txn,
           \A g \in Games : PlacedFits(g)',
           \A h \in Games : \A i \in DOMAIN queue'[h] :
              \E j \in DOMAIN queue[h] : queue'[h][i].action = queue[h][j].action,
           \A g \in Games : MayAbort /\ queue'[g] # <<>> => MayAbort'
    PROVE  SavesInv'
<1>1. \A g \in Games : SameGame(g)
  BY DEF SameGame, gameVars
<1>2. \A g \in Games : GameFits(g)'
  BY <1>1, SameGameFits DEF SavesInv, GameFits
<1>3. \A h \in Games : (Journalled(h) => Journalled(h)') /\ (Staged(h) = {} => Staged(h)' = {})
  BY <1>1, SameGameFits
<1>4. ASSUME NEW h \in Games PROVE RequestFits(h)'
  <2>1. /\ \A i \in DOMAIN queue'[h] : \E j \in DOMAIN queue[h] : queue'[h][i].action = queue[h][j].action
        /\ RequestFits(h) /\ (MayAbort /\ queue'[h] # <<>> => MayAbort')
    BY DEF SavesInv
  <2> QED
    BY <1>3, <2>1, RequestsKeep
<1> QED
  BY <1>2, <1>4 DEF SavesInv

------------------------------------------------------------------------------
(* Every step keeps the saves. *)

LEMMA ResumesSaves ==
    ASSUME PairInv, PairInv', SavesInv, Resumes
    PROVE  SavesInv'
<1>1. /\ UNCHANGED <<gameVars, result>> /\ active'.id = active.id /\ count'.txn = count.txn
      /\ active' = active
  BY DEF PairInv, LegacyTypeOK, Resumes, NoActive, Goes, Finish, gameVars
<1>2. /\ \A g \in Games : Staged(g)' = Staged(g) /\ (Journalled(g)' <=> Journalled(g))
      /\ UNCHANGED <<saves, hold, receipts>>
  BY <1>1, SameGameFits DEF SameGame, gameVars
<1>3. ASSUME NEW g \in Games PROVE PlacedFits(g)'
  BY <1>1, <1>2 DEF SavesInv, PlacedFits, PairInv, Journalled, Ix, Resumes, NoActive, Goes,
     Finish, gameVars, ActiveFits, LegacyTypeOK
<1>4. ASSUME NEW g \in Games PROVE MayAbort /\ queue'[g] # <<>> => MayAbort'
  BY <1>1 DEF PairInv, ThroughFits, Through, MayAbort, PlaceFits, Resumes, NoActive, Goes,
     Finish, gameVars
<1>5. \A g \in Games : \A i \in DOMAIN queue'[g] :
         \E j \in DOMAIN queue[g] : queue'[g][i].action = queue[g][j].action
  BY DEF Resumes
<1> QED
  BY <1>1, <1>3, <1>4, <1>5, CoordStep

LEMMA NamesSaves ==
    ASSUME PairInv, PairInv', SavesInv, Names
    PROVE  SavesInv'
<1>1. /\ UNCHANGED <<gameVars, result>> /\ active'.id = active.id /\ count'.txn = count.txn
      /\ active' = [active EXCEPT !.prepared = coord.ix]
  BY DEF PairInv, LegacyTypeOK, Names, Goes, gameVars
<1>2. /\ \A g \in Games : Staged(g)' = Staged(g) /\ (Journalled(g)' <=> Journalled(g))
      /\ UNCHANGED <<saves, hold, receipts>>
  BY <1>1, SameGameFits DEF SameGame, gameVars
<1>3. ASSUME NEW g \in Games PROVE PlacedFits(g)'
  BY <1>1, <1>2 DEF SavesInv, PlacedFits, PairInv, Journalled, Ix, Names, Goes, gameVars,
     PlaceFits
<1>4. ASSUME NEW g \in Games PROVE MayAbort /\ queue'[g] # <<>> => MayAbort'
  BY <1>1 DEF PairInv, ThroughFits, Through, MayAbort, PlaceFits, Names, Goes, gameVars, Finish
<1>5. \A g \in Games : \A i \in DOMAIN queue'[g] :
         \E j \in DOMAIN queue[g] : queue'[g][i].action = queue[g][j].action
  BY DEF Names
<1> QED
  BY <1>1, <1>3, <1>4, <1>5, CoordStep

LEMMA RequestFailsSaves ==
    ASSUME PairInv, PairInv', SavesInv, RequestFails
    PROVE  SavesInv'
<1>1. /\ UNCHANGED <<gameVars, result>> /\ active'.id = active.id /\ count'.txn = count.txn
      /\ active' = active
  BY DEF PairInv, LegacyTypeOK, RequestFails, Recovers, Goes, Calls, gameVars
<1>2. /\ \A g \in Games : Staged(g)' = Staged(g) /\ (Journalled(g)' <=> Journalled(g))
      /\ UNCHANGED <<saves, hold, receipts>>
  BY <1>1, SameGameFits DEF SameGame, gameVars
<1>3. ASSUME NEW g \in Games PROVE PlacedFits(g)'
  BY <1>1, <1>2 DEF SavesInv, PlacedFits, PairInv, Journalled, Ix, RequestFails, Recovers, Goes,
     Calls, gameVars
<1>4. ASSUME NEW g \in Games PROVE MayAbort /\ queue'[g] # <<>> => MayAbort'
  BY <1>1 DEF PairInv, ThroughFits, Through, MayAbort, PlaceFits, RequestFails, Recovers, Goes,
     Calls, gameVars, Finish
<1>5. \A g \in Games : \A i \in DOMAIN queue'[g] :
         \E j \in DOMAIN queue[g] : queue'[g][i].action = queue[g][j].action
  BY DEF RequestFails
<1> QED
  BY <1>1, <1>3, <1>4, <1>5, CoordStep

LEMMA AsksAgainSaves ==
    ASSUME PairInv, PairInv', SavesInv, AsksAgain
    PROVE  SavesInv'
<1>1. /\ UNCHANGED <<gameVars, result>> /\ active'.id = active.id /\ count'.txn = count.txn
      /\ active' = active
  BY DEF PairInv, LegacyTypeOK, AsksAgain, Goes, gameVars
<1>2. /\ \A g \in Games : Staged(g)' = Staged(g) /\ (Journalled(g)' <=> Journalled(g))
      /\ UNCHANGED <<saves, hold, receipts>>
  BY <1>1, SameGameFits DEF SameGame, gameVars
<1>3. ASSUME NEW g \in Games PROVE PlacedFits(g)'
  BY <1>1, <1>2 DEF SavesInv, PlacedFits, PairInv, Journalled, Ix, AsksAgain, Goes, gameVars,
     PlaceFits
<1>4. ASSUME NEW g \in Games PROVE MayAbort /\ queue'[g] # <<>> => MayAbort'
  BY <1>1 DEF PairInv, ThroughFits, Through, MayAbort, PlaceFits, AsksAgain, Goes, gameVars,
     Finish
<1>5. \A g \in Games : \A i \in DOMAIN queue'[g] :
         \E j \in DOMAIN queue[g] : queue'[g][i].action = queue[g][j].action
  BY DEF AsksAgain
<1> QED
  BY <1>1, <1>3, <1>4, <1>5, CoordStep

LEMMA GivesUpSaves ==
    ASSUME PairInv, PairInv', SavesInv, GivesUp
    PROVE  SavesInv'
<1>1. /\ UNCHANGED <<gameVars, result>> /\ active'.id = active.id /\ count'.txn = count.txn
      /\ active' = active
  BY DEF PairInv, LegacyTypeOK, GivesUp, Recovers, Goes, gameVars
<1>2. /\ \A g \in Games : Staged(g)' = Staged(g) /\ (Journalled(g)' <=> Journalled(g))
      /\ UNCHANGED <<saves, hold, receipts>>
  BY <1>1, SameGameFits DEF SameGame, gameVars
<1>3. ASSUME NEW g \in Games PROVE PlacedFits(g)'
  BY <1>1, <1>2 DEF SavesInv, PlacedFits, PairInv, Journalled, Ix, GivesUp, Recovers, Goes,
     gameVars, PlaceFits
<1>4. ASSUME NEW g \in Games PROVE MayAbort /\ queue'[g] # <<>> => MayAbort'
  BY <1>1 DEF PairInv, ThroughFits, Through, MayAbort, PlaceFits, GivesUp, Recovers, Goes,
     gameVars, Finish
<1>5. \A g \in Games : \A i \in DOMAIN queue'[g] :
         \E j \in DOMAIN queue[g] : queue'[g][i].action = queue[g][j].action
  BY DEF GivesUp
<1> QED
  BY <1>1, <1>3, <1>4, <1>5, CoordStep

LEMMA AnsweredSaves ==
    ASSUME PairInv, PairInv', SavesInv, Answered
    PROVE  SavesInv'
<1>1. /\ UNCHANGED <<gameVars, result>> /\ active'.id = active.id /\ count'.txn = count.txn
      /\ active' = active
  BY DEF PairInv, LegacyTypeOK, Answered, Goes, NextCall, Calls, gameVars
<1>2. /\ \A g \in Games : Staged(g)' = Staged(g) /\ (Journalled(g)' <=> Journalled(g))
      /\ UNCHANGED <<saves, hold, receipts>>
  BY <1>1, SameGameFits DEF SameGame, gameVars
<1>3. ASSUME NEW g \in Games PROVE PlacedFits(g)'
  BY <1>1, <1>2 DEF SavesInv, PlacedFits, PairInv, Journalled, Ix, Answered, Goes, NextCall,
     Calls, gameVars, PlaceFits, MarksFit
<1>4. ASSUME NEW g \in Games PROVE MayAbort /\ queue'[g] # <<>> => MayAbort'
  BY <1>1 DEF PairInv, ThroughFits, Through, MayAbort, PlaceFits, Answered, Goes, NextCall,
     Calls, gameVars, Finish
<1>5. \A g \in Games : \A i \in DOMAIN queue'[g] :
         \E j \in DOMAIN queue[g] : queue'[g][i].action = queue[g][j].action
  BY DEF Answered
<1> QED
  BY <1>1, <1>3, <1>4, <1>5, CoordStep

LEMMA TargetsSaves ==
    ASSUME PairInv, PairInv', SavesInv, Targets
    PROVE  SavesInv'
<1>1. /\ UNCHANGED <<gameVars, result>> /\ active'.id = active.id /\ count'.txn = count.txn
      /\ active' = [active EXCEPT !.targets = TRUE]
  BY DEF PairInv, LegacyTypeOK, Targets, Goes, gameVars
<1>2. /\ \A g \in Games : Staged(g)' = Staged(g) /\ (Journalled(g)' <=> Journalled(g))
      /\ UNCHANGED <<saves, hold, receipts>>
  BY <1>1, SameGameFits DEF SameGame, gameVars
<1>3. ASSUME NEW g \in Games PROVE PlacedFits(g)'
  BY <1>1, <1>2 DEF SavesInv, PlacedFits, PairInv, Journalled, Ix, Targets, Goes, gameVars,
     PlaceFits
<1>4. ASSUME NEW g \in Games PROVE MayAbort /\ queue'[g] # <<>> => MayAbort'
  BY <1>1 DEF PairInv, ThroughFits, Through, MayAbort, PlaceFits, Targets, Goes, gameVars,
     Finish
<1>5. \A g \in Games : \A i \in DOMAIN queue'[g] :
         \E j \in DOMAIN queue[g] : queue'[g][i].action = queue[g][j].action
  BY DEF Targets
<1> QED
  BY <1>1, <1>3, <1>4, <1>5, CoordStep

LEMMA DecidesSaves ==
    ASSUME PairInv, PairInv', SavesInv, Decides
    PROVE  SavesInv'
<1>1. /\ UNCHANGED <<gameVars, result>> /\ active'.id = active.id /\ count'.txn = count.txn
      /\ active' = [active EXCEPT !.phase = "committed"]
  BY DEF PairInv, LegacyTypeOK, Decides, Goes, gameVars
<1>2. /\ \A g \in Games : Staged(g)' = Staged(g) /\ (Journalled(g)' <=> Journalled(g))
      /\ UNCHANGED <<saves, hold, receipts>>
  BY <1>1, SameGameFits DEF SameGame, gameVars
<1>3. ASSUME NEW g \in Games PROVE PlacedFits(g)'
  BY <1>1, <1>2 DEF SavesInv, PlacedFits, PairInv, Journalled, Ix, Decides, Goes, gameVars,
     PlaceFits
<1>4. ASSUME NEW g \in Games PROVE MayAbort /\ queue'[g] # <<>> => MayAbort'
  BY <1>1 DEF PairInv, ThroughFits, Through, MayAbort, PlaceFits, Decides, Goes, gameVars,
     Finish
<1>5. \A g \in Games : \A i \in DOMAIN queue'[g] :
         \E j \in DOMAIN queue[g] : queue'[g][i].action = queue[g][j].action
  BY DEF Decides
<1> QED
  BY <1>1, <1>3, <1>4, <1>5, CoordStep

LEMMA WritesStatusSaves ==
    ASSUME PairInv, PairInv', SavesInv, WritesStatus
    PROVE  SavesInv'
<1>1. /\ UNCHANGED <<gameVars, result>> /\ active'.id = active.id /\ count'.txn = count.txn
      /\ active' = active
  BY DEF PairInv, LegacyTypeOK, WritesStatus, Goes, gameVars
<1>2. /\ \A g \in Games : Staged(g)' = Staged(g) /\ (Journalled(g)' <=> Journalled(g))
      /\ UNCHANGED <<saves, hold, receipts>>
  BY <1>1, SameGameFits DEF SameGame, gameVars
<1>3. ASSUME NEW g \in Games PROVE PlacedFits(g)'
  BY <1>1, <1>2 DEF SavesInv, PlacedFits, PairInv, Journalled, Ix, WritesStatus, Goes, gameVars,
     PlaceFits
<1>4. ASSUME NEW g \in Games PROVE MayAbort /\ queue'[g] # <<>> => MayAbort'
  BY <1>1 DEF PairInv, ThroughFits, Through, MayAbort, PlaceFits, WritesStatus, Goes, gameVars,
     Finish
<1>5. \A g \in Games : \A i \in DOMAIN queue'[g] :
         \E j \in DOMAIN queue[g] : queue'[g][i].action = queue[g][j].action
  BY DEF WritesStatus
<1> QED
  BY <1>1, <1>3, <1>4, <1>5, CoordStep

LEMMA FailsSaves ==
    ASSUME PairInv, PairInv', SavesInv, Fails
    PROVE  SavesInv'
<1>1. /\ UNCHANGED <<gameVars, result>> /\ active'.id = active.id /\ count'.txn = count.txn
      /\ active' = active
  BY DEF PairInv, LegacyTypeOK, Fails, Recovers, Goes, Fault, gameVars
<1>2. /\ \A g \in Games : Staged(g)' = Staged(g) /\ (Journalled(g)' <=> Journalled(g))
      /\ UNCHANGED <<saves, hold, receipts>>
  BY <1>1, SameGameFits DEF SameGame, gameVars
<1>3. ASSUME NEW g \in Games PROVE PlacedFits(g)'
  BY <1>1, <1>2 DEF SavesInv, PlacedFits, PairInv, Journalled, Ix, Fails, Recovers, Goes, Fault,
     gameVars
<1>4. ASSUME NEW g \in Games PROVE MayAbort /\ queue'[g] # <<>> => MayAbort'
  BY <1>1 DEF PairInv, ThroughFits, Through, MayAbort, PlaceFits, Fails, Recovers, Goes, Fault,
     gameVars, Finish
<1>5. \A g \in Games : \A i \in DOMAIN queue'[g] :
         \E j \in DOMAIN queue[g] : queue'[g][i].action = queue[g][j].action
  BY DEF Fails, Abandoned, PairInv, LegacyTypeOK, Commands
<1> QED
  BY <1>1, <1>3, <1>4, <1>5, CoordStep

LEMMA BeginsSaves ==
    ASSUME PairInv, PairInv', SavesInv, Begins
    PROVE  SavesInv'
<1>1. /\ UNCHANGED <<gameVars, result, queue>> /\ coord'.at = "name" /\ active.id = NoTxn
      /\ active' = [id |-> count.txn + 1, phase |-> "preparing", prepared |-> 0, targets |-> FALSE]
      /\ count'.txn = count.txn + 1 /\ count.txn \in Nat
      /\ \A g \in Games : marks[g] \in SUBSET Txn /\ saves[g] \in Seq(Saves)
  <2>1. active' = [id |-> count.txn + 1, phase |-> "preparing", prepared |-> 0, targets |-> FALSE]
    BY DEF Begins, NoActive
  <2>2. /\ UNCHANGED <<gameVars, result, queue>> /\ coord'.at = "name" /\ active.id = NoTxn
    BY DEF Begins, Goes, NoActive
  <2>3. count'.txn = count.txn + 1 /\ count.txn \in Nat
    BY BoundsAssumption DEF Begins, PairInv, LegacyTypeOK
  <2>4. \A g \in Games : marks[g] \in SUBSET Txn /\ saves[g] \in Seq(Saves)
    BY DEF PairInv, LegacyTypeOK
  <2> QED
    BY <2>1, <2>2, <2>3, <2>4
<1>2. ASSUME NEW g \in Games
      PROVE  /\ queue'[g] = <<>> /\ hold[g] = NoHold /\ hold'[g] = NoHold
             /\ PlacedFits(g)' /\ GameFits(g)'
  <2>1. queue[g] = <<>> /\ hold[g] = NoHold
    <3>1. Through(g)
      BY DEF Begins, NoActive, Through, Ix
    <3> QED
      BY <3>1 DEF PairInv, ThroughFits
  <2>2. ~Journalled(g) /\ ~Journalled(g)' /\ Staged(g) = {} /\ Files(g)' = Files(g)
    <3>1. active.id \notin marks[g] /\ active'.id \notin marks[g]
      BY <1>1 DEF PairInv, MarksFit, NoTxn, Txn
    <3> QED
      BY <1>1, <3>1 DEF Journalled, Staged, Files, gameVars
  <2>3. Staged(g)' = {}
    <3>1. \A s \in Files(g) : s.name # active'.id
      <4>1. \A s \in Files(g) : s \in Saves
        BY <1>1 DEF Files
      <4>2. \A s \in Files(g) : s.name <= count.txn /\ s.name \in Int
        BY <4>1 DEF SavesInv, GameFits, TagsFit, Saves
      <4> QED
        BY <1>1, <4>2
    <3> QED
      BY <2>2, <3>1 DEF Staged
  <2>4. \A s : Admissible(g, s)' <=> Admissible(g, s)
    BY <1>1 DEF Admissible, gameVars
  <2>5. GameFits(g)
    BY DEF SavesInv
  <2>6. TagsFit(g)'
    <3>0. \A s \in Files(g) : s \in Saves
      BY <1>1 DEF Files
    <3>1. \A s \in Files(g) : s.tag \in Int /\ s.name \in Int
      BY <3>0 DEF Saves
    <3> QED
      BY <1>1, <2>2, <2>5, <3>1 DEF GameFits, TagsFit, gameVars
  <2>7. OutputFits(g)' /\ SourceFits(g)'
    BY <1>1, <2>1, <2>3 DEF OutputFits, SourceFits, NoHold, gameVars
  <2>8. SavesAreExact(g)'
    BY <1>1, <2>2, <2>3, <2>4, <2>5 DEF GameFits, SavesAreExact, gameVars
  <2>9. PlayIsExact(g)' /\ NothingYet(g)' /\ SomeSave(g)'
    BY <1>1, <2>2, <2>4, <2>5 DEF GameFits, PlayIsExact, NothingYet, SomeSave, gameVars
  <2>10. PlacedFits(g)'
    BY <1>1, <2>1, <2>3 DEF PlacedFits, gameVars, NoHold
  <2> QED
    BY <1>1, <2>1, <2>6, <2>7, <2>8, <2>9, <2>10 DEF GameFits, gameVars
<1> QED
  BY <1>2 DEF SavesInv, RequestFits

LEMMA RemovesSaves ==
    ASSUME PairInv, PairInv', SavesInv, Removes
    PROVE  SavesInv'
<1>1. /\ UNCHANGED <<gameVars, queue, count>> /\ coord'.at = "idle" /\ active' = NoActive
      /\ \A g \in Games : marks[g] \in SUBSET Txn
  BY DEF Removes, Goes, gameVars, PairInv, LegacyTypeOK
<1>2. ASSUME NEW g \in Games
      PROVE  queue'[g] = <<>> /\ PlacedFits(g)' /\ GameFits(g)'
  <2>1. queue[g] = <<>> /\ hold[g] = NoHold
    <3>1. Through(g)
      BY DEF Removes, Through
    <3> QED
      BY <3>1 DEF PairInv, ThroughFits
  <2>2. Staged(g) = {} /\ Staged(g)' = {} /\ Files(g)' = Files(g)
    <3>1. Staged(g) = {}
      BY <2>1 DEF SavesInv, PlacedFits, NoHold
    <3> QED
      BY <1>1, <3>1 DEF Staged, Files, gameVars, NoActive
  <2>3. \A s : Admissible(g, s)' <=> Admissible(g, s)
    BY <1>1 DEF Admissible, gameVars
  <2>4. GameFits(g)
    BY DEF SavesInv
  <2>5. TagsFit(g)'
    BY <1>1, <2>2, <2>4 DEF GameFits, TagsFit, gameVars, NoActive
  <2>6. OutputFits(g)' /\ SourceFits(g)'
    BY <1>1, <2>1, <2>2 DEF OutputFits, SourceFits, NoHold, gameVars
  <2>7. SavesAreExact(g)'
    BY <1>1, <2>2, <2>3, <2>4 DEF GameFits, SavesAreExact, gameVars
  <2>8. PlayIsExact(g)' /\ NothingYet(g)' /\ SomeSave(g)'
    BY <1>1, <2>2, <2>3, <2>4 DEF GameFits, PlayIsExact, NothingYet, SomeSave, gameVars
  <2>9. PlacedFits(g)'
    BY <1>1, <2>1, <2>2 DEF PlacedFits, gameVars, NoHold, NoActive
  <2> QED
    BY <1>1, <2>1, <2>5, <2>6, <2>7, <2>8, <2>9 DEF GameFits
<1> QED
  BY <1>2 DEF SavesInv, RequestFits

LEMMA AsksSaves ==
    ASSUME PairInv, PairInv', SavesInv, Asks
    PROVE  SavesInv'
<1> DEFINE new == [action |-> coord.at, id |-> active.id, live |-> TRUE]
<1>1. /\ UNCHANGED <<gameVars, result, active, count>> /\ coord'.at = coord.at /\ coord'.ix = coord.ix
      /\ queue \in [Games -> Seq(Commands)] /\ queue' = [queue EXCEPT ![Peer] = Append(queue[Peer], new)]
  BY DEF Asks, PairInv, LegacyTypeOK
<1>2. \A g \in Games : SameGame(g)
  BY <1>1 DEF SameGame, gameVars
<1>3. SameExchange
  BY <1>1 DEF SameExchange
<1>4. \A g \in Games : PlacedFits(g)' /\ GameFits(g)' /\ Staged(g)' = Staged(g) /\ (Journalled(g)' <=> Journalled(g))
  BY <1>1, <1>2, <1>3, SameGameKeeps, SamePlaced, SameGameFits DEF SavesInv
<1>5. ASSUME NEW g \in Games PROVE RequestFits(g)'
  <2> SUFFICES ASSUME NEW i \in DOMAIN queue'[g]
               PROVE  /\ queue'[g][i].action \in {"load", "release"} => \A h \in Games : Journalled(h)'
                      /\ queue'[g][i].action = "abort" => MayAbort' /\ \A h \in Games : Staged(h)' = {}
    BY DEF RequestFits, MayAbort
  <2>1. CASE i \in DOMAIN queue[g] /\ queue'[g][i] = queue[g][i]
    BY <1>1, <1>4, <2>1 DEF SavesInv, RequestFits, MayAbort
  <2>2. CASE queue'[g][i] = new
    BY <1>1, <1>4, <2>2 DEF SavesInv, PlacedFits, PairInv, PlaceFits, MarksFit, Journalled,
       MayAbort
  <2>3. (i \in DOMAIN queue[g] /\ queue'[g][i] = queue[g][i]) \/ queue'[g][i] = new
    <3>1. queue[g] \in Seq(Commands) /\ queue'[g] = IF g = Peer THEN Append(queue[g], new) ELSE queue[g]
      BY <1>1
    <3> HIDE DEF new
    <3> QED
      BY <3>1
  <2> QED
    BY <2>1, <2>2, <2>3
<1> QED
  BY <1>4, <1>5 DEF SavesInv

LEMMA StagesSaves ==
    ASSUME PairInv, PairInv', SavesInv, Stages
    PROVE  SavesInv'
<1>1. /\ UNCHANGED <<gameVars, queue, active, count>> /\ coord.at = "stage"
      /\ active.phase = "preparing" /\ ~active.targets /\ active.prepared = 2
  BY DEF Stages, gameVars, PairInv, PlaceFits
<1>2. \A g \in Games : SameGame(g)
  BY <1>1 DEF SameGame, gameVars
<1>3. ASSUME NEW g \in Games
      PROVE  /\ Staged(g) = {} /\ Staged(g)' = {} /\ ~Journalled(g) /\ ~Journalled(g)' /\ hold[g].phase = "prepared"
             /\ Last(saves[g]) = hold[g].source /\ hold[g].source.inv = receipts[g]
  <2>1. ~Journalled(g) /\ hold[g].phase = "prepared"
    BY <1>1 DEF PairInv, MarksFit, Journalled, Stages
  <2> QED
    BY <1>1, <1>2, <2>1, SameGameFits DEF SavesInv, PlacedFits, GameFits, SourceFits
<1>4. ASSUME NEW g \in Games PROVE GameFits(g)'
  <2>1. active'.id = active.id /\ count'.txn = count.txn /\ GameFits(g) /\ SameGame(g)
    BY <1>1, <1>2 DEF SavesInv
  <2> QED
    BY <1>3, <2>1, SameGameFits DEF GameFits
<1>5. ASSUME NEW g \in Games PROVE RequestFits(g)'
  <2>1. RequestFits(g) /\ queue' = queue /\ ~MayAbort
    BY <1>1 DEF SavesInv, MayAbort
  <2> QED
    BY <1>3, <2>1, RequestsKeep
<1>6. ASSUME NEW g \in Games PROVE PlacedFits(g)'
  <2>1. /\ hold'[g].phase = "prepared" /\ Last(saves'[g]) = hold'[g].source /\ receipts'[g] = receipts[g]
        /\ active'.phase = "preparing" /\ ~active'.targets
    BY <1>1, <1>3 DEF gameVars
  <2>2. CASE UNCHANGED result /\ Goes(Finish(active), 1)
    BY <1>1, <1>3, <2>1, <2>2 DEF PlacedFits, Goes, Finish
  <2>3. CASE (\E gets \in Recipients : result' = Outcome(gets)) /\ Goes("target", 1)
    <3>1. PICK gets \in Recipients : result' = Outcome(gets)
      BY <2>3
    <3>2. result'.inv[g] = Last(saves[g]).inv \cup (IF g \in gets THEN {active.id} ELSE {}) /\ result'.gets = gets
      BY <3>1 DEF Outcome
    <3>3. result'.inv[g] = receipts'[g] \cup (IF g \in result'.gets THEN {active'.id} ELSE {})
      BY <1>1, <1>3, <2>1, <3>2
    <3>4. coord'.at = "target"
      BY <2>3 DEF Goes
    <3> QED
      BY <1>3, <2>1, <3>3, <3>4 DEF PlacedFits
  <2> QED
    BY <2>2, <2>3 DEF Stages
<1> QED
  BY <1>4, <1>5, <1>6 DEF SavesInv

\* The outputs of the transaction come and go; every other file stays.
LEMMA OutputsChange ==
    ASSUME PairInv, SavesInv, NEW g \in Games, NEW new,
           active.id # NoTxn, ~Journalled(g), active'.id = active.id, count'.txn = count.txn, result' = result,
           up'[g] = up[g], inv'[g] = inv[g], hold'[g] = hold[g], barrier'[g] = barrier[g],
           marks'[g] = marks[g], receipts'[g] = receipts[g],
           Files(g)' = (Files(g) \ Staged(g)) \cup new,
           \A s \in new : s.name = active.id /\ s.tag = active.id /\ s.inv = result.inv[g]
    PROVE  /\ Staged(g)' = new /\ TagsFit(g)' /\ SourceFits(g)' /\ SavesAreExact(g)'
           /\ PlayIsExact(g)' /\ SomeSave(g)'
<1>1. GameFits(g) /\ active.id = count.txn /\ active.id \in Int /\ ~Journalled(g)'
  BY DEF SavesInv, PairInv, ActiveFits, LegacyTypeOK, Journalled
<1>2. Staged(g)' = new
  BY <1>1 DEF Staged
<1>3. \A s : Admissible(g, s)' <=> Admissible(g, s)
  BY DEF Admissible
<1>4. TagsFit(g)'
  BY <1>1 DEF GameFits, TagsFit
<1>5. SourceFits(g)'
  <2>1. Admissible(g, hold[g].source)' <=> Admissible(g, hold[g].source)
    BY DEF Admissible
  <2>2. hold[g].source.name = NoTxn => hold[g].source \notin Staged(g)
    BY DEF Staged
  <2> QED
    BY <1>1, <2>1, <2>2 DEF GameFits, SourceFits, Journalled
<1>6. SavesAreExact(g)'
  BY <1>1, <1>2, <1>3 DEF GameFits, SavesAreExact
<1>7. PlayIsExact(g)'
  BY <1>1 DEF GameFits, PlayIsExact
<1>8. SomeSave(g)'
  <2> SUFFICES ASSUME barrier[g] # NoTxn PROVE \E s \in Files(g)' : Admissible(g, s)
    BY <1>3 DEF SomeSave
  <2>1. PICK s \in Files(g) : Admissible(g, s)
    BY <1>1 DEF GameFits, SomeSave
  <2>2. s.tag # active.id
    BY <1>1, <2>1 DEF GameFits, TagsFit, Admissible, Journalled
  <2>3. s \notin Staged(g)
    BY <1>1, <2>2 DEF GameFits, OutputFits
  <2> QED
    BY <2>1, <2>3
<1> QED
  BY <1>2, <1>4, <1>5, <1>6, <1>7, <1>8

LEMMA LastIsStaged ==
    ASSUME PairInv, SavesInv, NEW g \in Games
    PROVE  /\ saves[g] \in Seq(Saves)
           /\ Staged(g) # {} => /\ saves[g] # <<>> /\ Last(saves[g]) \in Staged(g)
                                /\ \A i \in 1 .. Len(saves[g]) - 1 : saves[g][i] \notin Staged(g)
                                /\ Files(g) \ Staged(g) = {saves[g][i] : i \in 1 .. Len(saves[g]) - 1}
<1>1. saves[g] \in Seq(Saves) /\ OutputFits(g)
  BY DEF PairInv, LegacyTypeOK, SavesInv, GameFits
<1>2. ASSUME Staged(g) # {}
      PROVE  /\ saves[g] # <<>> /\ Last(saves[g]) \in Staged(g)
             /\ \A i \in 1 .. Len(saves[g]) - 1 : saves[g][i] \notin Staged(g)
             /\ Files(g) \ Staged(g) = {saves[g][i] : i \in 1 .. Len(saves[g]) - 1}
  <2>1. PICK i \in DOMAIN saves[g] : saves[g][i] \in Staged(g)
    BY <1>2 DEF Staged, Files
  <2>2. i = Len(saves[g]) /\ \A j \in DOMAIN saves[g] : saves[g][j] \in Staged(g) => j = Len(saves[g])
    BY <1>1, <2>1 DEF OutputFits
  <2>3. DOMAIN saves[g] = 1 .. Len(saves[g]) /\ Len(saves[g]) \in Nat
    BY <1>1
  <2>4. \A j \in 1 .. Len(saves[g]) - 1 : j \in DOMAIN saves[g] /\ j # Len(saves[g])
    BY <2>3
  <2>5. \A j \in DOMAIN saves[g] : j # Len(saves[g]) => j \in 1 .. Len(saves[g]) - 1
    BY <2>3
  <2>6. saves[g] # <<>> /\ Last(saves[g]) \in Staged(g)
    BY <1>1, <2>1, <2>2, FrontFits
  <2>7. Files(g) \ Staged(g) = {saves[g][j] : j \in 1 .. Len(saves[g]) - 1}
    BY <2>1, <2>2, <2>4, <2>5 DEF Files
  <2> QED
    BY <2>2, <2>4, <2>6, <2>7
<1> QED
  BY <1>1, <1>2

LEMMA DiscardsSaves ==
    ASSUME PairInv, PairInv', SavesInv, Discards
    PROVE  SavesInv'
<1>0. PICK g \in Games : g = Peer
  BY PeerFits DEF Discards, PairInv, PlaceFits
<1>1. /\ UNCHANGED <<active, result, up, inv, hold, barrier, marks, receipts, queue, count>>
      /\ coord.at = "discard" /\ coord.ix \in {1, 2} /\ active.phase = "preparing"
      /\ active.targets /\ active.id # NoTxn /\ saves' = [saves EXCEPT ![g] = Discarded(saves[g])]
      /\ saves \in [Games -> Seq(Saves)] /\ Ix(g) = coord.ix
      /\ coord'.at = (IF coord.ix = 2 THEN "abort" ELSE "discard") /\ (coord.ix = 1 => coord'.ix = 2)
  BY <1>0, PeerFits DEF Discards, Goes, PairInv, PlaceFits, ActiveFits, LegacyTypeOK
<1>2. \A h \in Games : ~Journalled(h)
  BY <1>1 DEF PairInv, MarksFit, Journalled
<1>3. Staged(g)' = {} /\ GameFits(g)'
  <2>1. CASE Staged(g) = {}
    <3>1. Discarded(saves[g]) = saves[g]
      <4>1. saves[g] # <<>> => Last(saves[g]) \in Files(g)
        BY <1>1, FrontFits DEF Files
      <4> QED
        BY <1>1, <1>2, <2>1, <4>1 DEF Discarded, Staged
    <3>2. SameGame(g)
      BY <1>1, <3>1 DEF SameGame
    <3> QED
      BY <1>1, <2>1, <3>2, SameGameFits, SameGameKeeps DEF SavesInv, SameExchange
  <2>2. CASE Staged(g) # {}
    <3>1. saves'[g] = Front(saves[g])
      <4>1. saves[g] # <<>> /\ Last(saves[g]).name = active.id
        BY <1>1, <2>2, LastIsStaged DEF Staged
      <4> QED
        BY <1>1, <4>1 DEF Discarded
    <3>2. /\ DOMAIN saves'[g] = 1 .. Len(saves[g]) - 1
          /\ \A i \in 1 .. Len(saves[g]) - 1 : saves'[g][i] = saves[g][i]
      <4>1. saves[g] # <<>> /\ saves[g] \in Seq(Saves)
        BY <2>2, <1>1, LastIsStaged
      <4>2. Front(saves[g]) \in Seq(Saves) /\ Len(Front(saves[g])) = Len(saves[g]) - 1
        BY <4>1, FrontFits
      <4>3. DOMAIN Front(saves[g]) = 1 .. Len(saves[g]) - 1
        BY <4>2
      <4> QED
        BY <3>1, <4>1, <4>3, FrontFits
    <3>3. Files(g)' = (Files(g) \ Staged(g)) \cup {}
      <4>1. Files(g) \ Staged(g) = {saves[g][i] : i \in 1 .. Len(saves[g]) - 1}
        BY <2>2, LastIsStaged
      <4>2. Files(g)' = {saves'[g][i] : i \in 1 .. Len(saves[g]) - 1}
        BY <3>2 DEF Files
      <4> QED
        BY <3>2, <4>1, <4>2
    <3>4. /\ Staged(g)' = {} /\ TagsFit(g)' /\ SourceFits(g)' /\ SavesAreExact(g)'
          /\ PlayIsExact(g)' /\ SomeSave(g)'
      <4> DEFINE none == {}
      <4>1. /\ up'[g] = up[g] /\ inv'[g] = inv[g] /\ hold'[g] = hold[g] /\ barrier'[g] = barrier[g]
            /\ marks'[g] = marks[g] /\ receipts'[g] = receipts[g] /\ result' = result
            /\ active'.id = active.id /\ count'.txn = count.txn
        BY <1>1
      <4>2. /\ Files(g)' = (Files(g) \ Staged(g)) \cup none
            /\ \A s \in none : s.name = active.id /\ s.tag = active.id /\ s.inv = result.inv[g]
        BY <3>3
      <4>3. active.id # NoTxn /\ ~Journalled(g)
        BY <1>1, <1>2
      <4> HIDE DEF none
      <4>4. /\ Staged(g)' = none /\ TagsFit(g)' /\ SourceFits(g)' /\ SavesAreExact(g)'
            /\ PlayIsExact(g)' /\ SomeSave(g)'
        BY <4>1, <4>2, <4>3, OutputsChange
      <4> QED
        BY <4>4 DEF none
    <3>5. OutputFits(g)'
      BY <3>4 DEF OutputFits
    <3>6. saves'[g] # <<>>
      <4>1. hold[g].phase = "prepared"
        BY <1>1, <2>2 DEF SavesInv, PlacedFits
      <4>2. hold[g].source \in Files(g) /\ hold[g].source \notin Staged(g)
        BY <1>1, <1>2, <4>1 DEF SavesInv, GameFits, SourceFits, Staged
      <4>3. Files(g)' # {}
        BY <3>3, <4>2
      <4> QED
        BY <4>3 DEF Files
    <3> QED
      BY <3>4, <3>5, <3>6 DEF GameFits, NothingYet
  <2> QED
    BY <2>1, <2>2
<1>4. ASSUME NEW h \in Games, h # g PROVE GameFits(h)' /\ Staged(h)' = Staged(h)
  <2>1. SameGame(h)
    BY <1>1, <1>4 DEF SameGame
  <2> QED
    BY <1>1, <2>1, SameGameFits, SameGameKeeps DEF SavesInv, SameExchange
<1>5. ASSUME NEW h \in Games PROVE PlacedFits(h)'
  <2>1. /\ Staged(h)' # {} => Staged(h) # {}
        /\ coord.ix = 2 => Staged(h)' = {}
        /\ Ix(h) = 1 => Staged(h)' = {}
    <3>1. Ix(h) \in {1, 2} /\ (Ix(h) = coord.ix => h = g)
      BY <1>1 DEF Ix, Games
    <3>2. h # g => Staged(h)' = Staged(h) /\ (coord.ix > Ix(h) => Staged(h) = {})
      BY <1>1, <1>4 DEF SavesInv, PlacedFits
    <3> QED
      BY <1>1, <1>3, <3>1, <3>2
  <2> QED
    BY <1>1, <2>1 DEF SavesInv, PlacedFits, Ix
<1>6. ASSUME NEW h \in Games PROVE RequestFits(h)'
  <2>1. RequestFits(h) /\ queue' = queue /\ MayAbort'
    BY <1>1 DEF SavesInv, MayAbort
  <2>2. \A k \in Games : (Journalled(k) => Journalled(k)') /\ (Staged(k) = {} => Staged(k)' = {})
    BY <1>2, <1>3, <1>4
  <2> QED
    BY <2>1, <2>2, RequestsKeep
<1> QED
  BY <1>3, <1>4, <1>5, <1>6 DEF SavesInv

LEMMA PublishesSaves ==
    ASSUME PairInv, PairInv', SavesInv, Publishes
    PROVE  SavesInv'
<1>0. PICK g \in Games : g = Peers[(coord.ix + 1) \div 2]
  <2>1. coord.ix \in 1 .. 4
    BY DEF PairInv, LegacyTypeOK
  <2> QED
    BY <2>1 DEF Peers, Games
<1> DEFINE out(w) == [name |-> active.id, whole |-> w, tag |-> active.id, inv |-> result.inv[g]]
           odd == coord.ix % 2 = 1
           base == IF odd THEN saves[g] ELSE Front(saves[g])
<1>1. /\ UNCHANGED <<active, result, up, inv, hold, barrier, marks, receipts, queue, count>>
      /\ coord.at = "publish" /\ coord.ix \in 1 .. 4 /\ active.phase = "preparing"
      /\ active.targets /\ active.id # NoTxn /\ active.id \in 0 .. N
      /\ saves \in [Games -> Seq(Saves)] /\ result.inv \in [Games -> SUBSET Txn]
      /\ IF coord.ix = 4 THEN coord'.at = "decide" ELSE coord'.at = "publish" /\ coord'.ix = coord.ix + 1
  BY DEF Publishes, Goes, PairInv, PlaceFits, ActiveFits, LegacyTypeOK
<1>2. /\ g \in Games /\ \A h \in Games : h # g => Ix(h) # Ix(g)
      /\ coord.ix = IF odd THEN 2 * Ix(g) - 1 ELSE 2 * Ix(g)
  <2>1. coord.ix \in {1, 2, 3, 4}
    BY <1>1
  <2>2. /\ (1 + 1) \div 2 = 1 /\ (2 + 1) \div 2 = 1 /\ (3 + 1) \div 2 = 2 /\ (4 + 1) \div 2 = 2
        /\ 1 % 2 = 1 /\ 2 % 2 = 0 /\ 3 % 2 = 1 /\ 4 % 2 = 0
    OBVIOUS
  <2>3. (coord.ix \in {1, 2} => g = "red") /\ (coord.ix \in {3, 4} => g = "blue") /\ (odd <=> coord.ix \in {1, 3})
    BY <1>0, <2>1, <2>2 DEF Peers
  <2> QED
    BY <2>1, <2>3 DEF Games, Ix
<1>3. \A h \in Games : ~Journalled(h) /\ hold[h].phase = "prepared"
  BY <1>1 DEF PairInv, MarksFit, Journalled, SavesInv, PlacedFits
<1>4. saves' = [saves EXCEPT ![g] = Append(base, out(~odd))] /\ out(~odd) \in Saves
  <2>1. result.inv[g] \in SUBSET Txn
    BY <1>1, <1>2
  <2> QED
    BY <1>0, <1>1, <2>1 DEF Publishes, Saves
<1> DEFINE new == {out(~odd)}
<1>5. /\ base \in Seq(Saves) /\ Files(g) \ Staged(g) = {base[i] : i \in 1 .. Len(base)}
      /\ odd <=> Staged(g) = {}
  <2>1. CASE odd
    <3>1. Staged(g) = {}
      BY <1>1, <1>2, <2>1 DEF SavesInv, PlacedFits, Ix
    <3>2. base = saves[g] /\ saves[g] \in Seq(Saves)
      BY <1>1, <1>2, <2>1
    <3> QED
      BY <2>1, <3>1, <3>2 DEF Files
  <2>2. CASE ~odd
    <3>1. Staged(g) # {}
      BY <1>1, <1>2, <2>2 DEF SavesInv, PlacedFits
    <3>2. base = Front(saves[g])
      BY <2>2
    <3> HIDE DEF base, odd
    <3>3. saves[g] # <<>> /\ Files(g) \ Staged(g) = {saves[g][i] : i \in 1 .. Len(saves[g]) - 1}
          /\ saves[g] \in Seq(Saves)
      BY <1>2, <3>1, LastIsStaged
    <3>4. /\ base \in Seq(Saves) /\ Len(base) = Len(saves[g]) - 1
          /\ \A i \in 1 .. Len(saves[g]) - 1 : base[i] = saves[g][i]
      BY <3>2, <3>3, FrontFits
    <3> QED
      BY <2>2, <3>1, <3>3, <3>4
  <2> QED
    BY <2>1, <2>2
<1> DEFINE o == out(~odd)
<1>6. /\ o.name = active.id /\ o.tag = active.id /\ o.inv = result.inv[g] /\ o.whole = ~odd /\ o \in Saves
      /\ saves' = [saves EXCEPT ![g] = Append(base, o)] /\ new = {o}
  BY <1>4
<1> HIDE DEF o, base, new, odd
<1>7. /\ Len(saves'[g]) = Len(base) + 1 /\ DOMAIN saves'[g] = 1 .. Len(base) + 1 /\ saves'[g] # <<>>
      /\ \A i \in 1 .. Len(base) : saves'[g][i] = base[i]
      /\ saves'[g][Len(base) + 1] = o /\ Len(base) \in Nat
  <2>1. saves'[g] = Append(base, o)
    BY <1>1, <1>2, <1>6
  <2>2. Append(base, o) \in Seq(Saves) /\ Len(Append(base, o)) = Len(base) + 1 /\ Len(base) \in Nat
    BY <1>5, <1>6, AppendFits
  <2>3. DOMAIN Append(base, o) = 1 .. Len(base) + 1
    BY <2>2
  <2> QED
    BY <1>5, <1>6, <2>1, <2>2, <2>3, AppendFits
<1>8. Files(g)' = (Files(g) \ Staged(g)) \cup new
  <2>1. Files(g)' = {saves'[g][i] : i \in 1 .. Len(base) + 1}
    BY <1>7 DEF Files
  <2>2. 1 .. Len(base) + 1 = (1 .. Len(base)) \cup {Len(base) + 1}
    BY <1>7
  <2>3. {saves'[g][i] : i \in 1 .. Len(base) + 1} = {base[i] : i \in 1 .. Len(base)} \cup {o}
    BY <1>7, <2>2
  <2> QED
    BY <1>5, <1>6, <2>1, <2>3
<1>9. /\ Staged(g)' = new /\ TagsFit(g)' /\ SourceFits(g)' /\ SavesAreExact(g)'
      /\ PlayIsExact(g)' /\ SomeSave(g)'
  <2>1. /\ up'[g] = up[g] /\ inv'[g] = inv[g] /\ hold'[g] = hold[g] /\ barrier'[g] = barrier[g]
        /\ marks'[g] = marks[g] /\ receipts'[g] = receipts[g] /\ result' = result
        /\ active'.id = active.id /\ count'.txn = count.txn /\ active.id # NoTxn /\ ~Journalled(g) /\ g \in Games
    BY <1>1, <1>2, <1>3
  <2>2. \A s \in new : s.name = active.id /\ s.tag = active.id /\ s.inv = result.inv[g]
    BY <1>6
  <2> QED
    BY <1>8, <2>1, <2>2, OutputsChange
<1>10. GameFits(g)'
  <2>1. OutputFits(g)'
    <3>1. \A i \in 1 .. Len(base) : base[i] \notin new
      <4>1. \A i \in 1 .. Len(base) : base[i] \in Files(g) \ Staged(g)
        BY <1>5
      <4>2. \A i \in 1 .. Len(base) : base[i].name # active.id
        BY <1>1, <1>2, <1>3, <4>1 DEF Staged
      <4> QED
        BY <1>6, <4>2
    <3>2. \A i \in DOMAIN saves'[g] : i # Len(saves'[g]) => i \in 1 .. Len(base)
      BY <1>7
    <3> QED
      BY <1>1, <1>6, <1>7, <1>9, <3>1, <3>2 DEF OutputFits
  <2> QED
    BY <1>7, <1>9, <2>1 DEF GameFits, NothingYet
<1>11. ASSUME NEW h \in Games, h # g PROVE GameFits(h)' /\ Staged(h)' = Staged(h)
  <2>1. SameGame(h)
    BY <1>1, <1>2, <1>6, <1>11 DEF SameGame
  <2> QED
    BY <1>1, <2>1, SameGameFits, SameGameKeeps DEF SavesInv, SameExchange
<1>12. ASSUME NEW h \in Games PROVE PlacedFits(h)'
  <2>1. PlacedFits(h) /\ ~Journalled(h)' /\ hold'[h].phase = "prepared" /\ coord'.ix \in Int /\ Ix(h) \in {1, 2}
    BY <1>1, <1>3 DEF SavesInv, Journalled, PairInv, LegacyTypeOK, Ix
  <2>2. result'.inv[h] = receipts'[h] \cup (IF h \in result'.gets THEN {active'.id} ELSE {})
    BY <1>1, <2>1 DEF PlacedFits
  <2>3. CASE h = g
    <3>1. Staged(h)' = {o} /\ o.whole = ~odd
      BY <1>6, <1>9, <2>3
    <3>2. /\ Staged(h)' # {} /\ (~odd => \E s \in Staged(h)' : s.whole)
          /\ active' = active /\ coord.ix = (IF odd THEN 2 * Ix(h) - 1 ELSE 2 * Ix(h))
      BY <1>1, <1>2, <2>3, <3>1
    <3>3. /\ coord'.at = "publish" => coord'.ix >= 2 * Ix(h) /\ (coord'.ix > 2 * Ix(h) => ~odd)
          /\ coord'.at = "decide" => ~odd
          /\ coord'.at \in {"publish", "decide"}
      <4>1. coord.ix \in 1 .. 4 /\ Ix(h) \in {1, 2}
        BY <1>1, <2>1
      <4>2. CASE odd
        <5>1. coord.ix = 2 * Ix(h) - 1 /\ coord.ix # 4
          BY <3>2, <4>1, <4>2
        <5> QED
          BY <1>1, <4>1, <5>1
      <4>3. CASE ~odd
        <5>1. coord.ix = 2 * Ix(h)
          BY <3>2, <4>3
        <5> QED
          BY <1>1, <4>1, <4>3, <5>1
      <4> QED
        BY <4>2, <4>3
    <3> QED
      BY <1>1, <2>1, <2>2, <3>2, <3>3 DEF PlacedFits
  <2>4. CASE h # g
    <3>1. Staged(h)' = Staged(h) /\ Ix(h) # Ix(g) /\ Ix(g) \in {1, 2}
      BY <1>2, <1>11, <2>4 DEF Ix
    <3>2. coord.ix < 2 * Ix(h) => Ix(g) = 1 /\ Ix(h) = 2
      BY <1>1, <1>2, <2>1, <3>1
    <3> QED
      BY <1>1, <1>2, <2>1, <2>2, <3>1, <3>2 DEF PlacedFits
  <2> QED
    BY <2>3, <2>4
<1>13. ASSUME NEW h \in Games PROVE RequestFits(h)'
  <2>1. RequestFits(h) /\ queue' = queue
    BY <1>1 DEF SavesInv
  <2> QED
    BY <1>1, <2>1 DEF RequestFits, Journalled
<1> QED
  BY <1>10, <1>11, <1>12, <1>13 DEF SavesInv

LEMMA JournalsSaves ==
    ASSUME PairInv, PairInv', SavesInv, Journals
    PROVE  SavesInv'
<1>0. PICK g \in Games : g = Peer
  BY PeerFits DEF Journals, PairInv, PlaceFits
<1>1. /\ UNCHANGED <<active, result, up, inv, hold, saves, queue, count>>
      /\ coord.at = "journal" /\ coord.ix \in {1, 2} /\ active.phase = "committed" /\ active.targets \in BOOLEAN
      /\ active.id # NoTxn /\ Ix(g) = coord.ix /\ active.id = count.txn /\ active.id \in Int
      /\ coord'.at \in {"journal", "load"}
      /\ marks \in [Games -> SUBSET Txn] /\ barrier \in [Games -> 0 .. N] /\ receipts \in [Games -> SUBSET Txn]
  BY <1>0, PeerFits DEF Journals, Goes, PairInv, PlaceFits, ActiveFits, LegacyTypeOK
<1>2. CASE Journalled(g)
  <2>1. UNCHANGED <<marks, barrier, receipts>>
    BY <1>0, <1>2 DEF Journals, Journalled
  <2>2. \A h \in Games : SameGame(h)
    BY <1>1, <2>1 DEF SameGame
  <2>3. \A h \in Games : GameFits(h)' /\ Staged(h)' = Staged(h) /\ (Journalled(h)' <=> Journalled(h))
    BY <1>1, <2>2, SameGameFits, SameGameKeeps DEF SavesInv, SameExchange
  <2>4. ASSUME NEW h \in Games PROVE PlacedFits(h)'
    BY <1>1, <2>1, <2>3 DEF SavesInv, PlacedFits
  <2>5. ASSUME NEW h \in Games PROVE RequestFits(h)'
    BY <1>1, <2>3 DEF SavesInv, RequestFits
  <2> QED
    BY <2>3, <2>4, <2>5 DEF SavesInv
<1>3. CASE ~Journalled(g)
  <2>1. /\ marks' = [marks EXCEPT ![g] = marks[g] \cup {active.id}] /\ barrier' = [barrier EXCEPT ![g] = active.id]
        /\ receipts' = IF g \in result.gets THEN [receipts EXCEPT ![g] = receipts[g] \cup {active.id}] ELSE receipts
    BY <1>0, <1>3 DEF Journals, Journalled, Notes
  <2>2. /\ marks'[g] = marks[g] \cup {active.id} /\ barrier'[g] = active.id
        /\ receipts'[g] = result.inv[g] /\ hold[g].phase = "prepared" /\ GameFits(g)
        /\ \E s \in Staged(g) : s.whole
    <3>1. receipts'[g] = receipts[g] \cup (IF g \in result.gets THEN {active.id} ELSE {})
      BY <1>1, <2>1
    <3> QED
      BY <1>1, <1>3, <2>1, <3>1 DEF SavesInv, PlacedFits
  <2>3. Journalled(g)' /\ Staged(g)' = {} /\ Files(g)' = Files(g)
    BY <1>1, <2>2 DEF Journalled, Staged, Files
  <2>4. \A s \in Files(g) : Admissible(g, s)' <=> s.whole /\ s.tag = active.id
    BY <1>1, <2>2 DEF Admissible
  <2>5. \A s \in Files(g) : s.tag = active.id <=> s \in Staged(g)
    BY <1>1, <1>3, <2>2 DEF GameFits, TagsFit, OutputFits, Staged
  <2>6. GameFits(g)'
    <3>1. OutputFits(g)' /\ TagsFit(g)' /\ SourceFits(g)' /\ PlayIsExact(g)'
      BY <1>1, <2>2, <2>3 DEF GameFits, OutputFits, TagsFit, SourceFits, PlayIsExact
    <3>2. SavesAreExact(g)'
      BY <1>1, <2>2, <2>3, <2>4, <2>5 DEF GameFits, SavesAreExact, OutputFits
    <3>3. SomeSave(g)'
      BY <2>2, <2>3, <2>4, <2>5 DEF SomeSave, Staged
    <3>4. saves'[g] # <<>>
      BY <1>1, <2>2 DEF Staged, Files
    <3> QED
      BY <3>1, <3>2, <3>3, <3>4 DEF GameFits, NothingYet
  <2>7. ASSUME NEW h \in Games, h # g
        PROVE  GameFits(h)' /\ Staged(h)' = Staged(h) /\ (Journalled(h)' <=> Journalled(h)) /\ receipts'[h] = receipts[h]
    <3>1. SameGame(h)
      BY <1>1, <2>1, <2>7 DEF SameGame
    <3> QED
      BY <1>1, <3>1, SameGameFits, SameGameKeeps DEF SavesInv, SameExchange, SameGame
  <2>8. ASSUME NEW h \in Games PROVE PlacedFits(h)'
    <3>1. CASE h = g
      BY <1>1, <2>2, <2>3, <3>1 DEF SavesInv, PlacedFits
    <3>2. CASE h # g
      BY <1>1, <2>7, <3>2 DEF SavesInv, PlacedFits
    <3> QED
      BY <3>1, <3>2
  <2>9. ASSUME NEW h \in Games PROVE RequestFits(h)'
    BY <1>1, <1>3, <2>3, <2>7 DEF SavesInv, RequestFits
  <2> QED
    BY <2>6, <2>7, <2>8, <2>9 DEF SavesInv
<1> QED
  BY <1>2, <1>3

\* A game that is not held on its save has nothing staged, and may change.
LEMMA NothingStaged ==
    ASSUME NEW g \in Games, PlacedFits(g), hold[g].phase # "prepared"
    PROVE  /\ Staged(g) = {} /\ coord.at \notin {"target", "publish", "decide"}
           /\ active.phase = "committed" => Journalled(g)
BY DEF PlacedFits

LEMMA PlacedLoose ==
    ASSUME NEW g \in Games, PlacedFits(g), SameExchange, coord'.at = coord.at, coord'.ix = coord.ix,
           marks'[g] = marks[g], Staged(g)' = {}, coord.at \notin {"target", "publish", "decide"},
           active.phase = "committed" => Journalled(g),
           hold'[g].phase = "prepared" => Last(saves'[g]) = hold'[g].source
    PROVE  PlacedFits(g)'
<1>1. Journalled(g)' <=> Journalled(g)
  BY DEF Journalled, SameExchange
<1> QED
  BY <1>1 DEF PlacedFits, SameExchange

\* A game that plays saves what its journal says, under the barrier of now.
LEMMA OwnSaveFits ==
    ASSUME PairInv, SavesInv, NEW g \in Games, up[g], hold[g].phase # "prepared", NEW w \in BOOLEAN,
           SameExchange, barrier'[g] = barrier[g], marks'[g] = marks[g], receipts'[g] = receipts[g],
           Files(g)' \subseteq Files(g) \cup {NewSave(g, w)},
           \/ w /\ NewSave(g, w) \in Files(g)'
           \/ \A s \in Files(g) : s \in Files(g)'
    PROVE  Staged(g)' = {} /\ TagsFit(g)' /\ SavesAreExact(g)' /\ SomeSave(g)'
<1>1. /\ GameFits(g) /\ Staged(g) = {} /\ inv[g] = receipts[g] /\ active'.id = active.id /\ count'.txn = count.txn
      /\ (Journalled(g)' <=> Journalled(g))
  BY NothingStaged DEF SavesInv, GameFits, PlayIsExact, SameExchange, Journalled
<1>2. /\ NewSave(g, w).name = NoTxn /\ NewSave(g, w).tag = barrier[g] /\ NewSave(g, w).inv = receipts[g]
      /\ NewSave(g, w).whole = w
  BY <1>1 DEF NewSave
<1>3. Staged(g)' = {}
  BY <1>1, <1>2 DEF Staged
<1>4. \A s : Admissible(g, s)' <=> Admissible(g, s)
  BY DEF Admissible
<1>5. TagsFit(g)'
  <2>1. barrier[g] # NoTxn => Journalled(g) \/ barrier[g] # active.id
    BY <1>1 DEF GameFits, TagsFit, Journalled
  <2>2. barrier[g] <= count.txn /\ NoTxn <= count.txn
    <3>1. marks[g] \in SUBSET Txn /\ count.txn \in Nat /\ barrier[g] \in 0 .. N
      BY BoundsAssumption DEF PairInv, LegacyTypeOK
    <3> QED
      BY <1>1, <3>1 DEF GameFits, TagsFit, PairInv, MarksFit, NoTxn
  <2> QED
    BY <1>1, <1>2, <2>1, <2>2 DEF GameFits, TagsFit
<1>6. SavesAreExact(g)'
  BY <1>1, <1>2, <1>3, <1>4 DEF GameFits, SavesAreExact
<1>7. SomeSave(g)'
  <2>1. w => Admissible(g, NewSave(g, w))
    BY <1>2 DEF Admissible
  <2> QED
    BY <1>1, <1>4, <2>1 DEF GameFits, SomeSave
<1> QED
  BY <1>3, <1>5, <1>6, <1>7

\* The files after a save that is whole, and after one that was cut off.
LEMMA SavedFiles ==
    ASSUME PairInv, NEW g \in Games, saves' = [saves EXCEPT ![g] = Saved(g)]
    PROVE  /\ Files(g)' \subseteq Files(g) \cup {NewSave(g, TRUE)} /\ NewSave(g, TRUE) \in Files(g)'
           /\ saves'[g] # <<>> /\ Last(saves'[g]) = NewSave(g, TRUE)
<1>1. LegacyTypeOK /\ saves'[g] = Saved(g)
  BY DEF PairInv, LegacyTypeOK
<1>2. /\ Saved(g) \in Seq(Saves) /\ Saved(g) # <<>> /\ Last(Saved(g)) = NewSave(g, TRUE)
      /\ \A i \in DOMAIN Saved(g) :
            Saved(g)[i] = NewSave(g, TRUE) \/ \E j \in DOMAIN saves[g] : Saved(g)[i] = saves[g][j]
  BY <1>1, SavedFits
<1>3. Len(Saved(g)) \in DOMAIN Saved(g) /\ Saved(g)[Len(Saved(g))] = NewSave(g, TRUE)
  <2>1. Len(Saved(g)) \in Nat \ {0} /\ DOMAIN Saved(g) = 1 .. Len(Saved(g))
    BY <1>2
  <2> QED
    BY <1>2, <2>1 DEF Last
<1> QED
  BY <1>1, <1>2, <1>3 DEF Files

LEMMA CutOffFiles ==
    ASSUME PairInv, NEW g \in Games, saves' = [saves EXCEPT ![g] = Append(saves[g], NewSave(g, FALSE))]
    PROVE  /\ Files(g)' = Files(g) \cup {NewSave(g, FALSE)} /\ saves'[g] # <<>>
<1>1. PICK s \in Saves : s = NewSave(g, FALSE)
  BY NewSaveFits DEF PairInv
<1>2. PICK files \in Seq(Saves) : files = saves[g] /\ saves'[g] = Append(files, s)
  BY <1>1 DEF PairInv, LegacyTypeOK
<1>3. /\ Append(files, s) \in Seq(Saves) /\ Len(files) \in Nat /\ Append(files, s) # <<>>
      /\ Len(Append(files, s)) = Len(files) + 1 /\ Append(files, s)[Len(files) + 1] = s
      /\ \A i \in 1 .. Len(files) : Append(files, s)[i] = files[i]
  BY AppendFits
<1>4. DOMAIN Append(files, s) = (1 .. Len(files)) \cup {Len(files) + 1} /\ DOMAIN files = 1 .. Len(files)
  BY <1>3
<1>5. Files(g)' = {Append(files, s)[i] : i \in (1 .. Len(files)) \cup {Len(files) + 1}}
  BY <1>2, <1>4 DEF Files
<1>6. Files(g)' = {files[i] : i \in 1 .. Len(files)} \cup {s}
  BY <1>3, <1>5
<1> QED
  BY <1>1, <1>2, <1>3, <1>4, <1>6 DEF Files

\* What a game that goes back to a save keeps.
LEMMA FilesStay ==
    ASSUME NEW g \in Games, GameFits(g), PlacedFits(g), SameExchange, coord'.at = coord.at, coord'.ix = coord.ix,
           hold'[g] = hold[g], saves'[g] = saves[g], barrier'[g] = barrier[g], marks'[g] = marks[g],
           receipts'[g] = receipts[g], hold[g].phase # "prepared" => inv'[g] = receipts[g]
    PROVE  GameFits(g)' /\ Staged(g)' = Staged(g) /\ PlacedFits(g)'
<1>1. /\ Files(g)' = Files(g) /\ Staged(g)' = Staged(g) /\ (Journalled(g)' <=> Journalled(g))
      /\ \A s : Admissible(g, s)' <=> Admissible(g, s)
  BY DEF SameExchange, Files, Staged, Journalled, Admissible
<1>2. TagsFit(g)' /\ SavesAreExact(g)' /\ SomeSave(g)' /\ OutputFits(g)' /\ NothingYet(g)'
  BY <1>1 DEF GameFits, TagsFit, SavesAreExact, SomeSave, OutputFits, NothingYet, SameExchange
<1>3. SourceFits(g)'
  <2>1. Admissible(g, hold[g].source)' <=> Admissible(g, hold[g].source)
    BY DEF Admissible
  <2> QED
    BY <1>1, <2>1 DEF GameFits, SourceFits
<1>4. PlayIsExact(g)'
  BY DEF PlayIsExact
<1>5. PlacedFits(g)'
  BY <1>1 DEF PlacedFits, SameExchange
<1> QED
  BY <1>1, <1>2, <1>3, <1>4, <1>5 DEF GameFits

LEMMA AutosaveSaves ==
    ASSUME PairInv, PairInv', SavesInv, NEW g \in Games, Autosave(g)
    PROVE  SavesInv'
<1>1. /\ UNCHANGED <<coordVars, up, inv, hold, barrier, marks, receipts, queue, count>> /\ SameExchange
      /\ up[g] /\ hold[g] = NoHold /\ hold[g].phase = "none" /\ saves' = [saves EXCEPT ![g] = Saved(g)]
  BY DEF Autosave, Playing, coordVars, SameExchange, NoHold
<1>2. Staged(g)' = {} /\ TagsFit(g)' /\ SavesAreExact(g)' /\ SomeSave(g)'
  BY <1>1, SavedFiles, OwnSaveFits
<1>3. GameFits(g)'
  <2>1. OutputFits(g)' /\ NothingYet(g)' /\ PlayIsExact(g)' /\ SourceFits(g)'
    BY <1>1, <1>2, SavedFiles DEF OutputFits, NothingYet, PlayIsExact, SourceFits, SavesInv,
       GameFits, NoHold
  <2> QED
    BY <1>2, <2>1 DEF GameFits
<1>4. PlacedFits(g)'
  BY <1>1, <1>2, NothingStaged, PlacedLoose DEF SavesInv, coordVars
<1>5. \A h \in Games : h # g => SameGame(h)
  BY <1>1 DEF SameGame, PairInv, LegacyTypeOK
<1> QED
  BY <1>1, <1>2, <1>3, <1>4, <1>5, GameStep DEF coordVars

LEMMA RewindSaves ==
    ASSUME PairInv, PairInv', SavesInv, NEW g \in Games, Rewind(g)
    PROVE  SavesInv'
<1>1. /\ UNCHANGED <<coordVars, up, hold, saves, barrier, marks, receipts, queue, count>> /\ SameExchange
      /\ up[g] /\ hold[g] = NoHold /\ hold[g].phase = "none" /\ inv \in [Games -> SUBSET Txn]
      /\ GameFits(g)
  BY DEF Rewind, Playing, coordVars, SameExchange, NoHold, PairInv, LegacyTypeOK, SavesInv
<1>2. Staged(g) = {}
  BY <1>1, NothingStaged DEF SavesInv
<1>3. inv'[g] = receipts[g] /\ \A h \in Games : h # g => inv'[h] = inv[h]
  <2>1. CASE \E i \in DOMAIN saves[g] : Admissible(g, saves[g][i]) /\ inv' = [inv EXCEPT ![g] = saves[g][i].inv]
    BY <1>1, <1>2, <2>1 DEF GameFits, SavesAreExact, Files
  <2>2. CASE saves[g] = <<>> /\ inv' = [inv EXCEPT ![g] = {}]
    BY <1>1, <2>2 DEF GameFits, NothingYet
  <2> QED
    BY <2>1, <2>2 DEF Rewind
<1>4. GameFits(g)' /\ PlacedFits(g)' /\ Staged(g)' = {}
  BY <1>1, <1>2, <1>3, FilesStay DEF SavesInv, coordVars
<1>5. \A h \in Games : h # g => SameGame(h)
  BY <1>1, <1>3 DEF SameGame
<1> QED
  BY <1>1, <1>4, <1>5, GameStep DEF coordVars

LEMMA StartsSaves ==
    ASSUME PairInv, PairInv', SavesInv, NEW g \in Games, Starts(g)
    PROVE  SavesInv'
<1>1. /\ UNCHANGED <<coordVars, hold, saves, barrier, marks, receipts, queue, count>> /\ SameExchange
      /\ up' = [up EXCEPT ![g] = TRUE] /\ inv \in [Games -> SUBSET Txn] /\ up \in [Games -> BOOLEAN]
      /\ GameFits(g)
  BY DEF Starts, coordVars, SameExchange, PairInv, LegacyTypeOK, SavesInv
<1>2. \A h \in Games : h # g => inv'[h] = inv[h]
  BY <1>1 DEF Starts
<1>3. hold[g].phase # "prepared" => inv'[g] = receipts[g]
  <2> SUFFICES ASSUME hold[g].phase # "prepared" PROVE inv'[g] = receipts[g]
    OBVIOUS
  <2>1. Staged(g) = {}
    BY NothingStaged DEF SavesInv
  <2>2. CASE \E i \in DOMAIN saves[g] : Admissible(g, saves[g][i]) /\ inv' = [inv EXCEPT ![g] = saves[g][i].inv]
    BY <1>1, <2>1, <2>2 DEF GameFits, SavesAreExact, Files
  <2>3. CASE saves[g] = <<>> /\ inv' = [inv EXCEPT ![g] = {}]
    BY <1>1, <2>3 DEF GameFits, NothingYet
  <2> QED
    BY <2>2, <2>3 DEF Starts
<1>4. GameFits(g)' /\ Staged(g)' = Staged(g) /\ PlacedFits(g)'
  BY <1>1, <1>3, FilesStay DEF SavesInv, coordVars
<1>5. \A h \in Games : h # g => SameGame(h)
  BY <1>1, <1>2 DEF SameGame
<1> QED
  BY <1>1, <1>4, <1>5, GameStep DEF coordVars

LEMMA NewRunSaves ==
    ASSUME PairInv, PairInv', SavesInv, NEW g \in Games, NewRun(g)
    PROVE  SavesInv'
<1>1. /\ UNCHANGED <<coordVars, up, hold, marks, queue, count>> /\ SameExchange
      /\ up[g] /\ hold[g] = NoHold /\ hold[g].phase = "none"
      /\ \A h \in Games : h # g => SameGame(h)
      /\ inv'[g] = {} /\ saves'[g] = <<>> /\ barrier'[g] = NoTxn /\ receipts'[g] = {}
  BY DEF NewRun, Playing, coordVars, SameExchange, SameGame, NoHold, PairInv, LegacyTypeOK
<1>2. Files(g)' = {} /\ Staged(g)' = {}
  BY <1>1 DEF Files, Staged
<1>3. GameFits(g)'
  BY <1>1, <1>2 DEF GameFits, OutputFits, TagsFit, SourceFits, SavesAreExact, PlayIsExact,
     NothingYet,
     SomeSave, NoHold
<1>4. PlacedFits(g)'
  BY <1>1, <1>2, NothingStaged, PlacedLoose DEF SavesInv, coordVars
<1> QED
  BY <1>1, <1>2, <1>3, <1>4, GameStep DEF coordVars

\* What a handler leaves alone, and what it may count on.
LEMMA HandlerFrame ==
    ASSUME PairInv, SavesInv, NEW g \in Games, up[g], queue[g] # <<>>, NEW reply \in {"ok", "wait", "refused"},
           Answers(g, reply), count'.txn = count.txn
    PROVE  /\ SameExchange /\ coord'.at = coord.at /\ coord'.ix = coord.ix
           /\ \A h \in Games : \A i \in DOMAIN queue'[h] :
                 \E j \in DOMAIN queue[h] : queue'[h][i].action = queue[h][j].action
           /\ Command(g).id = active.id /\ active.id # NoTxn
           /\ Command(g).action = "prepare" => active.phase = "preparing" /\ ~Journalled(g)
           /\ Command(g).action = "load" => active.phase = "committed" /\ Journalled(g)
                                            /\ coord.at \notin {"target", "publish", "decide"}
           /\ Command(g).action = "abort" => active.phase = "preparing" /\ ~Journalled(g) /\ Staged(g) = {}
                                             /\ coord.at \in {"idle", "discard", "abort"}
<1>1. /\ LegacyTypeOK /\ QueueFits /\ ActiveFits /\ PlaceFits /\ MarksFit /\ ThroughFits
  BY DEF PairInv
<1>2. /\ Command(g) \in Commands /\ CommandFits(g, Command(g)) /\ 1 \in DOMAIN queue[g]
      /\ UNCHANGED <<active, result, completed>> /\ coord'.at = coord.at /\ coord'.ix = coord.ix
      /\ \A h \in Games : h # g => queue'[h] = queue[h]
      /\ \A i \in DOMAIN queue'[g] : i + 1 \in DOMAIN queue[g] /\ queue'[g][i] = queue[g][i + 1]
  BY <1>1, AnswersMoves
<1>3. SameExchange
  BY <1>2 DEF SameExchange
<1>4. \A h \in Games : \A i \in DOMAIN queue'[h] : \E j \in DOMAIN queue[h] : queue'[h][i].action = queue[h][j].action
  BY <1>2
<1>5. Command(g).id = active.id /\ active.id # NoTxn /\ active.phase \in {"preparing", "committed"}
      /\ Command(g) = queue[g][1]
  BY <1>1, <1>2, BoundsAssumption DEF CommandFits, Commands, Txn, NoTxn, ActiveFits,
     LegacyTypeOK, Command
<1>6. active.phase = "preparing" => ~Journalled(g)
  BY <1>1 DEF MarksFit, Journalled
<1>7. /\ Command(g).action = "load" => Journalled(g)
      /\ Command(g).action = "abort" => active.phase = "preparing" /\ Staged(g) = {}
                                        /\ coord.at \in {"idle", "discard", "abort"}
  BY <1>2, <1>5 DEF SavesInv, RequestFits
<1>8. Command(g).action = "prepare" => active.phase = "preparing"
  BY <1>1, <1>2 DEF CommandFits, MayLinger, PlaceFits
<1>9. active.phase = "committed" => coord.at \notin {"target", "publish", "decide"}
  BY <1>1 DEF PlaceFits
<1> QED
  BY <1>2, <1>3, <1>4, <1>5, <1>6, <1>7, <1>8, <1>9

LEMMA PrepareWaitsSaves ==
    ASSUME PairInv, PairInv', SavesInv, NEW g \in Games, PrepareWaits(g)
    PROVE  SavesInv'
<1>1. UNCHANGED <<gameVars, count>> /\ up[g] /\ queue[g] # <<>> /\ Answers(g, "wait")
  BY DEF PrepareWaits, Takes
<1>2. /\ SameExchange /\ coord'.at = coord.at /\ coord'.ix = coord.ix
      /\ \A h \in Games : \A i \in DOMAIN queue'[h] :
            \E j \in DOMAIN queue[h] : queue'[h][i].action = queue[h][j].action
  BY <1>1, HandlerFrame
<1>3. \A h \in Games : SameGame(h)
  BY <1>1 DEF SameGame, gameVars
<1>4. GameFits(g)' /\ PlacedFits(g)' /\ Staged(g)' = Staged(g)
  BY <1>2, <1>3, SameGameKeeps, SamePlaced, SameGameFits DEF SavesInv, SameExchange
<1> QED
  BY <1>1, <1>2, <1>3, <1>4, GameStep DEF gameVars

LEMMA ReleasedBeforeSaves ==
    ASSUME PairInv, PairInv', SavesInv, NEW g \in Games, ReleasedBefore(g)
    PROVE  SavesInv'
<1>1. UNCHANGED <<gameVars, count>> /\ up[g] /\ queue[g] # <<>> /\ Answers(g, "ok")
  BY DEF ReleasedBefore, Takes
<1>2. /\ SameExchange /\ coord'.at = coord.at /\ coord'.ix = coord.ix
      /\ \A h \in Games : \A i \in DOMAIN queue'[h] :
            \E j \in DOMAIN queue[h] : queue'[h][i].action = queue[h][j].action
  BY <1>1, HandlerFrame
<1>3. \A h \in Games : SameGame(h)
  BY <1>1 DEF SameGame, gameVars
<1>4. GameFits(g)' /\ PlacedFits(g)' /\ Staged(g)' = Staged(g)
  BY <1>2, <1>3, SameGameKeeps, SamePlaced, SameGameFits DEF SavesInv, SameExchange
<1> QED
  BY <1>1, <1>2, <1>3, <1>4, GameStep DEF gameVars

LEMMA RefusesSaves ==
    ASSUME PairInv, PairInv', SavesInv, NEW g \in Games, Refuses(g)
    PROVE  SavesInv'
<1>1. UNCHANGED <<gameVars, count>> /\ up[g] /\ queue[g] # <<>> /\ Answers(g, "refused")
  BY DEF Refuses, Takes
<1>2. /\ SameExchange /\ coord'.at = coord.at /\ coord'.ix = coord.ix
      /\ \A h \in Games : \A i \in DOMAIN queue'[h] :
            \E j \in DOMAIN queue[h] : queue'[h][i].action = queue[h][j].action
  BY <1>1, HandlerFrame
<1>3. \A h \in Games : SameGame(h)
  BY <1>1 DEF SameGame, gameVars
<1>4. GameFits(g)' /\ PlacedFits(g)' /\ Staged(g)' = Staged(g)
  BY <1>2, <1>3, SameGameKeeps, SamePlaced, SameGameFits DEF SavesInv, SameExchange
<1> QED
  BY <1>1, <1>2, <1>3, <1>4, GameStep DEF gameVars

\* A game that ends a hold, or loads under it, keeps its files.
LEMMA HoldMoves ==
    ASSUME PairInv, SavesInv, NEW g \in Games, SameExchange, coord'.at = coord.at, coord'.ix = coord.ix,
           saves'[g] = saves[g], barrier'[g] = barrier[g], marks'[g] = marks[g], receipts'[g] = receipts[g],
           Staged(g) = {}, coord.at \notin {"target", "publish", "decide"}, active.phase = "committed" => Journalled(g),
           hold'[g] = NoHold \/ (hold'[g].phase = "loaded" /\ hold'[g] # NoHold /\ Journalled(g)),
           inv'[g] = receipts[g]
    PROVE  GameFits(g)' /\ PlacedFits(g)' /\ Staged(g)' = {}
<1>1. /\ Files(g)' = Files(g) /\ Staged(g)' = {} /\ (Journalled(g)' <=> Journalled(g)) /\ GameFits(g)
      /\ \A s : Admissible(g, s)' <=> Admissible(g, s)
  BY DEF SameExchange, Files, Staged, Journalled, Admissible, SavesInv
<1>2. TagsFit(g)' /\ SavesAreExact(g)' /\ SomeSave(g)' /\ OutputFits(g)' /\ NothingYet(g)'
  BY <1>1 DEF GameFits, TagsFit, SavesAreExact, SomeSave, OutputFits, NothingYet, SameExchange
<1>3. SourceFits(g)' /\ PlayIsExact(g)'
  BY <1>1 DEF SourceFits, PlayIsExact, NoHold
<1>4. PlacedFits(g)'
  BY <1>1, PlacedLoose DEF SavesInv, NoHold
<1> QED
  BY <1>1, <1>2, <1>3, <1>4 DEF GameFits

LEMMA LoadsOutputSaves ==
    ASSUME PairInv, PairInv', SavesInv, NEW g \in Games, LoadsOutput(g)
    PROVE  SavesInv'
<1>1. /\ UNCHANGED <<up, saves, barrier, marks, receipts, count>> /\ up[g] /\ queue[g] # <<>> /\ Answers(g, "ok")
      /\ hold \in [Games -> Holds] /\ inv \in [Games -> SUBSET Txn] /\ GameFits(g) /\ PlacedFits(g)
  BY DEF LoadsOutput, Takes, PairInv, LegacyTypeOK, SavesInv
<1>2. /\ SameExchange /\ coord'.at = coord.at /\ coord'.ix = coord.ix /\ Command(g).id = active.id
      /\ \A h \in Games : \A i \in DOMAIN queue'[h] :
            \E j \in DOMAIN queue[h] : queue'[h][i].action = queue[h][j].action
  BY <1>1, HandlerFrame
<1>3. Journalled(g) /\ Staged(g) = {} /\ coord.at \notin {"target", "publish", "decide"} /\ hold[g] # NoHold
  BY <1>1, HandlerFrame DEF LoadsOutput, Takes, Staged
<1>4. hold'[g].phase = "loaded" /\ hold'[g] # NoHold
  BY <1>1 DEF LoadsOutput, NoHold, Holds
<1>5. inv'[g] = receipts[g]
  <2>1. CASE hold[g].phase = "loaded" /\ UNCHANGED <<inv, hold>>
    BY <1>1, <2>1 DEF GameFits, PlayIsExact
  <2>2. CASE \E i \in Outputs(g) : inv' = [inv EXCEPT ![g] = saves[g][i].inv]
    BY <1>1, <1>3, <2>2 DEF Outputs, GameFits, SavesAreExact, Files
  <2> QED
    BY <2>1, <2>2 DEF LoadsOutput
<1>6. GameFits(g)' /\ PlacedFits(g)' /\ Staged(g)' = {}
  BY <1>1, <1>2, <1>3, <1>4, <1>5, HoldMoves
<1>7. \A h \in Games : h # g => SameGame(h)
  BY <1>1 DEF SameGame, LoadsOutput
<1> QED
  BY <1>1, <1>2, <1>6, <1>7, GameStep

LEMMA ReleasesSaves ==
    ASSUME PairInv, PairInv', SavesInv, NEW g \in Games, Releases(g)
    PROVE  SavesInv'
<1>1. /\ UNCHANGED <<up, inv, saves, barrier, marks, receipts, count>> /\ up[g] /\ queue[g] # <<>> /\ Answers(g, "ok")
      /\ hold \in [Games -> Holds] /\ inv \in [Games -> SUBSET Txn] /\ GameFits(g) /\ PlacedFits(g)
  BY DEF Releases, Takes, PairInv, LegacyTypeOK, SavesInv
<1>2. /\ SameExchange /\ coord'.at = coord.at /\ coord'.ix = coord.ix /\ Command(g).id = active.id
      /\ \A h \in Games : \A i \in DOMAIN queue'[h] :
            \E j \in DOMAIN queue[h] : queue'[h][i].action = queue[h][j].action
  BY <1>1, HandlerFrame
<1>3. hold[g].phase = "loaded" /\ hold'[g] = NoHold /\ inv'[g] = receipts[g]
  BY <1>1 DEF Releases, GameFits, PlayIsExact
<1>4. Staged(g) = {} /\ coord.at \notin {"target", "publish", "decide"} /\ (active.phase = "committed" => Journalled(g))
  BY <1>1, <1>3, NothingStaged
<1>6. GameFits(g)' /\ PlacedFits(g)' /\ Staged(g)' = {}
  BY <1>1, <1>2, <1>3, <1>4, HoldMoves
<1>7. \A h \in Games : h # g => SameGame(h)
  BY <1>1 DEF SameGame, Releases
<1> QED
  BY <1>1, <1>2, <1>6, <1>7, GameStep

LEMMA AbortsSaves ==
    ASSUME PairInv, PairInv', SavesInv, NEW g \in Games, Aborts(g)
    PROVE  SavesInv'
<1>1. /\ UNCHANGED <<up, saves, barrier, marks, receipts, count>> /\ up[g] /\ queue[g] # <<>> /\ Answers(g, "ok")
      /\ hold \in [Games -> Holds] /\ inv \in [Games -> SUBSET Txn] /\ GameFits(g) /\ PlacedFits(g)
  BY DEF Aborts, Takes, PairInv, LegacyTypeOK, SavesInv
<1>2. /\ SameExchange /\ coord'.at = coord.at /\ coord'.ix = coord.ix /\ Command(g).id = active.id
      /\ \A h \in Games : \A i \in DOMAIN queue'[h] :
            \E j \in DOMAIN queue[h] : queue'[h][i].action = queue[h][j].action
  BY <1>1, HandlerFrame
<1>3. /\ active.phase = "preparing" /\ ~Journalled(g) /\ Staged(g) = {}
      /\ coord.at \in {"idle", "discard", "abort"} /\ hold'[g] = NoHold
  BY <1>1, HandlerFrame DEF Aborts, Takes
<1>4. inv'[g] = receipts[g]
  <2>1. CASE hold[g].phase = "prepared"
    <3>1. hold[g].source \in Files(g) /\ hold[g].source.inv = receipts[g] /\ hold[g].source # NoSave
      BY <1>1, <1>3, <2>1 DEF GameFits, SourceFits
    <3>2. saves[g] # <<>>
      BY <3>1 DEF Files
    <3> QED
      BY <1>1, <3>1, <3>2 DEF Aborts, SourceOf
  <2>2. CASE hold[g].phase # "prepared"
    <3>1. hold[g].phase = "preparing" /\ hold[g].source = NoSave /\ inv[g] = receipts[g]
      BY <1>1, <1>3, <2>2 DEF Aborts, GameFits, SourceFits, PlayIsExact, Holds
    <3>2. CASE saves[g] = <<>>
      BY <3>1, <3>2 DEF Aborts
    <3>3. CASE saves[g] # <<>>
      <4>1. Last(saves[g]) \in Files(g)
        BY <3>3, FrontFits DEF Files, PairInv, LegacyTypeOK
      <4>2. Admissible(g, Last(saves[g]))
        BY <3>1, <3>3 DEF Aborts, CanAbort, SourceOf
      <4>3. inv' = [inv EXCEPT ![g] = Last(saves[g]).inv]
        BY <3>1, <3>3 DEF Aborts, SourceOf
      <4> QED
        BY <1>1, <1>3, <4>1, <4>2, <4>3 DEF GameFits, SavesAreExact
    <3> QED
      BY <3>2, <3>3
  <2> QED
    BY <2>1, <2>2
<1>6. GameFits(g)' /\ PlacedFits(g)' /\ Staged(g)' = {}
  BY <1>1, <1>2, <1>3, <1>4, HoldMoves
<1>7. \A h \in Games : h # g => SameGame(h)
  BY <1>1 DEF SameGame, Aborts
<1> QED
  BY <1>1, <1>2, <1>6, <1>7, GameStep

LEMMA PreparesSaves ==
    ASSUME PairInv, PairInv', SavesInv, NEW g \in Games, Prepares(g)
    PROVE  SavesInv'
<1>1. /\ UNCHANGED <<up, inv, barrier, marks, receipts, count>> /\ up[g] /\ queue[g] # <<>> /\ Answers(g, "ok")
      /\ hold \in [Games -> Holds] /\ inv \in [Games -> SUBSET Txn] /\ GameFits(g) /\ PlacedFits(g)
  BY DEF Prepares, Takes, PairInv, LegacyTypeOK, SavesInv
<1>2. /\ SameExchange /\ coord'.at = coord.at /\ coord'.ix = coord.ix /\ Command(g).id = active.id
      /\ \A h \in Games : \A i \in DOMAIN queue'[h] :
            \E j \in DOMAIN queue[h] : queue'[h][i].action = queue[h][j].action
  BY <1>1, HandlerFrame
<1>3. active.phase = "preparing" /\ ~Journalled(g)
  BY <1>1, HandlerFrame DEF Prepares, Takes
<1>4. CASE hold[g].source # NoSave
  <2>1. saves' = saves /\ hold' = hold
    BY <1>4 DEF Prepares
  <2>2. \A h \in Games : SameGame(h)
    BY <1>1, <2>1 DEF SameGame
  <2>3. GameFits(g)' /\ PlacedFits(g)' /\ Staged(g)' = Staged(g)
    BY <1>1, <1>2, <2>2, SameGameKeeps, SamePlaced, SameGameFits DEF SameExchange
  <2> QED
    BY <1>1, <1>2, <2>2, <2>3, GameStep
<1>5. CASE hold[g].source = NoSave
  <2>1. /\ saves' = [saves EXCEPT ![g] = Saved(g)] /\ hold[g].phase # "prepared"
        /\ hold'[g] = [id |-> Command(g).id, phase |-> "prepared", source |-> Last(Saved(g))]
        /\ \A h \in Games : h # g => hold'[h] = hold[h]
    BY <1>1, <1>5 DEF Prepares, GameFits, SourceFits
  <2>2. /\ Files(g)' \subseteq Files(g) \cup {NewSave(g, TRUE)} /\ NewSave(g, TRUE) \in Files(g)'
        /\ saves'[g] # <<>> /\ Last(saves'[g]) = NewSave(g, TRUE) /\ Last(saves'[g]) = Last(Saved(g))
    BY <2>1, SavedFiles DEF PairInv, LegacyTypeOK
  <2>3. Staged(g)' = {} /\ TagsFit(g)' /\ SavesAreExact(g)' /\ SomeSave(g)'
    BY <1>1, <1>2, <2>1, <2>2, OwnSaveFits
  <2>4. /\ NewSave(g, TRUE).name = NoTxn /\ NewSave(g, TRUE).whole /\ NewSave(g, TRUE) # NoSave
        /\ NewSave(g, TRUE).tag = barrier[g] /\ NewSave(g, TRUE).inv = receipts[g]
    BY <1>1, <2>1 DEF NewSave, NoSave, GameFits, PlayIsExact
  <2>5. SourceFits(g)'
    <3>1. hold'[g].phase = "prepared" /\ hold'[g].source = NewSave(g, TRUE) /\ hold'[g] # NoHold
      <4>1. hold'[g].phase = "prepared" /\ hold'[g].source = Last(Saved(g))
        BY <2>1
      <4>2. Last(Saved(g)) = NewSave(g, TRUE) /\ NoHold.phase = "none"
        BY <2>2 DEF NoHold
      <4> QED
        BY <4>1, <4>2
    <3>2. Admissible(g, hold[g].source)'
      BY <1>1, <2>4, <3>1 DEF Admissible
    <3>3. hold'[g].source.inv = receipts'[g] /\ hold'[g].source.name = NoTxn
      BY <1>1, <2>4, <3>1
    <3> QED
      BY <2>2, <2>4, <3>1, <3>2, <3>3 DEF SourceFits
  <2>6. GameFits(g)'
    BY <2>1, <2>2, <2>3, <2>5 DEF GameFits, OutputFits, NothingYet, PlayIsExact
  <2>7. PlacedFits(g)'
    BY <1>1, <1>2, <2>1, <2>2, <2>3, NothingStaged, PlacedLoose
  <2>8. \A h \in Games : h # g => SameGame(h)
    BY <1>1, <2>1 DEF SameGame, PairInv, LegacyTypeOK
  <2> QED
    BY <1>1, <1>2, <2>3, <2>6, <2>7, <2>8, GameStep
<1> QED
  BY <1>4, <1>5

\* A game whose save is cut off, or that dies, is not held on a save of its own.
LEMMA EndedKeeps ==
    ASSUME PairInv, SavesInv, NEW g \in Games, up[g], hold[g] = NoHold, SameExchange,
           coord'.at = coord.at, coord'.ix = coord.ix,
           inv' = inv, barrier' = barrier, marks' = marks, receipts' = receipts,
           up'[g] => up[g], hold'[g] = NoHold \/ (hold'[g].phase = "preparing" /\ hold'[g].source = NoSave),
           saves' \in {saves, [saves EXCEPT ![g] = Append(@, NewSave(g, FALSE))], [saves EXCEPT ![g] = Saved(g)]}
    PROVE  GameFits(g)' /\ PlacedFits(g)' /\ Staged(g)' = {}
<1>1. GameFits(g) /\ PlacedFits(g) /\ hold[g].phase = "none" /\ hold'[g].phase \in {"none", "preparing"}
  BY DEF SavesInv, NoHold
<1>2. /\ Staged(g)' = {} /\ TagsFit(g)' /\ SavesAreExact(g)' /\ SomeSave(g)' /\ (saves'[g] = <<>> => saves[g] = <<>>)
  <2>1. CASE saves' = saves
    <3>1. Files(g)' = Files(g)
      BY <2>1 DEF Files
    <3> QED
      BY <1>1, <2>1, <3>1, OwnSaveFits
  <2>2. CASE saves' = [saves EXCEPT ![g] = Append(saves[g], NewSave(g, FALSE))]
    BY <1>1, <2>2, CutOffFiles, OwnSaveFits
  <2>3. CASE saves' = [saves EXCEPT ![g] = Saved(g)]
    BY <1>1, <2>3, SavedFiles, OwnSaveFits
  <2> QED
    BY <2>1, <2>2, <2>3
<1>3. SourceFits(g)' /\ OutputFits(g)' /\ NothingYet(g)' /\ PlayIsExact(g)'
  BY <1>1, <1>2 DEF SourceFits, OutputFits, NothingYet, PlayIsExact, GameFits, NoHold
<1>4. PlacedFits(g)'
  BY <1>1, <1>2, NothingStaged, PlacedLoose
<1> QED
  BY <1>2, <1>3, <1>4 DEF GameFits

LEMMA DownFrame ==
    ASSUME PairInv, NEW g \in Games, Down(g), count'.txn = count.txn
    PROVE  /\ SameExchange /\ coord'.at = coord.at /\ coord'.ix = coord.ix /\ ~up'[g]
           /\ \A h \in Games : h # g => up'[h] = up[h]
           /\ \A h \in Games : \A i \in DOMAIN queue'[h] :
                 \E j \in DOMAIN queue[h] : queue'[h][i].action = queue[h][j].action
<1>1. LegacyTypeOK /\ QueueFits
  BY DEF PairInv
<1>2. /\ up'[g] = FALSE /\ (\A h \in Games : h # g => up'[h] = up[h]) /\ UNCHANGED <<active, result>>
  BY <1>1 DEF Down, LegacyTypeOK
<1>3. queue'[g] = <<>> /\ (\A h \in Games : h # g => queue'[h] = queue[h]) /\ coord'.at = coord.at /\ coord'.ix = coord.ix
  BY <1>1, DownFits
<1> QED
  BY <1>2, <1>3 DEF SameExchange

LEMMA PrepareCutOffSaves ==
    ASSUME PairInv, PairInv', SavesInv, NEW g \in Games, PrepareCutOff(g)
    PROVE  SavesInv'
<1>1. /\ UNCHANGED <<inv, barrier, marks, receipts>> /\ up[g] /\ queue[g] # <<>> /\ hold[g] = NoHold
      /\ count'.txn = count.txn /\ (\A h \in Games : h # g => hold'[h] = hold[h])
      /\ hold'[g].phase = "preparing" /\ hold'[g].source = NoSave
      /\ saves' \in {saves, [saves EXCEPT ![g] = Append(@, NewSave(g, FALSE))], [saves EXCEPT ![g] = Saved(g)]}
      /\ (Answers(g, "refused") /\ UNCHANGED <<saves, up>>) \/ Down(g)
  BY DEF PrepareCutOff, Takes, Fault, PairInv, LegacyTypeOK
<1>2. /\ SameExchange /\ coord'.at = coord.at /\ coord'.ix = coord.ix /\ (up'[g] => up[g])
      /\ \A h \in Games : h # g => up'[h] = up[h]
      /\ \A h \in Games : \A i \in DOMAIN queue'[h] :
            \E j \in DOMAIN queue[h] : queue'[h][i].action = queue[h][j].action
  <2>1. CASE Answers(g, "refused") /\ UNCHANGED <<saves, up>>
    BY <1>1, <2>1, HandlerFrame
  <2>2. CASE Down(g)
    BY <1>1, <2>2, DownFrame
  <2> QED
    BY <1>1, <2>1, <2>2
<1>3. GameFits(g)' /\ PlacedFits(g)' /\ Staged(g)' = {}
  BY <1>1, <1>2, EndedKeeps
<1>4. \A h \in Games : h # g => SameGame(h)
  BY <1>1, <1>2 DEF SameGame, PairInv, LegacyTypeOK
<1> QED
  BY <1>1, <1>2, <1>3, <1>4, GameStep

LEMMA DiesSaves ==
    ASSUME PairInv, PairInv', SavesInv, NEW g \in Games, Dies(g)
    PROVE  SavesInv'
<1>1. /\ UNCHANGED <<inv, hold, barrier, marks, receipts>> /\ up[g] /\ Down(g) /\ count'.txn = count.txn
      /\ saves' = saves \/ (hold[g] = NoHold /\ saves' = [saves EXCEPT ![g] = Append(@, NewSave(g, FALSE))])
  BY DEF Dies, Fault, Playing, PairInv, LegacyTypeOK
<1>2. /\ SameExchange /\ coord'.at = coord.at /\ coord'.ix = coord.ix /\ ~up'[g]
      /\ \A h \in Games : h # g => up'[h] = up[h]
      /\ \A h \in Games : \A i \in DOMAIN queue'[h] :
            \E j \in DOMAIN queue[h] : queue'[h][i].action = queue[h][j].action
  BY <1>1, DownFrame
<1>3. GameFits(g)' /\ PlacedFits(g)' /\ (Staged(g) = {} => Staged(g)' = {})
  <2>1. CASE saves' = saves
    <3>1. /\ Files(g)' = Files(g) /\ Staged(g)' = Staged(g) /\ (Journalled(g)' <=> Journalled(g))
          /\ \A s : Admissible(g, s)' <=> Admissible(g, s)
      BY <1>1, <1>2, <2>1 DEF Files, Staged, Journalled, Admissible, SameExchange
    <3>2. GameFits(g) /\ PlacedFits(g)
      BY DEF SavesInv
    <3>3. Admissible(g, hold[g].source)' <=> Admissible(g, hold[g].source)
      BY <1>1 DEF Admissible
    <3>4. TagsFit(g)' /\ SavesAreExact(g)' /\ SomeSave(g)' /\ OutputFits(g)' /\ NothingYet(g)'
      BY <1>1, <1>2, <2>1, <3>1, <3>2 DEF GameFits, TagsFit, SavesAreExact, SomeSave,
         OutputFits, NothingYet, SameExchange
    <3>5. SourceFits(g)' /\ PlayIsExact(g)'
      BY <1>1, <1>2, <3>1, <3>2, <3>3 DEF GameFits, SourceFits, PlayIsExact
    <3>6. PlacedFits(g)'
      BY <1>1, <1>2, <2>1, <3>1, <3>2 DEF PlacedFits, SameExchange
    <3> QED
      BY <3>1, <3>4, <3>5, <3>6 DEF GameFits
  <2>2. CASE hold[g] = NoHold /\ saves' = [saves EXCEPT ![g] = Append(@, NewSave(g, FALSE))]
    BY <1>1, <1>2, <2>2, EndedKeeps
  <2> QED
    BY <1>1, <2>1, <2>2
<1>4. \A h \in Games : h # g => SameGame(h)
  BY <1>1, <1>2 DEF SameGame, PairInv, LegacyTypeOK
<1> QED
  BY <1>1, <1>2, <1>3, <1>4, GameStep

LEMMA InitSaves == LegacyInit => SavesInv
<1> SUFFICES ASSUME LegacyInit, NEW g \in Games PROVE PlacedFits(g) /\ GameFits(g) /\ RequestFits(g)
  BY DEF SavesInv
<1> DEFINE first == [name |-> NoTxn, whole |-> TRUE, tag |-> NoTxn, inv |-> {}]
<1>1. /\ coord.at = "idle" /\ active = NoActive /\ queue[g] = <<>> /\ hold[g] = NoHold
      /\ saves[g] = <<first>> /\ barrier[g] = NoTxn /\ marks[g] = {} /\ receipts[g] = {} /\ inv[g] = {}
      /\ count.txn = 0
  BY DEF LegacyInit
<1>2. /\ first.name = NoTxn /\ first.whole /\ first.tag = NoTxn /\ first.inv = {}
      /\ NoHold.phase = "none" /\ active.id = NoTxn /\ active.phase = "none"
  <2>1. first.name = NoTxn /\ first.whole /\ first.tag = NoTxn /\ first.inv = {}
    OBVIOUS
  <2>2. NoHold.phase = "none" /\ NoActive.id = NoTxn /\ NoActive.phase = "none"
    BY DEF NoHold, NoActive
  <2>3. active.id = NoTxn /\ active.phase = "none"
    BY <1>1, <2>2
  <2> QED
    BY <2>1, <2>2, <2>3
<1> HIDE DEF first
<1>3. Files(g) = {first} /\ Staged(g) = {} /\ saves[g] # <<>>
  <2>1. DOMAIN <<first>> = {1} /\ <<first>>[1] = first /\ <<first>> # <<>>
    OBVIOUS
  <2> QED
    BY <1>1, <1>2, <2>1 DEF Files, Staged
<1>4. PlacedFits(g) /\ RequestFits(g)
  BY <1>1, <1>2, <1>3 DEF PlacedFits, RequestFits
<1>5. OutputFits(g) /\ SourceFits(g) /\ PlayIsExact(g) /\ NothingYet(g) /\ SomeSave(g)
  BY <1>1, <1>2, <1>3 DEF OutputFits, SourceFits, PlayIsExact, NothingYet, SomeSave
<1>6. TagsFit(g) /\ SavesAreExact(g)
  BY <1>1, <1>2, <1>3 DEF TagsFit, SavesAreExact, NoTxn
<1> QED
  BY <1>4, <1>5, <1>6 DEF GameFits

LEMMA StepSaves == PairInv /\ SavesInv /\ [LegacyNext]_vars => SavesInv'
<1> SUFFICES ASSUME PairInv, SavesInv, [LegacyNext]_vars PROVE SavesInv'
  OBVIOUS
<1>0. PairInv'
  BY StepPairs
<1>1. ASSUME CoordinatorStep PROVE SavesInv'
  BY <1>0, <1>1, BeginsSaves, ResumesSaves, NamesSaves, AsksSaves, RequestFailsSaves,
     AnsweredSaves,
     AsksAgainSaves, GivesUpSaves, StagesSaves, TargetsSaves, PublishesSaves, DecidesSaves,
     JournalsSaves, DiscardsSaves, WritesStatusSaves, RemovesSaves DEF CoordinatorStep
<1>2. ASSUME NEW g \in Games, Handles(g) PROVE SavesInv'
  BY <1>0, <1>2, PreparesSaves, PrepareWaitsSaves, ReleasedBeforeSaves, LoadsOutputSaves,
     ReleasesSaves, AbortsSaves, RefusesSaves DEF Handles
<1>3. ASSUME NEW g \in Games, Autosave(g) \/ Rewind(g) \/ NewRun(g) \/ PrepareCutOff(g) \/ Dies(g) \/ Starts(g)
      PROVE  SavesInv'
  BY <1>0, <1>3, AutosaveSaves, RewindSaves, NewRunSaves, PrepareCutOffSaves, DiesSaves,
     StartsSaves
<1>4. ASSUME UNCHANGED vars PROVE SavesInv'
  <2>1. \A g \in Games : SameGame(g)
    BY <1>4 DEF SameGame, vars, gameVars
  <2>2. \A g \in Games : GameFits(g)' /\ PlacedFits(g)' /\ Staged(g)' = Staged(g) /\ (Journalled(g)' <=> Journalled(g))
    BY <1>4, <2>1, SameGameKeeps, SamePlaced, SameGameFits DEF SavesInv, SameExchange, vars,
       coordVars
  <2> QED
    BY <1>4, <2>2 DEF SavesInv, RequestFits, vars, coordVars
<1> QED
  BY <1>0, <1>1, <1>2, <1>3, <1>4, FailsSaves DEF LegacyNext

------------------------------------------------------------------------------
(* The pair implements the atomic exchange. *)

\* The refinement mapping of Pair, by name.
OutcomeMap == [t \in Txn |-> OutcomeOf(t)]
SideMap == [g \in Games |-> [t \in Txn |-> SideOf(g, t)]]
PairStep == Pair!AtomicNext \/ (OutcomeMap' = OutcomeMap /\ SideMap' = SideMap)

LEMMA ActiveIs ==
    ASSUME PairInv, active.phase # "none"
    PROVE  active.id \in Txn /\ active.id = count.txn /\ active.id # NoTxn
BY DEF PairInv, ActiveFits, LegacyTypeOK, Txn, NoTxn

\* An output of the transaction under way is a staged one, until the journal has it.
LEMMA OutputIsStaged ==
    ASSUME NEW g \in Games, active.id # NoTxn, ~Journalled(g)
    PROVE  HasOutput(g) <=> \E s \in Staged(g) : s.whole
<1>1. HasOutput(g) <=> \E s \in Files(g) : s.name = active.id /\ s.whole
  BY DEF HasOutput, Files
<1> QED
  BY <1>1 DEF Staged

\* Other transactions stay as they are while this one moves.
LEMMA OthersStay ==
    ASSUME active'.id = active.id, count'.txn = count.txn,
           NEW t \in Txn, t # active.id, \A g \in Games : t \in marks'[g] <=> t \in marks[g]
    PROVE  OutcomeOf(t)' = OutcomeOf(t) /\ \A g \in Games : SideOf(g, t)' = SideOf(g, t)
BY DEF OutcomeOf, SideOf, Games

LEMMA NothingMoves ==
    ASSUME active'.id = active.id, active'.phase = active.phase, count'.txn = count.txn, marks' = marks,
           Undecided' <=> Undecided,
           \A g \in Games : active.id = NoTxn \/ Journalled(g) \/ (HasOutput(g)' <=> HasOutput(g))
    PROVE  PairStep
<1>1. \A t \in Txn : t # NoTxn
  BY DEF Txn, NoTxn
<1>2. \A t \in Txn : OutcomeOf(t)' = OutcomeOf(t)
  BY DEF OutcomeOf
<1>3. \A g \in Games, t \in Txn : SideOf(g, t)' = SideOf(g, t)
  BY <1>1, <1>2 DEF SideOf, Journalled
<1> QED
  BY <1>2, <1>3 DEF PairStep, OutcomeMap, SideMap

\* The coordinator leaves the way to a decision: the exchange is off for good.
LEMMA AbortMaps ==
    ASSUME PairInv, Undecided, ~Undecided', active'.id = active.id, active'.phase = active.phase,
           count'.txn = count.txn, marks' = marks, saves' = saves
    PROVE  PairStep
<1>0. PICK t \in Txn : t = active.id
  BY ActiveIs DEF Undecided
<1> DEFINE settled == {g \in Games : ~HasOutput(g)}
<1>1. t = count.txn /\ active.phase = "preparing" /\ \A g \in Games : t \notin marks[g]
  BY <1>0, ActiveIs DEF Undecided, PairInv, MarksFit
<1>2. ~(t > count.txn)
  BY <1>0, <1>1 DEF Txn
<1>3. \A g \in Games : HasOutput(g)' <=> HasOutput(g)
  BY DEF HasOutput
<1>4. OutcomeOf(t) = "open" /\ OutcomeOf(t)' = "ABORT"
  BY <1>0, <1>1, <1>2 DEF OutcomeOf, Undecided, Games
<1>5. \A g \in Games : /\ SideOf(g, t) = IF HasOutput(g) THEN "ready" ELSE "own"
                       /\ SideOf(g, t)' = IF HasOutput(g) THEN "ready" ELSE "kept"
  BY <1>0, <1>1, <1>3, <1>4 DEF SideOf
<1>6. \A u \in Txn : u # t => OutcomeOf(u)' = OutcomeOf(u) /\ \A g \in Games : SideOf(g, u)' = SideOf(g, u)
  BY <1>0, OthersStay
<1>7. OutcomeMap[t] = "open" /\ OutcomeMap' = [OutcomeMap EXCEPT ![t] = "ABORT"]
  BY <1>4, <1>6 DEF OutcomeMap
<1>8. settled \in SUBSET {g \in Games : SideMap[g][t] = "own"}
  BY <1>1, <1>5 DEF SideMap
<1>9. SideMap' = [g \in Games |-> IF g \in settled THEN [SideMap[g] EXCEPT ![t] = "kept"] ELSE SideMap[g]]
  <2>1. SideMap' = [g \in Games |-> [u \in Txn |-> SideOf(g, u)']]
    BY DEF SideMap
  <2>2. ASSUME NEW g \in settled
        PROVE  [u \in Txn |-> SideOf(g, u)'] = [SideMap[g] EXCEPT ![t] = "kept"]
    BY <1>1, <1>5, <1>6, <2>2 DEF SideMap
  <2>3. ASSUME NEW g \in Games \ settled
        PROVE  [u \in Txn |-> SideOf(g, u)'] = SideMap[g]
    BY <1>1, <1>5, <1>6, <2>3 DEF SideMap
  <2> QED
    BY <2>1, <2>2, <2>3
<1> HIDE DEF settled
<1>10. \E K \in SUBSET {g \in Games : SideMap[g][t] = "own"} :
          SideMap' = [g \in Games |-> IF g \in K THEN [SideMap[g] EXCEPT ![t] = "kept"] ELSE SideMap[g]]
  BY <1>8, <1>9
<1>11. \E K \in SUBSET {g \in [u \in Txn |-> Games][t] : SideMap[g][t] = "own"} :
          SideMap' = [g \in Games |-> IF g \in K THEN [SideMap[g] EXCEPT ![t] = "kept"] ELSE SideMap[g]]
  BY <1>1, <1>10
<1>12. Pair!DecideAbort(t)
  BY <1>7, <1>11 DEF Pair!DecideAbort, OutcomeMap, SideMap
<1> QED
  BY <1>1, <1>12 DEF PairStep, Pair!AtomicNext

\* One game moves: its output becomes ready, or it learns the outcome.
LEMMA SideMoves ==
    ASSUME PairInv, active.phase # "none", active'.id = active.id, active'.phase = active.phase,
           count'.txn = count.txn, NEW g \in Games,
           \A h \in Games : \A u \in Txn : u # active.id => (u \in marks'[h] <=> u \in marks[h]),
           OutcomeOf(active.id)' = OutcomeOf(active.id),
           \A h \in Games : h # g => SideOf(h, active.id)' = SideOf(h, active.id),
           \/ SideOf(g, active.id) = "own" /\ SideOf(g, active.id)' = "ready"
           \/ OutcomeOf(active.id) = "COMMIT" /\ SideOf(g, active.id) = "ready" /\ SideOf(g, active.id)' = "swapped"
           \/ OutcomeOf(active.id) = "ABORT" /\ SideOf(g, active.id) = "ready" /\ SideOf(g, active.id)' = "kept"
    PROVE  PairStep
<1> DEFINE t == active.id
<1>1. t \in Txn
  BY ActiveIs
<1> HIDE DEF t
<1>2. \A u \in Txn : u # t => OutcomeOf(u)' = OutcomeOf(u) /\ \A h \in Games : SideOf(h, u)' = SideOf(h, u)
  BY OthersStay DEF t
<1>3. OutcomeMap' = OutcomeMap /\ OutcomeMap[t] = OutcomeOf(t) /\ SideMap[g][t] = SideOf(g, t)
  BY <1>1, <1>2 DEF OutcomeMap, SideMap, t
<1>4. SideMap' = [SideMap EXCEPT ![g][t] = SideOf(g, t)']
  <2>1. \A h \in Games, u \in Txn : SideOf(h, u)' = IF h = g /\ u = t THEN SideOf(g, t)' ELSE SideOf(h, u)
    BY <1>1, <1>2 DEF t
  <2>2. SideMap' = [h \in Games |-> [u \in Txn |-> SideOf(h, u)']]
    BY DEF SideMap
  <2>3. SideMap = [h \in Games |-> [u \in Txn |-> SideOf(h, u)]]
    BY DEF SideMap
  <2> QED
    BY <1>1, <2>1, <2>2, <2>3
<1>5. g \in [u \in Txn |-> Games][t]
  BY <1>1
<1>6. CASE SideOf(g, t) = "own" /\ SideOf(g, t)' = "ready"
  <2>1. Pair!Ready(g, t)
    BY <1>3, <1>4, <1>6 DEF Pair!Ready, OutcomeMap, SideMap
  <2> QED
    BY <1>1, <1>5, <2>1 DEF PairStep, Pair!AtomicNext
<1>7. CASE \/ OutcomeOf(t) = "COMMIT" /\ SideOf(g, t) = "ready" /\ SideOf(g, t)' = "swapped"
           \/ OutcomeOf(t) = "ABORT" /\ SideOf(g, t) = "ready" /\ SideOf(g, t)' = "kept"
  <2>1. \/ OutcomeMap[t] = "COMMIT" /\ SideMap[g][t] = "ready" /\ SideMap' = [SideMap EXCEPT ![g][t] = "swapped"]
        \/ OutcomeMap[t] = "ABORT" /\ SideMap[g][t] \in {"own", "ready"} /\ SideMap' = [SideMap EXCEPT ![g][t] = "kept"]
    BY <1>3, <1>4, <1>7
  <2>2. Pair!Learn(g, t)
    BY <1>3, <2>1 DEF Pair!Learn, OutcomeMap, SideMap
  <2> QED
    BY <1>1, <1>5, <2>2 DEF PairStep, Pair!AtomicNext
<1> QED
  BY <1>6, <1>7 DEF t

\* Nothing is decided by a step that stays where it is, or goes on.
LEMMA GoingOnMaps ==
    ASSUME PairInv, Resumes \/ Names \/ Asks \/ Answered \/ AsksAgain \/ Targets \/ WritesStatus
    PROVE  PairStep
<1>0. active' = active \/ (active'.id = active.id /\ active'.phase = active.phase)
  BY DEF Resumes, Names, Asks, Answered, AsksAgain, Targets, WritesStatus, PairInv, LegacyTypeOK
<1>1. count' = count /\ saves' = saves /\ marks' = marks
  BY DEF Resumes, Names, Asks, Answered, AsksAgain, Targets, WritesStatus, gameVars
<1>2. coord'.at \in {"name", "prepare", "stage", "target", "publish", "decide"} \/ active.phase # "preparing"
      <=> coord.at \in {"name", "prepare", "stage", "target", "publish", "decide"} \/ active.phase # "preparing"
  <2>1. LegacyTypeOK /\ PlaceFits
    BY DEF PairInv
  <2>2. CASE Resumes
    BY <2>1, <2>2 DEF Resumes, Goes, Finish
  <2>3. CASE Names \/ AsksAgain \/ Targets \/ WritesStatus
    BY <2>1, <2>3 DEF Names, AsksAgain, Targets, WritesStatus, Goes, PlaceFits
  <2>4. CASE Asks
    BY <2>1, <2>4 DEF Asks, LegacyTypeOK
  <2>5. CASE Answered
    BY <2>1, <2>5 DEF Answered, Goes, NextCall, PlaceFits, Calls
  <2> QED
    BY <2>2, <2>3, <2>4, <2>5
<1>3. Undecided' <=> Undecided
  BY <1>0, <1>2 DEF Undecided
<1>4. \A g \in Games : HasOutput(g)' <=> HasOutput(g)
  BY <1>0, <1>1 DEF HasOutput
<1> QED
  BY <1>0, <1>1, <1>3, <1>4, NothingMoves

\* A cycle that ends before the decision gives its exchange up.
LEMMA EndingMaps ==
    ASSUME PairInv, RequestFails \/ GivesUp \/ Fails
    PROVE  PairStep
<1>1. /\ active' = active /\ count'.txn = count.txn /\ saves' = saves /\ marks' = marks
      /\ coord'.at = "idle"
  BY DEF RequestFails, GivesUp, Fails, Fault, Recovers, Goes, gameVars, PairInv, LegacyTypeOK
<1>2. ~Undecided' /\ \A g \in Games : HasOutput(g)' <=> HasOutput(g)
  BY <1>1 DEF Undecided, HasOutput
<1> QED
  BY <1>1, <1>2, AbortMaps, NothingMoves

LEMMA StagesMaps ==
    ASSUME PairInv, Stages
    PROVE  PairStep
<1>1. /\ active' = active /\ count' = count /\ saves' = saves /\ marks' = marks
      /\ active.phase = "preparing" /\ coord.at = "stage"
      /\ coord'.at = "target" \/ coord'.at = Finish(active)
  BY DEF Stages, Goes, gameVars, PairInv, PlaceFits
<1>2. Undecided /\ \A g \in Games : HasOutput(g)' <=> HasOutput(g)
  BY <1>1 DEF Undecided, HasOutput
<1>3. CASE coord'.at = "target"
  BY <1>1, <1>2, <1>3, NothingMoves DEF Undecided
<1>4. CASE coord'.at = Finish(active)
  <2>1. ~Undecided'
    BY <1>1, <1>4 DEF Finish, Undecided
  <2> QED
    BY <1>1, <1>2, <2>1, AbortMaps
<1> QED
  BY <1>1, <1>3, <1>4

\* A transaction begins where nothing was ever said of its number.
LEMMA BeginsMaps ==
    ASSUME PairInv, SavesInv, Begins
    PROVE  PairStep
<1>1. /\ marks' = marks /\ saves' = saves /\ active.id = NoTxn /\ count'.txn = count.txn + 1
      /\ active'.id = count.txn + 1 /\ active'.phase = "preparing" /\ coord'.at = "name"
      /\ count.txn \in Nat
  BY DEF Begins, Goes, NoActive, gameVars, PairInv, LegacyTypeOK
<1>2. \A g \in Games : \A u \in marks[g] : u <= count.txn
  BY DEF PairInv, MarksFit
<1>3. \A g \in Games : ~HasOutput(g)'
  <2> SUFFICES ASSUME NEW g \in Games, NEW i \in DOMAIN saves[g] PROVE saves[g][i].name # count.txn + 1
    BY <1>1 DEF HasOutput
  <2>1. saves[g][i] \in Files(g) /\ TagsFit(g) /\ saves[g] \in Seq(Saves)
    BY DEF Files, SavesInv, GameFits, PairInv, LegacyTypeOK
  <2>2. saves[g][i].name <= count.txn
    BY <2>1 DEF TagsFit
  <2>3. saves[g][i].name \in Nat
    <3>1. saves[g][i] \in Saves
      BY <2>1
    <3> QED
      BY <3>1, BoundsAssumption DEF Saves
  <2> QED
    BY <1>1, <2>2, <2>3
<1>4. \A t \in Txn : t # active.id /\ t \in Nat
  BY <1>1 DEF Txn, NoTxn
<1>5. Undecided'
  BY <1>1 DEF Undecided
<1>6. \A t \in Txn : OutcomeOf(t)' = OutcomeOf(t)
  <2> SUFFICES ASSUME NEW t \in Txn PROVE OutcomeOf(t)' = OutcomeOf(t)
    OBVIOUS
  <2>1. CASE t > count.txn
    BY <1>1, <1>4, <1>5, <2>1 DEF OutcomeOf
  <2>2. CASE ~(t > count.txn)
    <3>1. t # count.txn + 1 /\ ~(t > count.txn + 1)
      BY <1>1, <1>4, <2>2
    <3> QED
      BY <1>1, <1>4, <2>2, <3>1 DEF OutcomeOf
  <2> QED
    BY <2>1, <2>2
<1>7. \A g \in Games, t \in Txn : SideOf(g, t)' = SideOf(g, t)
  BY <1>1, <1>3, <1>4, <1>6 DEF SideOf
<1> QED
  BY <1>6, <1>7 DEF PairStep, OutcomeMap, SideMap

\* The last manifest of a game's output makes it ready, nothing before does.
LEMMA PublishesMaps ==
    ASSUME PairInv, PairInv', SavesInv, SavesInv', Publishes
    PROVE  PairStep
<1>0. PICK g \in Games : g = Peers[(coord.ix + 1) \div 2]
  <2>1. coord.ix \in 1 .. 4
    BY DEF PairInv, LegacyTypeOK
  <2> QED
    BY <2>1 DEF Peers, Games
<1>1. /\ active' = active /\ count' = count /\ marks' = marks
      /\ coord.at = "publish" /\ active.phase = "preparing" /\ coord.ix \in 1 .. 4
      /\ IF coord.ix = 4 THEN coord'.at = "decide" ELSE coord'.at = "publish" /\ coord'.ix = coord.ix + 1
  BY DEF Publishes, Goes, PairInv, PlaceFits, LegacyTypeOK
<1>2. PICK t \in Txn : t = active.id /\ t = count.txn /\ t # NoTxn
  BY <1>1, ActiveIs
<1>3. Undecided /\ Undecided' /\ \A h \in Games : t \notin marks[h]
  BY <1>1, <1>2 DEF Undecided, PairInv, MarksFit
<1>4. \A h \in Games : h # g => (HasOutput(h)' <=> HasOutput(h))
  <2>1. \A h \in Games : h # g => saves'[h] = saves[h]
    BY <1>0 DEF Publishes, PairInv, LegacyTypeOK
  <2> QED
    BY <1>1, <2>1 DEF HasOutput
<1>5. coord.ix = IF coord.ix % 2 = 1 THEN 2 * Ix(g) - 1 ELSE 2 * Ix(g)
  <2>1. coord.ix \in {1, 2, 3, 4}
    BY <1>1
  <2>2. /\ (1 + 1) \div 2 = 1 /\ (2 + 1) \div 2 = 1 /\ (3 + 1) \div 2 = 2 /\ (4 + 1) \div 2 = 2
        /\ 1 % 2 = 1 /\ 2 % 2 = 0 /\ 3 % 2 = 1 /\ 4 % 2 = 0
    OBVIOUS
  <2>3. (coord.ix \in {1, 2} => g = "red") /\ (coord.ix \in {3, 4} => g = "blue")
    BY <1>0, <2>1, <2>2 DEF Peers
  <2> QED
    BY <2>1, <2>2, <2>3 DEF Games, Ix
<1>6. CASE coord.ix % 2 = 1
  <2> DEFINE bare == [name |-> active.id, whole |-> FALSE, tag |-> active.id, inv |-> result.inv[g]]
  <2>1. bare \in Saves /\ saves[g] \in Seq(Saves) /\ saves \in [Games -> Seq(Saves)]
    BY DEF Saves, PairInv, LegacyTypeOK
  <2>2. saves'[g] = Append(saves[g], bare)
    BY <1>0, <1>6, <2>1 DEF Publishes
  <2>3. ~bare.whole
    OBVIOUS
  <2> HIDE DEF bare
  <2>4. /\ Append(saves[g], bare) \in Seq(Saves) /\ Len(saves[g]) \in Nat
        /\ Len(Append(saves[g], bare)) = Len(saves[g]) + 1 /\ Append(saves[g], bare)[Len(saves[g]) + 1] = bare
        /\ \A i \in 1 .. Len(saves[g]) : Append(saves[g], bare)[i] = saves[g][i]
    BY <2>1, AppendFits
  <2>5. DOMAIN saves'[g] = (1 .. Len(saves[g])) \cup {Len(saves[g]) + 1} /\ DOMAIN saves[g] = 1 .. Len(saves[g])
    BY <2>1, <2>2, <2>4
  <2>6. HasOutput(g)' <=> HasOutput(g)
    BY <1>1, <2>2, <2>3, <2>4, <2>5 DEF HasOutput
  <2> QED
    BY <1>1, <1>3, <1>4, <2>6, NothingMoves
<1>7. CASE coord.ix % 2 # 1
  <2>1. coord.ix = 2 * Ix(g)
    BY <1>5, <1>7
  <2>2. \E s \in Staged(g)' : s.whole
    <3>1. PlacedFits(g)' /\ ~Journalled(g)'
      BY <1>1, <1>2, <1>3 DEF SavesInv, Journalled
    <3>2. CASE coord.ix = 4
      BY <1>1, <3>1, <3>2 DEF PlacedFits
    <3>3. CASE coord.ix # 4
      <4>1. coord'.at = "publish" /\ coord'.ix > 2 * Ix(g)
        BY <1>1, <2>1, <3>3 DEF Ix
      <4> QED
        BY <3>1, <4>1 DEF PlacedFits
    <3> QED
      BY <3>2, <3>3
  <2>3. HasOutput(g)'
    BY <2>2 DEF HasOutput, Staged, Files
  <2>4. CASE HasOutput(g)
    BY <1>1, <1>3, <1>4, <2>3, <2>4, NothingMoves
  <2>5. CASE ~HasOutput(g)
    <3>1. OutcomeOf(t)' = OutcomeOf(t) /\ OutcomeOf(t) = "open"
      BY <1>1, <1>2, <1>3 DEF OutcomeOf
    <3>2. SideOf(g, t) = "own" /\ SideOf(g, t)' = "ready"
      BY <1>1, <1>2, <1>3, <2>3, <2>5, <3>1 DEF SideOf
    <3>3. \A h \in Games : h # g => SideOf(h, t)' = SideOf(h, t)
      BY <1>1, <1>2, <1>3, <1>4, <3>1 DEF SideOf
    <3> QED
      BY <1>1, <1>2, <3>1, <3>2, <3>3, SideMoves
  <2> QED
    BY <2>4, <2>5
<1> QED
  BY <1>6, <1>7

\* Both outputs are whole when the coordinator decides.
LEMMA DecidesMaps ==
    ASSUME PairInv, SavesInv, Decides
    PROVE  PairStep
<1>1. /\ count' = count /\ saves' = saves /\ marks' = marks /\ active'.id = active.id
      /\ active.phase = "preparing" /\ active'.phase = "committed" /\ coord.at = "decide"
  BY DEF Decides, gameVars, PairInv, PlaceFits, LegacyTypeOK
<1>2. PICK t \in Txn : t = active.id /\ t = count.txn /\ t # NoTxn
  BY <1>1, ActiveIs
<1>3. Undecided /\ ~Undecided' /\ \A g \in Games : t \notin marks[g]
  BY <1>1, <1>2 DEF Undecided, PairInv, MarksFit
<1>4. ASSUME NEW g \in Games
      PROVE  HasOutput(g) /\ HasOutput(g)'
  <2>1. \E s \in Staged(g) : s.whole
    BY <1>1, <1>2, <1>3 DEF SavesInv, PlacedFits, Journalled
  <2> QED
    BY <1>1, <1>2, <1>3, <2>1, OutputIsStaged DEF HasOutput, Journalled
<1>5. OutcomeOf(t) = "open" /\ OutcomeOf(t)' = "COMMIT"
  <2>1. ~(t > count.txn)
    BY <1>2 DEF Txn
  <2> QED
    BY <1>1, <1>2, <1>3, <2>1 DEF OutcomeOf
<1>6. \A g \in Games : SideOf(g, t) = "ready" /\ SideOf(g, t)' = "ready"
  BY <1>1, <1>2, <1>3, <1>4 DEF SideOf
<1>7. \A u \in Txn : u # t => OutcomeOf(u)' = OutcomeOf(u) /\ \A g \in Games : SideOf(g, u)' = SideOf(g, u)
  BY <1>1, <1>2, OthersStay
<1>8. OutcomeMap[t] = "open" /\ OutcomeMap' = [OutcomeMap EXCEPT ![t] = "COMMIT"]
  BY <1>5, <1>7 DEF OutcomeMap
<1>9. SideMap' = SideMap /\ \A g \in [u \in Txn |-> Games][t] : SideMap[g][t] = "ready"
  BY <1>6, <1>7 DEF SideMap
<1>10. Pair!DecideCommit(t)
  BY <1>8, <1>9 DEF Pair!DecideCommit, OutcomeMap, SideMap
<1> QED
  BY <1>10 DEF PairStep, Pair!AtomicNext

\* The journal of a game is written when its output is ready to be loaded.
LEMMA JournalsMaps ==
    ASSUME PairInv, SavesInv, Journals
    PROVE  PairStep
<1>0. PICK g \in Games : g = Peer
  BY PeerFits DEF Journals, PairInv, PlaceFits
<1>1. /\ active' = active /\ count' = count /\ saves' = saves
      /\ active.phase = "committed" /\ marks \in [Games -> SUBSET Txn]
  BY DEF Journals, PairInv, PlaceFits, LegacyTypeOK
<1>2. PICK t \in Txn : t = active.id /\ t = count.txn /\ t # NoTxn
  BY <1>1, ActiveIs
<1>3. ~Undecided /\ ~Undecided' /\ \A h \in Games : HasOutput(h)' <=> HasOutput(h)
  BY <1>1 DEF Undecided, HasOutput
<1>4. CASE t \in marks[g]
  <2>1. marks' = marks
    BY <1>0, <1>2, <1>4 DEF Journals
  <2> QED
    BY <1>1, <1>3, <2>1, NothingMoves
<1>5. CASE t \notin marks[g]
  <2>1. marks' = [marks EXCEPT ![g] = marks[g] \cup {t}]
    BY <1>0, <1>2, <1>5 DEF Journals
  <2>2. \A h \in Games : marks'[h] = IF h = g THEN marks[h] \cup {t} ELSE marks[h]
    BY <1>1, <2>1
  <2>3. HasOutput(g)
    <3>1. \E s \in Staged(g) : s.whole
      BY <1>1, <1>2, <1>5 DEF SavesInv, PlacedFits, Journalled
    <3> QED
      BY <1>2, <1>5, <3>1, OutputIsStaged DEF Journalled
  <2>4. OutcomeOf(t) = "COMMIT" /\ OutcomeOf(t)' = "COMMIT"
    <3>1. ~(t > count.txn)
      BY <1>2 DEF Txn
    <3> QED
      BY <1>1, <1>2, <1>3, <3>1 DEF OutcomeOf
  <2>5. SideOf(g, t) = "ready" /\ SideOf(g, t)' = "swapped"
    BY <1>2, <1>5, <2>2, <2>3 DEF SideOf
  <2>6. \A h \in Games : h # g => SideOf(h, t)' = SideOf(h, t)
    BY <1>1, <1>3, <2>2, <2>4 DEF SideOf
  <2> QED
    BY <1>1, <1>2, <2>2, <2>4, <2>5, <2>6, SideMoves
<1> QED
  BY <1>4, <1>5

\* A discarded output is one less that could be loaded.
LEMMA DiscardsMaps ==
    ASSUME PairInv, PairInv', SavesInv, SavesInv', Discards
    PROVE  PairStep
<1>0. PICK g \in Games : g = Peer
  BY PeerFits DEF Discards, PairInv, PlaceFits
<1>1. /\ active' = active /\ count' = count /\ marks' = marks /\ saves \in [Games -> Seq(Saves)]
      /\ active.phase = "preparing" /\ coord.at = "discard" /\ coord.ix \in {1, 2} /\ Ix(g) = coord.ix
      /\ coord'.at = (IF coord.ix = 2 THEN "abort" ELSE "discard") /\ (coord.ix = 1 => coord'.ix = 2)
      /\ saves' = [saves EXCEPT ![g] = Discarded(saves[g])]
  BY <1>0, PeerFits DEF Discards, Goes, PairInv, PlaceFits, LegacyTypeOK
<1>2. PICK t \in Txn : t = active.id /\ t = count.txn /\ t # NoTxn
  BY <1>1, ActiveIs
<1>3. ~Undecided /\ ~Undecided' /\ \A h \in Games : t \notin marks[h]
  BY <1>1, <1>2 DEF Undecided, PairInv, MarksFit
<1>4. \A h \in Games : h # g => (HasOutput(h)' <=> HasOutput(h))
  BY <1>1 DEF HasOutput
<1>5. ~HasOutput(g)'
  <2>1. PlacedFits(g)' /\ ~Journalled(g)'
    BY <1>1, <1>2, <1>3 DEF SavesInv, Journalled
  <2>2. Staged(g)' = {}
    BY <1>1, <2>1 DEF PlacedFits
  <2> QED
    BY <1>1, <1>2, <2>1, <2>2 DEF HasOutput, Staged, Files
<1>6. CASE ~HasOutput(g)
  BY <1>1, <1>3, <1>4, <1>5, <1>6, NothingMoves
<1>7. CASE HasOutput(g)
  <2>1. OutcomeOf(t) = "ABORT" /\ OutcomeOf(t)' = "ABORT"
    <3>1. ~(t > count.txn)
      BY <1>2 DEF Txn
    <3> QED
      BY <1>1, <1>2, <1>3, <3>1 DEF OutcomeOf, Games
  <2>2. SideOf(g, t) = "ready" /\ SideOf(g, t)' = "kept"
    BY <1>1, <1>2, <1>3, <1>5, <1>7, <2>1 DEF SideOf
  <2>3. \A h \in Games : h # g => SideOf(h, t)' = SideOf(h, t)
    BY <1>1, <1>2, <1>3, <1>4, <2>1 DEF SideOf
  <2> QED
    BY <1>1, <1>2, <2>1, <2>2, <2>3, SideMoves
<1> QED
  BY <1>6, <1>7

\* What is removed at the end is over for both games.
LEMMA RemovesMaps ==
    ASSUME PairInv, SavesInv, Removes
    PROVE  PairStep
<1>1. /\ count' = count /\ saves' = saves /\ marks' = marks /\ active'.id = NoTxn /\ active'.phase = "none"
      /\ coord.at = "remove" /\ active.phase \in {"preparing", "committed"}
  BY DEF Removes, NoActive, gameVars, PairInv, PlaceFits, LegacyTypeOK
<1>2. PICK t \in Txn : t = active.id /\ t = count.txn /\ t # NoTxn
  BY <1>1, ActiveIs
<1>3. ~Undecided /\ ~Undecided' /\ \A u \in Txn : u # NoTxn
  BY <1>1 DEF Undecided, Txn, NoTxn
<1>4. active.phase = "committed" => \A g \in Games : t \in marks[g]
  BY <1>1, <1>2 DEF PairInv, MarksFit
<1>5. active.phase = "preparing" => \A g \in Games : t \notin marks[g] /\ ~HasOutput(g)
  <2> SUFFICES ASSUME active.phase = "preparing", NEW g \in Games PROVE t \notin marks[g] /\ ~HasOutput(g)
    OBVIOUS
  <2>1. t \notin marks[g]
    BY <1>2 DEF PairInv, MarksFit
  <2>2. hold[g] = NoHold
    BY <1>1 DEF PairInv, ThroughFits, Through
  <2>3. Staged(g) = {}
    BY <2>2, NothingStaged DEF SavesInv, NoHold
  <2> QED
    BY <1>2, <2>1, <2>3, OutputIsStaged DEF Journalled
<1>6. OutcomeOf(t)' = OutcomeOf(t) /\ \A g \in Games : SideOf(g, t)' = SideOf(g, t)
  <2>1. ~(t > count.txn)
    BY <1>2 DEF Txn
  <2>2. CASE active.phase = "committed"
    BY <1>1, <1>2, <1>3, <1>4, <2>1, <2>2 DEF OutcomeOf, SideOf, Games
  <2>3. CASE active.phase = "preparing"
    <3>1. OutcomeOf(t) = "ABORT" /\ OutcomeOf(t)' = "ABORT"
      BY <1>1, <1>2, <1>3, <1>5, <2>1, <2>3 DEF OutcomeOf, Games
    <3> QED
      BY <1>1, <1>2, <1>3, <1>5, <2>3, <3>1 DEF SideOf
  <2> QED
    BY <1>1, <2>2, <2>3
<1>7. ASSUME NEW u \in Txn, u # t
      PROVE  OutcomeOf(u)' = OutcomeOf(u) /\ \A g \in Games : SideOf(g, u)' = SideOf(g, u)
  <2>1. OutcomeOf(u)' = OutcomeOf(u)
    BY <1>1, <1>2, <1>3, <1>7 DEF OutcomeOf
  <2> QED
    BY <1>1, <1>2, <1>3, <1>7, <2>1 DEF SideOf
<1> QED
  BY <1>6, <1>7 DEF PairStep, OutcomeMap, SideMap

\* What a game does on its own writes no output and takes none that counts.
LEMMA GameMaps ==
    ASSUME PairInv, active' = active, coord'.at = coord.at, count'.txn = count.txn, marks' = marks,
           NEW g \in Games, \A h \in Games : h # g => saves'[h] = saves[h],
           \/ saves'[g] = saves[g]
           \/ Journalled(g) \/ active.id = NoTxn
           \/ Staged(g) = {} /\ \A i \in DOMAIN saves'[g] : saves'[g][i].name = NoTxn \/ saves'[g][i] \in Files(g)
    PROVE  PairStep
<1>1. Undecided' <=> Undecided
  BY DEF Undecided
<1>2. ASSUME NEW h \in Games
      PROVE  active.id = NoTxn \/ Journalled(h) \/ (HasOutput(h)' <=> HasOutput(h))
  <2>1. CASE saves'[h] = saves[h]
    BY <2>1 DEF HasOutput
  <2>2. CASE /\ h = g /\ active.id # NoTxn /\ ~Journalled(g) /\ Staged(g) = {}
             /\ \A i \in DOMAIN saves'[g] : saves'[g][i].name = NoTxn \/ saves'[g][i] \in Files(g)
    <3>1. ~HasOutput(g)
      BY <2>2, OutputIsStaged
    <3>2. \A s \in Files(g) : s.name # active.id
      BY <2>2 DEF Staged
    <3>3. ~HasOutput(g)'
      BY <2>2, <3>2 DEF HasOutput
    <3> QED
      BY <2>2, <3>1, <3>3
  <2> QED
    BY <2>1, <2>2
<1> QED
  BY <1>1, <1>2, NothingMoves

LEMMA AutosaveMaps ==
    ASSUME PairInv, SavesInv, NEW g \in Games, Autosave(g)
    PROVE  PairStep
<1>1. /\ active' = active /\ coord' = coord /\ count' = count /\ marks' = marks
      /\ saves' = [saves EXCEPT ![g] = Saved(g)] /\ hold[g] = NoHold
  BY DEF Autosave, Playing, coordVars
<1>2. \A h \in Games : h # g => saves'[h] = saves[h]
  BY <1>1 DEF PairInv, LegacyTypeOK
<1>3. Staged(g) = {}
  BY <1>1, NothingStaged DEF SavesInv, NoHold
<1>4. \A i \in DOMAIN saves'[g] : saves'[g][i].name = NoTxn \/ saves'[g][i] \in Files(g)
  <2>1. Files(g)' \subseteq Files(g) \cup {NewSave(g, TRUE)}
    BY <1>1, SavedFiles
  <2> QED
    BY <2>1 DEF Files, NewSave
<1> QED
  BY <1>1, <1>2, <1>3, <1>4, GameMaps

LEMMA NewRunMaps ==
    ASSUME PairInv, SavesInv, NEW g \in Games, NewRun(g)
    PROVE  PairStep
<1>1. /\ active' = active /\ coord' = coord /\ count' = count /\ marks' = marks
      /\ saves' = [saves EXCEPT ![g] = <<>>] /\ hold[g] = NoHold
  BY DEF NewRun, Playing, coordVars
<1>2. saves'[g] = <<>> /\ \A h \in Games : h # g => saves'[h] = saves[h]
  BY <1>1 DEF PairInv, LegacyTypeOK
<1>3. Staged(g) = {}
  BY <1>1, NothingStaged DEF SavesInv, NoHold
<1> QED
  BY <1>1, <1>2, <1>3, GameMaps

\* A rewind, a start and an answer that writes no save leave the exchange alone.
LEMMA PlayMaps ==
    ASSUME PairInv, NEW g \in Games, Rewind(g) \/ Starts(g)
    PROVE  PairStep
<1>1. active' = active /\ coord' = coord /\ count' = count /\ marks' = marks /\ saves' = saves
  BY DEF Rewind, Starts, coordVars
<1> QED
  BY <1>1, GameMaps

LEMMA AnswerMaps ==
    ASSUME PairInv, SavesInv, NEW g \in Games,
           PrepareWaits(g) \/ ReleasedBefore(g) \/ LoadsOutput(g) \/ Releases(g) \/ Aborts(g) \/ Refuses(g)
    PROVE  PairStep
<1>1. /\ count' = count /\ marks' = marks /\ saves' = saves /\ queue[g] # <<>>
      /\ \E reply \in {"ok", "wait", "refused"} : Answers(g, reply)
  BY DEF PrepareWaits, ReleasedBefore, LoadsOutput, Releases, Aborts, Refuses, Takes, gameVars
<1>2. active' = active /\ coord'.at = coord.at
  BY <1>1, AnswersMoves DEF PairInv
<1> QED
  BY <1>1, <1>2, GameMaps

\* The game is not held yet when it saves for a preparation.
LEMMA PreparesMaps ==
    ASSUME PairInv, SavesInv, NEW g \in Games, Prepares(g)
    PROVE  PairStep
<1>1. count' = count /\ marks' = marks /\ queue[g] # <<>> /\ Answers(g, "ok")
  BY DEF Prepares, Takes
<1>2. active' = active /\ coord'.at = coord.at
  BY <1>1, AnswersMoves DEF PairInv
<1>3. CASE hold[g].source # NoSave
  BY <1>1, <1>2, <1>3, GameMaps DEF Prepares
<1>4. CASE hold[g].source = NoSave
  <2>1. saves' = [saves EXCEPT ![g] = Saved(g)]
    BY <1>4 DEF Prepares
  <2>2. \A h \in Games : h # g => saves'[h] = saves[h]
    BY <2>1 DEF PairInv, LegacyTypeOK
  <2>3. Staged(g) = {}
    <3>1. hold[g].phase # "prepared"
      BY <1>4 DEF SavesInv, GameFits, SourceFits, NoSave
    <3> QED
      BY <3>1, NothingStaged DEF SavesInv
  <2>4. Files(g)' \subseteq Files(g) \cup {NewSave(g, TRUE)}
    BY <2>1, SavedFiles
  <2>5. \A i \in DOMAIN saves'[g] : saves'[g][i].name = NoTxn \/ saves'[g][i] \in Files(g)
    BY <2>4 DEF Files, NewSave
  <2> QED
    BY <1>1, <1>2, <2>2, <2>3, <2>5, GameMaps
<1> QED
  BY <1>3, <1>4

\* A save that fails or is cut off is no output.
LEMMA CutOffMaps ==
    ASSUME PairInv, SavesInv, NEW g \in Games, hold[g] = NoHold,
           active' = active, coord'.at = coord.at, count'.txn = count.txn, marks' = marks,
           saves' \in {saves, [saves EXCEPT ![g] = Append(@, NewSave(g, FALSE))],
                       [saves EXCEPT ![g] = Saved(g)]}
    PROVE  PairStep
<1>1. Staged(g) = {}
  BY NothingStaged DEF SavesInv, NoHold
<1>2. \A h \in Games : h # g => saves'[h] = saves[h]
  BY DEF PairInv, LegacyTypeOK
<1>3. CASE saves' = saves
  BY <1>2, <1>3, GameMaps
<1>4. CASE saves' = [saves EXCEPT ![g] = Append(@, NewSave(g, FALSE))]
  <2>1. Files(g)' = Files(g) \cup {NewSave(g, FALSE)}
    BY <1>4, CutOffFiles
  <2>2. \A i \in DOMAIN saves'[g] : saves'[g][i].name = NoTxn \/ saves'[g][i] \in Files(g)
    BY <2>1 DEF Files, NewSave
  <2> QED
    BY <1>1, <1>2, <2>2, GameMaps
<1>5. CASE saves' = [saves EXCEPT ![g] = Saved(g)]
  <2>1. Files(g)' \subseteq Files(g) \cup {NewSave(g, TRUE)}
    BY <1>5, SavedFiles
  <2>2. \A i \in DOMAIN saves'[g] : saves'[g][i].name = NoTxn \/ saves'[g][i] \in Files(g)
    BY <2>1 DEF Files, NewSave
  <2> QED
    BY <1>1, <1>2, <2>2, GameMaps
<1> QED
  BY <1>3, <1>4, <1>5

LEMMA PrepareCutOffMaps ==
    ASSUME PairInv, SavesInv, NEW g \in Games, PrepareCutOff(g)
    PROVE  PairStep
<1>1. count'.txn = count.txn /\ marks' = marks /\ queue[g] # <<>> /\ hold[g] = NoHold
  BY DEF PrepareCutOff, Takes, Fault, PairInv, LegacyTypeOK
<1>2. saves' \in {saves, [saves EXCEPT ![g] = Append(@, NewSave(g, FALSE))], [saves EXCEPT ![g] = Saved(g)]}
  BY DEF PrepareCutOff
<1>3. active' = active /\ coord'.at = coord.at
  <2>1. CASE Answers(g, "refused")
    BY <1>1, <2>1, AnswersMoves DEF PairInv
  <2>2. CASE Down(g)
    BY <1>1, <2>2, DownFrame DEF SameExchange
  <2> QED
    BY <2>1, <2>2 DEF PrepareCutOff
<1> QED
  BY <1>1, <1>2, <1>3, CutOffMaps

LEMMA DiesMaps ==
    ASSUME PairInv, SavesInv, NEW g \in Games, Dies(g)
    PROVE  PairStep
<1>1. count'.txn = count.txn /\ marks' = marks /\ Down(g)
  BY DEF Dies, Fault, PairInv, LegacyTypeOK
<1>2. active' = active /\ coord'.at = coord.at
  BY <1>1, DownFrame DEF SameExchange
<1>3. CASE saves' = saves
  BY <1>1, <1>2, <1>3, GameMaps
<1>4. CASE Playing(g) /\ saves' = [saves EXCEPT ![g] = Append(@, NewSave(g, FALSE))]
  BY <1>1, <1>2, <1>4, CutOffMaps DEF Playing
<1> QED
  BY <1>3, <1>4 DEF Dies

\* Every step of the pair is a step of the atomic exchange, or leaves it alone.
LEMMA StepMaps == PairInv /\ SavesInv /\ [LegacyNext]_vars => PairStep
<1> SUFFICES ASSUME PairInv, SavesInv, [LegacyNext]_vars PROVE PairStep
  OBVIOUS
<1>0. PairInv' /\ SavesInv'
  BY StepPairs, StepSaves
<1>1. ASSUME CoordinatorStep PROVE PairStep
  BY <1>0, <1>1, BeginsMaps, GoingOnMaps, EndingMaps, StagesMaps, PublishesMaps, DecidesMaps,
     JournalsMaps, DiscardsMaps, RemovesMaps DEF CoordinatorStep
<1>2. ASSUME NEW g \in Games, Handles(g) PROVE PairStep
  BY <1>2, PreparesMaps, AnswerMaps DEF Handles
<1>3. ASSUME NEW g \in Games, Autosave(g) \/ Rewind(g) \/ NewRun(g) \/ PrepareCutOff(g) \/ Dies(g) \/ Starts(g)
      PROVE  PairStep
  BY <1>3, AutosaveMaps, PlayMaps, NewRunMaps, PrepareCutOffMaps, DiesMaps
<1>4. CASE UNCHANGED vars
  BY <1>4, NothingMoves DEF vars, coordVars, gameVars, Undecided, HasOutput
<1> QED
  BY <1>1, <1>2, <1>3, <1>4, EndingMaps DEF LegacyNext

LEMMA InitMaps == LegacyInit => Pair!AtomicInit
<1> SUFFICES ASSUME LegacyInit PROVE Pair!AtomicInit
  OBVIOUS
<1>1. count.txn = 0 /\ marks = [g \in Games |-> {}] /\ active.id = NoTxn
  BY DEF LegacyInit, NoActive
<1>2. \A t \in Txn : t > count.txn /\ t # NoTxn
  BY <1>1 DEF Txn, NoTxn
<1>3. \A t \in Txn : OutcomeOf(t) = "open"
  BY <1>2 DEF OutcomeOf
<1>4. \A g \in Games, t \in Txn : SideOf(g, t) = "own"
  BY <1>1, <1>2, <1>3 DEF SideOf
<1> QED
  BY <1>3, <1>4 DEF Pair!AtomicInit

------------------------------------------------------------------------------
(* The theorems. *)

\* The inductive invariant of the two games' saves: outputs exist only while their
\* game is held on the save they were made from, or once its journal has them.
THEOREM SavesFit == LegacySpec => []SavesInv
BY InitPairs, StepPairs, InitSaves, StepSaves, PTL DEF LegacySpec

\* A game that plays has exactly what its journal says it received: no load, abort,
\* rewind or restart brings back a Pokemon that was given away, or loses one.
THEOREM PlayMatches == LegacySpec => []PlayMatchesJournal
<1>1. SavesInv => PlayMatchesJournal
  BY DEF SavesInv, GameFits, PlayIsExact, PlayMatchesJournal, Playing, NoHold
<1> QED
  BY <1>1, SavesFit, PTL

\* A game that has a whole save has one that its trade barrier admits, so that
\* the choice of a save at start-up never leaves an adventure that cannot start.
THEOREM StartAlwaysPossible == LegacySpec => []StartFindsSave
<1>1. SavesInv => StartFindsSave
  BY DEF SavesInv, GameFits, SomeSave, StartFindsSave, Files, Admissible
<1> QED
  BY <1>1, SavesFit, PTL

\* The pair coordinator and the two games do what the atomic exchange promises:
\* service.py's one durable write of "committed" decides, both outputs being whole,
\* and every step of a crash, a late request or a recovery leaves that decision alone.
THEOREM PairImplementsAtomicExchange == LegacySpec => PairIsAtomic
<1>1. PairInv /\ SavesInv /\ [LegacyNext]_vars => [Pair!AtomicNext]_<<OutcomeMap, SideMap>>
  BY StepMaps DEF PairStep
<1> QED
  BY <1>1, InitMaps, InitPairs, StepPairs, InitSaves, StepSaves, PTL
  DEF LegacySpec, PairIsAtomic, Pair!AtomicSpec, OutcomeMap, SideMap

================================================================================
