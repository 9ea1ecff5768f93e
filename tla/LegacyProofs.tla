----------------------------- MODULE LegacyProofs -----------------------------
(* What is proved of LegacyPair for every number of transactions, failures and *)
(* kept saves.                                                                 *)
EXTENDS LegacyPair, SequenceTheorems, TLAPS

------------------------------------------------------------------------------
(* The inductive invariant: the coordinator, its requests and the holds. *)

Ix(g) == IF g = "red" THEN 1 ELSE 2
Working == Places \ {"idle"}

\* The type invariant in two parts, which seldom change together.
CoordTypes ==
    /\ coord \in [at : Places, ix : 1 .. 4, reply : {"none", "waiting", "ok", "wait", "refused"}]
    /\ active \in [id : 0 .. N, phase : {"none", "preparing", "committed"},
                   prepared : 0 .. 2, targets : BOOLEAN]
    /\ result \in [gets : SUBSET Games, inv : [Games -> SUBSET Txn]]
    /\ completed \subseteq Txn
    /\ count \in [txn : 0 .. N, faults : 0 .. MaxFaults]
GameTypes ==
    /\ up \in [Games -> BOOLEAN] /\ inv \in [Games -> SUBSET Txn] /\ hold \in [Games -> Holds]
    /\ saves \in [Games -> Seq(Saves)] /\ barrier \in [Games -> 0 .. N]
    /\ marks \in [Games -> SUBSET Txn] /\ receipts \in [Games -> SUBSET Txn]
    /\ queue \in [Games -> Seq(Commands)]

\* The transaction's record, and where the coordinator is with which of it.
ActiveFits ==
    /\ active.id = NoTxn <=> active = NoActive
    /\ active.id = NoTxn <=> active.phase = "none"
    /\ active.id \in {NoTxn, count.txn}
    /\ active.phase = "committed" => active.prepared = 2
    /\ active.targets => active.prepared = 2

PlaceFits ==
    /\ coord.at # "idle" => active.phase # "none"
    /\ coord.at \in Calls \cup {"name", "journal", "discard"} => coord.ix \in {1, 2}
    /\ coord.reply # "none" => coord.at \in Calls
    /\ coord.reply = "wait" => coord.at = "prepare"
    /\ coord.at = "name" => active.phase = "preparing" /\ active.prepared = coord.ix - 1 /\ ~active.targets
    /\ coord.at = "prepare" => active.phase = "preparing" /\ active.prepared = coord.ix /\ ~active.targets
    /\ coord.at \in {"stage", "target"} => active.phase = "preparing" /\ active.prepared = 2 /\ ~active.targets
    /\ coord.at \in {"publish", "decide", "discard"} => active.phase = "preparing" /\ active.targets
    /\ coord.at \in {"journal", "load", "release"} => active.phase = "committed"
    /\ coord.at = "abort" => active.phase = "preparing" /\ coord.ix <= active.prepared

\* The peers this round of finish is through with, and those never asked.
Through(g) ==
    \/ coord.at \in {"status", "remove"} \/ active.prepared < Ix(g)
    \/ coord.at \in {"abort", "release"} /\ (Ix(g) < coord.ix \/ (Ix(g) = coord.ix /\ coord.reply = "ok"))

ThroughFits == \A g \in Games : Through(g) => queue[g] = <<>> /\ hold[g] = NoHold

\* A command belongs to the transaction under way, and the one that is waited for
\* is the last.  A prepare nobody waits for any more comes before the abort that
\* ends its hold.
MayLinger(g) ==
    /\ active.phase = "preparing"
    /\ coord.at \in {"idle", "discard"} \/ (coord.at = "abort" /\ coord.ix <= Ix(g))
CommandFits(g, c) ==
    /\ c.id = active.id
    /\ c.live => g = Peer /\ coord.at = c.action /\ coord.reply = "waiting"
    /\ c.action = "prepare" => c.live \/ MayLinger(g)
QueueFits ==
    \A g \in Games : \A i \in DOMAIN queue[g] :
        CommandFits(g, queue[g][i]) /\ (queue[g][i].live => i = Len(queue[g]))

HoldFits == \A g \in Games : hold[g] # NoHold => hold[g].id = active.id /\ Ix(g) <= active.prepared

\* Who has the exchange in its journal.
MarksFit ==
    /\ \A g \in Games : \A t \in marks[g] : t <= count.txn
    /\ active.phase = "preparing" => \A g \in Games : active.id \notin marks[g]
    /\ coord.at = "journal" /\ coord.ix = 2 => active.id \in marks["red"]
    /\ active.phase = "committed" /\ coord.at \in {"load", "release", "status", "remove"} =>
          \A g \in Games : active.id \in marks[g]

PairInv ==
    /\ LegacyTypeOK /\ ActiveFits /\ PlaceFits /\ ThroughFits /\ QueueFits /\ HoldFits
    /\ MarksFit /\ BothOrNeither

------------------------------------------------------------------------------
(* Lemmas. *)

LEMMA PeerFits ==
    ASSUME coord.ix \in {1, 2}
    PROVE  Peer \in Games /\ Ix(Peer) = coord.ix /\ \A g \in Games : Ix(g) = coord.ix => g = Peer
BY DEF Peer, Peers, Games, Ix

LEMMA FrontFits ==
    ASSUME NEW files \in Seq(Saves), files # <<>>
    PROVE  /\ Front(files) \in Seq(Saves) /\ Len(Front(files)) = Len(files) - 1
           /\ \A i \in 1 .. Len(files) - 1 : Front(files)[i] = files[i]
           /\ Last(files) \in Saves /\ Last(files) = files[Len(files)] /\ Len(files) \in Nat \ {0}
<1>1. Len(files) \in Nat \ {0} /\ \A i \in 1 .. Len(files) : files[i] \in Saves
  OBVIOUS
<1>2. /\ SubSeq(files, 1, Len(files) - 1) \in Seq(Saves)
      /\ Len(SubSeq(files, 1, Len(files) - 1)) =
            IF 1 <= Len(files) - 1 THEN Len(files) - 1 - 1 + 1 ELSE 0
      /\ \A i \in 1 .. (Len(files) - 1 - 1 + 1) : SubSeq(files, 1, Len(files) - 1)[i] = files[1 + i - 1]
  <2>1. /\ 1 \in 1 .. Len(files) + 1 /\ Len(files) - 1 \in 0 .. Len(files)
        /\ \A i \in 1 .. Len(files) - 1 : i \in 1 .. Len(files)
    BY <1>1
  <2> QED
    BY <1>1, <2>1, SubSeqProperties
<1>3. /\ \A i \in 1 .. Len(files) - 1 : i \in 1 .. (Len(files) - 1 - 1 + 1) /\ 1 + i - 1 = i
      /\ (IF 1 <= Len(files) - 1 THEN Len(files) - 1 - 1 + 1 ELSE 0) = Len(files) - 1
  BY <1>1
<1>4. \A i \in 1 .. Len(files) - 1 : SubSeq(files, 1, Len(files) - 1)[i] = files[i]
  BY <1>2, <1>3, Zenon
<1>5. Last(files) \in Saves /\ Last(files) = files[Len(files)]
  BY <1>1 DEF Last
<1> QED
  BY <1>1, <1>2, <1>3, <1>4, <1>5, Zenon DEF Front

LEMMA AppendFits ==
    ASSUME NEW files \in Seq(Saves), NEW s \in Saves
    PROVE  /\ Append(files, s) \in Seq(Saves) /\ Append(files, s) # <<>>
           /\ Len(Append(files, s)) = Len(files) + 1
           /\ \A i \in 1 .. Len(files) : Append(files, s)[i] = files[i]
           /\ Append(files, s)[Len(files) + 1] = s /\ Last(Append(files, s)) = s
BY AppendProperties DEF Last

LEMMA KeptFits ==
    ASSUME NEW files \in Seq(Saves), NEW s \in Saves
    PROVE  LET kept == Kept(Append(files, s))
           IN  /\ kept \in Seq(Saves) /\ kept # <<>> /\ Last(kept) = s
               /\ \A i \in DOMAIN kept : kept[i] = s \/ \E j \in DOMAIN files : kept[i] = files[j]
<1> DEFINE all == Append(files, s)
<1>1. all \in Seq(Saves) /\ all # <<>> /\ Last(all) = s /\ Len(all) \in Nat \ {0} /\ Keep \in Nat \ {0}
  BY AppendFits, BoundsAssumption
<1>2. \A i \in 1 .. Len(all) : all[i] \in Saves /\ (all[i] = s \/ \E j \in DOMAIN files : all[i] = files[j])
  BY AppendFits
<1>3. CASE Len(all) <= Keep
  BY <1>1, <1>2, <1>3 DEF Kept
<1>4. CASE Len(all) > Keep
  <2> DEFINE m == Len(all) - Keep + 1
             kept == SubSeq(all, m, Len(all))
  <2>1. m \in 1 .. Len(all)
    BY <1>1, <1>4
  <2>2. /\ kept \in Seq(Saves)
        /\ Len(kept) = (IF m <= Len(all) THEN Len(all) - m + 1 ELSE 0)
        /\ \A i \in 1 .. (Len(all) - m + 1) : kept[i] = all[m + i - 1]
    <3>1. \A i \in m .. Len(all) : all[i] \in Saves
      BY <1>1, <1>2, <2>1
    <3>2. m \in Int /\ Len(all) \in Int
      BY <1>1
    <3> HIDE DEF m, all
    <3> QED
      BY <3>1, <3>2, SubSeqProperties
  <2>3. /\ Len(all) - m + 1 = Keep /\ m + Keep - 1 = Len(all) /\ m <= Len(all) /\ Keep \in 1 .. Keep
        /\ \A i \in 1 .. Keep : m + i - 1 \in 1 .. Len(all)
    BY <1>1, <1>4, <2>1
  <2>4. Len(kept) = Keep /\ \A i \in 1 .. Keep : kept[i] = all[m + i - 1]
    BY <2>2, <2>3
  <2>5. kept[Keep] = s
    BY <1>1, <2>3, <2>4 DEF Last
  <2>6. Kept(all) = kept
    BY <1>1, <1>4 DEF Kept
  <2> HIDE DEF kept, m, all
  <2>7. kept # <<>> /\ Last(kept) = s /\ DOMAIN kept = 1 .. Keep
    BY <1>1, <2>2, <2>4, <2>5 DEF Last
  <2>8. \A i \in DOMAIN kept : kept[i] = s \/ \E j \in DOMAIN files : kept[i] = files[j]
    BY <1>2, <2>3, <2>4, <2>7
  <2> QED
    BY <2>2, <2>6, <2>7, <2>8 DEF all
<1> QED
  BY <1>1, <1>3, <1>4

LEMMA DiscardedFits ==
    ASSUME NEW files \in Seq(Saves)
    PROVE  /\ Discarded(files) \in Seq(Saves) /\ Len(Discarded(files)) <= Len(files)
           /\ \A i \in DOMAIN Discarded(files) : i \in DOMAIN files /\ Discarded(files)[i] = files[i]
<1>1. CASE files # <<>> /\ Last(files).name = active.id
  <2>1. Discarded(files) = Front(files)
    BY <1>1 DEF Discarded
  <2>2. /\ Front(files) \in Seq(Saves) /\ Len(Front(files)) = Len(files) - 1 /\ Len(files) \in Nat
        /\ \A i \in 1 .. Len(files) - 1 : Front(files)[i] = files[i]
    BY <1>1, FrontFits
  <2>3. DOMAIN Front(files) = 1 .. Len(files) - 1 /\ DOMAIN files = 1 .. Len(files)
    BY <2>2
  <2>4. 1 .. Len(files) - 1 \subseteq 1 .. Len(files) /\ Len(files) - 1 <= Len(files)
    BY <2>2
  <2> QED
    BY <2>1, <2>2, <2>3, <2>4
<1>2. CASE ~(files # <<>> /\ Last(files).name = active.id)
  BY <1>2 DEF Discarded
<1> QED
  BY <1>1, <1>2

LEMMA NewSaveFits ==
    ASSUME LegacyTypeOK, NEW g \in Games, NEW w \in BOOLEAN
    PROVE  NewSave(g, w) \in Saves /\ saves[g] \in Seq(Saves)
<1>1. barrier[g] \in 0 .. N /\ inv[g] \in SUBSET Txn /\ saves[g] \in Seq(Saves) /\ 0 \in 0 .. N
  BY BoundsAssumption DEF LegacyTypeOK
<1> QED
  BY <1>1 DEF NewSave, Saves, NoTxn

LEMMA SavedFits ==
    ASSUME LegacyTypeOK, NEW g \in Games
    PROVE  /\ Saved(g) \in Seq(Saves) /\ Saved(g) # <<>> /\ Last(Saved(g)) = NewSave(g, TRUE)
           /\ \A i \in DOMAIN Saved(g) :
                 Saved(g)[i] = NewSave(g, TRUE) \/ \E j \in DOMAIN saves[g] : Saved(g)[i] = saves[g][j]
<1>1. NewSave(g, TRUE) \in Saves /\ saves[g] \in Seq(Saves)
  BY NewSaveFits
<1> QED
  BY <1>1, KeptFits DEF Saved

\* A game takes the oldest command; the one that is waited for is the last.
LEMMA AnswersMoves ==
    ASSUME LegacyTypeOK, QueueFits, NEW g \in Games, queue[g] # <<>>,
           NEW reply \in {"ok", "wait", "refused"}, Answers(g, reply)
    PROVE  /\ queue' \in [Games -> Seq(Commands)] /\ UNCHANGED <<active, result, completed>>
           /\ Command(g) \in Commands /\ CommandFits(g, Command(g)) /\ 1 \in DOMAIN queue[g]
           /\ \A h \in Games : h # g => queue'[h] = queue[h]
           /\ \A i \in DOMAIN queue'[g] : i + 1 \in DOMAIN queue[g] /\ queue'[g][i] = queue[g][i + 1]
           /\ Len(queue'[g]) = Len(queue[g]) - 1
           /\ coord'.at = coord.at /\ coord'.ix = coord.ix
           /\ coord' = [at |-> coord.at, ix |-> coord.ix, reply |-> coord'.reply]
           /\ IF Command(g).live
                THEN /\ coord'.reply = reply /\ queue'[g] = <<>> /\ g = Peer
                     /\ coord.at = Command(g).action /\ coord.reply = "waiting"
                ELSE coord' = coord
<1>1. queue \in [Games -> Seq(Commands)] /\ queue[g] \in Seq(Commands)
      /\ coord \in [at : Places, ix : 1 .. 4, reply : {"none", "waiting", "ok", "wait", "refused"}]
  BY DEF LegacyTypeOK
<1>2. /\ Len(queue[g]) \in Nat \ {0} /\ 1 \in DOMAIN queue[g] /\ Command(g) = queue[g][1]
      /\ Command(g) \in Commands /\ Tail(queue[g]) \in Seq(Commands)
      /\ Len(Tail(queue[g])) = Len(queue[g]) - 1
      /\ \A i \in 1 .. Len(queue[g]) - 1 : i + 1 \in DOMAIN queue[g] /\ Tail(queue[g])[i] = queue[g][i + 1]
  BY <1>1 DEF Command
<1>3. /\ queue'[g] = Tail(queue[g]) /\ \A h \in Games : h # g => queue'[h] = queue[h]
      /\ queue' \in [Games -> Seq(Commands)]
  BY <1>1, <1>2 DEF Answers
<1>4. CommandFits(g, Command(g)) /\ (Command(g).live => 1 = Len(queue[g]))
  BY <1>2 DEF QueueFits
<1>5. coord' = IF Command(g).live THEN [coord EXCEPT !.reply = reply] ELSE coord
  BY DEF Answers
<1>6. Command(g).live => queue'[g] = <<>>
  BY <1>2, <1>3, <1>4
<1>7. DOMAIN Tail(queue[g]) = 1 .. Len(queue[g]) - 1
  BY <1>2
<1> QED
  BY <1>1, <1>2, <1>3, <1>4, <1>5, <1>6, <1>7 DEF Answers, CommandFits

\* What a handler keeps, whatever it does to its game.
LEMMA AnswersKeep ==
    ASSUME PairInv, NEW g \in Games, queue[g] # <<>>,
           NEW reply \in {"ok", "wait", "refused"}, Answers(g, reply), UNCHANGED marks, count'.txn = count.txn,
           \A h \in Games : h # g => hold'[h] = hold[h],
           hold'[g] = NoHold \/ (hold'[g].id = active.id /\ Ix(g) <= active.prepared),
           Command(g).action \in {"abort", "release"} /\ reply = "ok" => hold'[g] = NoHold,
           reply = "wait" => Command(g).action = "prepare"
    PROVE  /\ ActiveFits' /\ PlaceFits' /\ ThroughFits' /\ QueueFits' /\ HoldFits'
           /\ MarksFit' /\ BothOrNeither'
<1>1. /\ LegacyTypeOK /\ QueueFits /\ ActiveFits /\ PlaceFits /\ ThroughFits /\ HoldFits /\ MarksFit /\ BothOrNeither
      /\ UNCHANGED <<active, result, completed, marks>> /\ count'.txn = count.txn /\ coord'.at = coord.at /\ coord'.ix = coord.ix
  BY AnswersMoves DEF PairInv
<1>2. /\ ~Through(g)
      /\ \A h \in Games : h # g => queue'[h] = queue[h] /\ hold'[h] = hold[h]
      /\ IF Command(g).live
           THEN /\ coord'.reply = reply /\ queue'[g] = <<>> /\ g = Peer
                /\ coord.at = Command(g).action /\ coord.reply = "waiting"
           ELSE coord' = coord
  BY <1>1, AnswersMoves DEF ThroughFits
<1>3. ActiveFits' /\ MarksFit' /\ BothOrNeither'
  BY <1>1 DEF ActiveFits, MarksFit, BothOrNeither
<1>4. PlaceFits'
  BY <1>1, <1>2 DEF PlaceFits, CommandFits
<1>5. HoldFits'
  BY <1>1, <1>2 DEF HoldFits
<1>6. ThroughFits'
  <2> SUFFICES ASSUME NEW h \in Games, Through(h)' PROVE queue'[h] = <<>> /\ hold'[h] = NoHold
    BY DEF ThroughFits
  <2>1. CASE Through(h)
    BY <1>1, <1>2, <2>1 DEF ThroughFits
  <2>2. CASE ~Through(h)
    <3>1. /\ coord' # coord /\ coord.at \in {"abort", "release"} /\ Ix(h) = coord.ix /\ coord'.reply = "ok"
      BY <1>1, <2>2 DEF Through
    <3>2. coord.ix \in {1, 2}
      BY <1>1, <3>1 DEF PlaceFits, Calls
    <3>3. h = g /\ Command(g).live /\ reply = "ok" /\ Command(g).action \in {"abort", "release"}
      BY <1>2, <3>1, <3>2, PeerFits
    <3> QED
      BY <1>2, <3>3
  <2> QED
    BY <2>1, <2>2
<1>7. QueueFits'
  <2> SUFFICES ASSUME NEW h \in Games, NEW i \in DOMAIN queue'[h]
               PROVE  CommandFits(h, queue[h][i])' /\ (queue'[h][i].live => i = Len(queue'[h]))
    BY Zenon DEF QueueFits
  <2>1. PICK j \in DOMAIN queue[h] :
           queue'[h][i] = queue[h][j] /\ (j = Len(queue[h]) => i = Len(queue'[h]))
           /\ (h = g => j = i + 1)
    <3>1. CASE h = g
      <4>1. /\ i + 1 \in DOMAIN queue[g] /\ queue'[g][i] = queue[g][i + 1]
            /\ Len(queue'[g]) = Len(queue[g]) - 1 /\ queue[g] \in Seq(Commands)
        BY <1>1, <3>1, AnswersMoves DEF LegacyTypeOK
      <4> QED
        BY <3>1, <4>1
    <3>2. CASE h # g
      BY <1>2, <3>2
    <3> QED
      BY <3>1, <3>2
  <2>2. CommandFits(h, queue[h][j]) /\ (queue[h][j].live => j = Len(queue[h]))
    BY <1>1 DEF QueueFits
  <2>3. CASE Command(g).live
    <3>1. h # g
      BY <1>2, <2>3
    <3>2. ~queue[h][j].live
      BY <1>2, <2>2, <2>3, <3>1 DEF CommandFits
    <3>3. coord.at \in Calls /\ coord.ix \in {1, 2} /\ Peer' = Peer
      BY <1>1, <1>2, <2>3 DEF PlaceFits, Peer
    <3> QED
      BY <1>1, <2>1, <2>2, <3>2, <3>3 DEF CommandFits, MayLinger
  <2>4. CASE ~Command(g).live
    <3>1. coord' = coord /\ active' = active /\ Peer' = Peer
      BY <1>1, <1>2, <2>4 DEF Peer
    <3> QED
      BY <2>1, <2>2, <3>1 DEF CommandFits, MayLinger
  <2> QED
    BY <2>3, <2>4
<1> QED
  BY <1>3, <1>4, <1>5, <1>6, <1>7

\* The coordinator moves on while no command is waited for.
LEMMA QueueKeeps ==
    ASSUME QueueFits, coord.reply # "waiting", queue' = queue, active'.id = active.id,
           \A g \in Games : MayLinger(g) => MayLinger(g)' \/ queue[g] = <<>>
    PROVE  QueueFits'
<1> SUFFICES ASSUME NEW g \in Games, NEW i \in DOMAIN queue'[g]
             PROVE  CommandFits(g, queue[g][i])' /\ (queue'[g][i].live => i = Len(queue'[g]))
  BY Zenon DEF QueueFits
<1>1. CommandFits(g, queue[g][i]) /\ queue[g] # <<>> /\ queue'[g] = queue[g]
  BY DEF QueueFits
<1>2. ~queue[g][i].live
  BY <1>1 DEF CommandFits
<1> QED
  BY <1>1, <1>2 DEF CommandFits

LEMMA EmptyQueues == ASSUME \A g \in Games : queue[g]' = <<>> PROVE QueueFits'
BY DEF QueueFits

LEMMA TypesFit ==
    /\ LegacyTypeOK <=> CoordTypes /\ GameTypes
    /\ LegacyTypeOK' <=> CoordTypes' /\ GameTypes'
BY DEF LegacyTypeOK, CoordTypes, GameTypes

LEMMA GoesFits ==
    ASSUME NEW place \in Places, NEW ix \in 1 .. 4, Goes(place, ix)
    PROVE  /\ coord' \in [at : Places, ix : 1 .. 4, reply : {"none", "waiting", "ok", "wait", "refused"}]
           /\ coord'.at = place /\ coord'.ix = ix /\ coord'.reply = "none"
BY DEF Goes

LEMMA NoHoldFits == NoHold \in Holds /\ NoSave \in Saves
<1>1. 0 \in 0 .. N
  BY BoundsAssumption
<1> QED
  BY <1>1 DEF NoHold, Holds, NoSave, Saves, NoTxn

\* The rest of the type invariant, and of what a handler leaves alone.
LEMMA CoordFits ==
    ASSUME LegacyTypeOK, QueueFits, NEW g \in Games, queue[g] # <<>>,
           NEW reply \in {"ok", "wait", "refused"}, Answers(g, reply)
    PROVE  /\ coord' \in [at : Places, ix : 1 .. 4, reply : {"none", "waiting", "ok", "wait", "refused"}]
           /\ queue' \in [Games -> Seq(Commands)] /\ UNCHANGED <<active, result, completed>>
BY AnswersMoves DEF LegacyTypeOK

\* A process that ends takes its queue with it, and refuses the command waited for.
LEMMA DownFits ==
    ASSUME LegacyTypeOK, QueueFits, NEW g \in Games, Down(g)
    PROVE  /\ queue' = [queue EXCEPT ![g] = <<>>] /\ queue'[g] = <<>>
           /\ \A h \in Games : h # g => queue'[h] = queue[h]
           /\ coord'.at = coord.at /\ coord'.ix = coord.ix /\ active' = active
           /\ coord' = coord \/ (coord'.reply = "refused" /\ coord.reply = "waiting" /\ Peer = g
                                   /\ coord.at \in Calls)
<1>1. queue \in [Games -> Seq(Commands)]
      /\ coord \in [at : Places, ix : 1 .. 4, reply : {"none", "waiting", "ok", "wait", "refused"}]
  BY DEF LegacyTypeOK
<1>2. CASE \E i \in DOMAIN queue[g] : queue[g][i].live
  <2>1. PICK i \in DOMAIN queue[g] : queue[g][i].live
    BY <1>2
  <2>2. CommandFits(g, queue[g][i]) /\ queue[g][i] \in Commands
    BY <1>1 DEF QueueFits
  <2>3. Peer = g /\ coord.reply = "waiting" /\ coord.at \in Calls
    BY <2>1, <2>2 DEF CommandFits, Commands
  <2> QED
    BY <1>1, <1>2, <2>3 DEF Down
<1>3. CASE ~ \E i \in DOMAIN queue[g] : queue[g][i].live
  BY <1>1, <1>3 DEF Down
<1> QED
  BY <1>2, <1>3

LEMMA DownKeeps ==
    ASSUME PairInv, NEW g \in Games, Down(g), \A h \in Games : h # g \/ Through(h) => hold'[h] = hold[h]
    PROVE  PlaceFits' /\ ThroughFits' /\ QueueFits'
<1>1. LegacyTypeOK /\ QueueFits /\ PlaceFits /\ ThroughFits
  BY DEF PairInv
<1>2. PlaceFits'
  BY <1>1, DownFits DEF PlaceFits
<1>3. ThroughFits'
  <2> SUFFICES ASSUME NEW h \in Games, Through(h)' PROVE queue'[h] = <<>> /\ hold'[h] = NoHold
    BY DEF ThroughFits
  <2>1. Through(h)
    BY <1>1, DownFits DEF Through
  <2> QED
    BY <1>1, <2>1, DownFits DEF ThroughFits
<1>4. QueueFits'
  <2> SUFFICES ASSUME NEW h \in Games, NEW i \in DOMAIN queue'[h]
               PROVE  CommandFits(h, queue[h][i])' /\ (queue'[h][i].live => i = Len(queue'[h]))
    BY Zenon DEF QueueFits
  <2>1. h # g /\ queue'[h] = queue[h] /\ coord'.at = coord.at /\ coord'.ix = coord.ix /\ active' = active
        /\ Peer' = Peer
    BY <1>1, DownFits DEF Peer
  <2>2. CommandFits(h, queue[h][i]) /\ (queue[h][i].live => i = Len(queue[h]))
    BY <1>1, <2>1 DEF QueueFits
  <2>3. queue[h][i].live => coord' = coord
    BY <1>1, <2>1, <2>2, DownFits DEF CommandFits
  <2> QED
    BY <2>1, <2>2, <2>3 DEF CommandFits, MayLinger
<1> QED
  BY <1>2, <1>3, <1>4

LEMMA DownTypes ==
    ASSUME queue \in [Games -> Seq(Commands)], NEW g \in Games, Down(g)
    PROVE  queue' \in [Games -> Seq(Commands)]
<1>1. <<>> \in Seq(Commands)
  OBVIOUS
<1> QED
  BY <1>1 DEF Down

LEMMA FrontTypes == ASSUME NEW files \in Seq(Saves) PROVE Front(files) \in Seq(Saves)
<1>1. /\ Len(files) \in Nat /\ 1 \in Int /\ Len(files) - 1 \in Int
      /\ \A i \in 1 .. Len(files) - 1 : files[i] \in Saves
  OBVIOUS
<1>2. SubSeq(files, 1, Len(files) - 1) \in Seq(Saves)
  BY <1>1, SubSeqProperties
<1> QED
  BY <1>2 DEF Front

------------------------------------------------------------------------------
(* Every step keeps the invariant. *)

LEMMA BeginsKeeps ==
    ASSUME PairInv, Begins
    PROVE  PairInv'
<1>0. LegacyTypeOK /\ ActiveFits /\ PlaceFits /\ ThroughFits /\ QueueFits
      /\ HoldFits /\ MarksFit /\ BothOrNeither
  BY DEF PairInv
<1>1. LegacyTypeOK'
  <2>1. CoordTypes /\ GameTypes
    BY <1>0, TypesFit
  <2>2. coord' \in [at : Places, ix : 1 .. 4, reply : {"none", "waiting", "ok", "wait", "refused"}]
    BY GoesFits DEF Begins, Places
  <2>3. active' = [id |-> count.txn + 1, phase |-> "preparing", prepared |-> 0, targets |-> FALSE]
    BY DEF Begins, NoActive
  <2>4. count.txn + 1 \in 0 .. N /\ count' \in [txn : 0 .. N, faults : 0 .. MaxFaults]
    BY <2>1, BoundsAssumption DEF Begins, CoordTypes
  <2>5. active' \in [id : 0 .. N, phase : {"none", "preparing", "committed"}, prepared : 0 .. 2, targets : BOOLEAN]
    BY <2>3, <2>4
  <2>6. CoordTypes'
    BY <2>1, <2>2, <2>3, <2>4, <2>5 DEF CoordTypes, Begins
  <2>7. GameTypes'
    BY <2>1 DEF GameTypes, Begins, gameVars
  <2> QED
    BY <2>6, <2>7, TypesFit
<1>2. ActiveFits'
  <2>1. active' = [id |-> count.txn + 1, phase |-> "preparing", prepared |-> 0, targets |-> FALSE]
    BY DEF Begins, NoActive
  <2>2. count.txn \in Nat /\ count'.txn = count.txn + 1 /\ count.txn + 1 # 0
    BY <1>0, BoundsAssumption DEF Begins, LegacyTypeOK
  <2> QED
    BY <2>1, <2>2 DEF ActiveFits, NoActive, NoTxn
<1>3. PlaceFits' /\ ThroughFits' /\ HoldFits' /\ BothOrNeither'
  BY <1>0 DEF Begins, PlaceFits, NoActive, Goes, gameVars, ThroughFits, Through, HoldFits,
     BothOrNeither
<1>4. QueueFits'
  <2>1. \A g \in Games : Through(g)
    BY DEF Begins, Through, NoActive, Ix
  <2> QED
    BY <1>0, <2>1, EmptyQueues DEF ThroughFits, Begins
<1>5. MarksFit'
  BY <1>0 DEF Begins, MarksFit, LegacyTypeOK, Goes, gameVars, Txn
<1> QED
  BY <1>1, <1>2, <1>3, <1>4, <1>5 DEF PairInv

LEMMA ResumesKeeps ==
    ASSUME PairInv, Resumes
    PROVE  PairInv'
<1>0. LegacyTypeOK /\ ActiveFits /\ PlaceFits /\ ThroughFits /\ QueueFits
      /\ HoldFits /\ MarksFit /\ BothOrNeither
  BY DEF PairInv
<1>1. LegacyTypeOK'
  BY <1>0, GoesFits DEF Resumes, LegacyTypeOK, Finish, gameVars, Places, Calls
<1>2. ActiveFits' /\ ThroughFits' /\ HoldFits' /\ MarksFit' /\ BothOrNeither'
  BY <1>0 DEF Resumes, ActiveFits, Goes, Finish, gameVars, ThroughFits, Through, Ix, HoldFits,
     MarksFit, BothOrNeither
<1>3. PlaceFits'
  <2>1. /\ active.phase \in {"preparing", "committed"} /\ active.prepared \in 0 .. 2
        /\ active.targets \in BOOLEAN /\ active' = active
    BY <1>0 DEF LegacyTypeOK, ActiveFits, Resumes
  <2>2. coord'.at = Finish(active) /\ coord'.ix = 1 /\ coord'.reply = "none"
    BY DEF Resumes, Goes
  <2> QED
    BY <2>1, <2>2 DEF PlaceFits, Finish, Calls
<1>4. QueueFits'
  BY <1>0, QueueKeeps DEF Resumes, MayLinger, PlaceFits, Through, ThroughFits, Goes, Finish, Ix,
     Calls
<1> QED
  BY <1>1, <1>2, <1>3, <1>4 DEF PairInv

LEMMA NamesKeeps ==
    ASSUME PairInv, Names
    PROVE  PairInv'
<1>0. LegacyTypeOK /\ ActiveFits /\ PlaceFits /\ ThroughFits /\ QueueFits
      /\ HoldFits /\ MarksFit /\ BothOrNeither
  BY DEF PairInv
<1>1. LegacyTypeOK'
  <2>1. CoordTypes /\ GameTypes
    BY <1>0, TypesFit
  <2>2. coord.ix \in {1, 2}
    BY <1>0 DEF Names, PlaceFits
  <2>3. coord' \in [at : Places, ix : 1 .. 4, reply : {"none", "waiting", "ok", "wait", "refused"}]
    BY <2>2, GoesFits DEF Names, Places, Calls
  <2>4. CoordTypes'
    BY <2>1, <2>2, <2>3 DEF CoordTypes, Names
  <2>5. GameTypes'
    BY <2>1 DEF GameTypes, Names, gameVars
  <2> QED
    BY <2>4, <2>5, TypesFit
<1>2. ActiveFits'
  BY <1>0 DEF Names, ActiveFits, PlaceFits, NoActive
<1>3. PlaceFits' /\ MarksFit' /\ BothOrNeither'
  BY <1>0 DEF Names, PlaceFits, Goes, gameVars, MarksFit, BothOrNeither
<1>4. ThroughFits'
  <2>1. /\ active'.prepared = coord.ix /\ active.prepared = coord.ix - 1 /\ coord.ix \in {1, 2}
        /\ coord'.at = "prepare" /\ UNCHANGED <<queue, hold>>
    BY <1>0 DEF Names, PlaceFits, Goes, gameVars, LegacyTypeOK
  <2> QED
    BY <1>0, <2>1 DEF ThroughFits, Through, Ix
<1>5. QueueFits'
  BY <1>0, QueueKeeps DEF Names, MayLinger, PlaceFits, Calls
<1>6. HoldFits'
  <2>1. /\ active'.prepared = coord.ix /\ active.prepared = coord.ix - 1 /\ coord.ix \in {1, 2}
        /\ active'.id = active.id /\ UNCHANGED hold
    BY <1>0 DEF Names, PlaceFits, gameVars, LegacyTypeOK
  <2> QED
    BY <1>0, <2>1 DEF HoldFits, Ix
<1> QED
  BY <1>1, <1>2, <1>3, <1>4, <1>5, <1>6 DEF PairInv

LEMMA AsksKeeps ==
    ASSUME PairInv, Asks
    PROVE  PairInv'
<1>0. LegacyTypeOK /\ ActiveFits /\ PlaceFits /\ ThroughFits /\ QueueFits
      /\ HoldFits /\ MarksFit /\ BothOrNeither
  BY DEF PairInv
<1>1. LegacyTypeOK'
  <2>1. CoordTypes /\ GameTypes
    BY <1>0, TypesFit
  <2>2. CoordTypes'
    BY <2>1 DEF CoordTypes, Asks
  <2>3. GameTypes'
    <3>1. [action |-> coord.at, id |-> active.id, live |-> TRUE] \in Commands
      <4>1. active.id \in 0 .. N /\ active.phase # "none" /\ coord.at \in Calls
        BY <1>0, <2>1 DEF CoordTypes, Asks, PlaceFits, Calls
      <4>2. active.id \in Txn
        BY <1>0, <4>1, BoundsAssumption DEF ActiveFits, NoTxn, Txn
      <4> QED
        BY <4>1, <4>2 DEF Commands
    <3>2. Peer \in Games
      BY <1>0, PeerFits DEF Asks, PlaceFits
    <3> DEFINE new == [action |-> coord.at, id |-> active.id, live |-> TRUE]
    <3>3. queue[Peer] \in Seq(Commands) /\ queue' = [queue EXCEPT ![Peer] = Append(queue[Peer], new)]
      BY <2>1, <3>2 DEF GameTypes, Asks
    <3>4. Append(queue[Peer], new) \in Seq(Commands)
      BY <3>1, <3>3
    <3> HIDE DEF new
    <3> QED
      BY <2>1, <3>2, <3>3, <3>4 DEF GameTypes, Asks, gameVars
  <2> QED
    BY <2>2, <2>3, TypesFit
<1>2. ActiveFits' /\ PlaceFits' /\ HoldFits' /\ MarksFit' /\ BothOrNeither'
  BY <1>0 DEF Asks, ActiveFits, gameVars, PlaceFits, HoldFits, MarksFit, BothOrNeither
<1>3. ThroughFits'
  <2>1. /\ coord.ix \in {1, 2} /\ coord'.at = coord.at /\ coord'.ix = coord.ix /\ coord'.reply = "waiting"
        /\ active' = active /\ hold' = hold /\ coord.ix <= active.prepared
        /\ \A g \in Games : g # Peer => queue'[g] = queue[g]
    BY <1>0 DEF Asks, PlaceFits, ActiveFits, LegacyTypeOK, Calls, gameVars
  <2>2. ASSUME NEW g \in Games, Through(g)' PROVE Through(g) /\ g # Peer
    <3>1. coord.at \in Calls /\ Ix(Peer) = coord.ix /\ active.prepared \in 0 .. 2
      BY <1>0, <2>1, PeerFits DEF Asks, LegacyTypeOK
    <3>2. active.prepared < Ix(g) \/ (coord.at \in {"abort", "release"} /\ Ix(g) < coord.ix)
      BY <2>1, <2>2, <3>1 DEF Through, Calls
    <3>3. g # Peer
      BY <2>1, <3>1, <3>2
    <3> QED
      BY <3>2, <3>3 DEF Through
  <2> QED
    BY <1>0, <2>1, <2>2 DEF ThroughFits
<1>4. QueueFits'
  <2> DEFINE new == [action |-> coord.at, id |-> active.id, live |-> TRUE]
  <2>1. /\ queue \in [Games -> Seq(Commands)] /\ queue' = [queue EXCEPT ![Peer] = Append(@, new)]
        /\ coord'.at = coord.at /\ coord'.ix = coord.ix /\ coord'.reply = "waiting"
        /\ active' = active /\ coord.reply = "none" /\ Peer' = Peer
    BY <1>0 DEF Asks, LegacyTypeOK, Peer
  <2> SUFFICES ASSUME NEW g \in Games, NEW i \in DOMAIN queue'[g]
               PROVE  CommandFits(g, queue[g][i])' /\ (queue'[g][i].live => i = Len(queue'[g]))
    BY Zenon DEF QueueFits
  <2>2. CASE i \in DOMAIN queue[g] /\ queue'[g][i] = queue[g][i]
    <3>1. CommandFits(g, queue[g][i])
      BY <1>0, <2>2 DEF QueueFits
    <3>2. ~queue[g][i].live
      BY <2>1, <3>1 DEF CommandFits
    <3> QED
      BY <2>1, <2>2, <3>1, <3>2 DEF CommandFits, MayLinger
  <2>3. CASE g = Peer /\ i = Len(queue'[g]) /\ queue'[g][i] = new
    BY <2>1, <2>3 DEF CommandFits
  <2>4. (i \in DOMAIN queue[g] /\ queue'[g][i] = queue[g][i]) \/ (g = Peer /\ i = Len(queue'[g]) /\ queue'[g][i] = new)
    <3>1. queue[g] \in Seq(Commands) /\ queue'[g] = IF g = Peer THEN Append(queue[g], new) ELSE queue[g]
      BY <2>1
    <3> HIDE DEF new
    <3> QED
      BY <3>1
  <2> QED
    BY <2>2, <2>3, <2>4
<1> QED
  BY <1>1, <1>2, <1>3, <1>4 DEF PairInv

LEMMA RequestFailsKeeps ==
    ASSUME PairInv, RequestFails
    PROVE  PairInv'
<1>0. LegacyTypeOK /\ ActiveFits /\ PlaceFits /\ ThroughFits /\ QueueFits
      /\ HoldFits /\ MarksFit /\ BothOrNeither
  BY DEF PairInv
<1>1. LegacyTypeOK'
  BY <1>0, GoesFits DEF RequestFails, LegacyTypeOK, Recovers, gameVars, Places
<1>2. ActiveFits' /\ PlaceFits' /\ ThroughFits' /\ HoldFits' /\ MarksFit' /\ BothOrNeither'
  BY <1>0 DEF RequestFails, ActiveFits, Recovers, gameVars, Goes, PlaceFits, ThroughFits,
     Through,
     HoldFits, MarksFit, BothOrNeither
<1>3. QueueFits'
  BY <1>0, QueueKeeps DEF RequestFails, MayLinger, Recovers, Goes
<1> QED
  BY <1>1, <1>2, <1>3 DEF PairInv

LEMMA AnsweredKeeps ==
    ASSUME PairInv, Answered
    PROVE  PairInv'
<1>0. LegacyTypeOK /\ ActiveFits /\ PlaceFits /\ ThroughFits /\ QueueFits
      /\ HoldFits /\ MarksFit /\ BothOrNeither
  BY DEF PairInv
<1>1. LegacyTypeOK'
  <2>1. CoordTypes /\ GameTypes
    BY <1>0, TypesFit
  <2>2. coord.at \in Calls /\ coord.ix \in {1, 2} /\ LastPeer \in 0 .. 2
    BY <1>0, <2>1 DEF Answered, PlaceFits, LastPeer, CoordTypes
  <2>3. coord' \in [at : Places, ix : 1 .. 4, reply : {"none", "waiting", "ok", "wait", "refused"}]
    BY <2>2, GoesFits DEF Answered, Places, Calls, NextCall
  <2>4. CoordTypes'
    BY <2>1, <2>2, <2>3 DEF CoordTypes, Answered
  <2>5. GameTypes'
    BY <2>1 DEF GameTypes, Answered, gameVars
  <2> QED
    BY <2>4, <2>5, TypesFit
<1>2. ActiveFits' /\ HoldFits' /\ BothOrNeither'
  BY <1>0 DEF Answered, ActiveFits, gameVars, HoldFits, BothOrNeither
<1>3. PlaceFits'
  BY <1>0 DEF Answered, PlaceFits, LegacyTypeOK, LastPeer, Goes, NextCall, Calls
<1>4. ThroughFits'
  <2>1. /\ coord.at \in Calls /\ coord.ix \in {1, 2} /\ coord.reply = "ok" /\ active.prepared \in 0 .. 2
        /\ UNCHANGED <<active, queue, hold>>
    BY <1>0 DEF Answered, PlaceFits, LegacyTypeOK, gameVars
  <2>2. ASSUME NEW g \in Games, Through(g)' PROVE Through(g)
    <3>1. CASE active.prepared < Ix(g)
      BY <3>1 DEF Through
    <3>2. CASE coord'.at \in {"abort", "release"} /\ coord'.reply = "none" /\ Ix(g) < coord'.ix
      <4>1. coord.at = coord'.at /\ coord'.ix = coord.ix + 1
        BY <2>1, <3>2 DEF Answered, Goes, NextCall, Calls, Ix
      <4> QED
        BY <2>1, <3>2, <4>1 DEF Through, Ix
    <3>3. CASE coord'.at = "status"
      <4>1. coord.at \in {"abort", "release"} /\ coord.ix = LastPeer
        BY <2>1, <3>3 DEF Answered, Goes, NextCall, Calls
      <4> QED
        BY <1>0, <2>1, <4>1 DEF Through, LastPeer, Ix, Games
    <3>4. coord'.reply = "none" /\ coord'.at # "remove"
      BY <2>1 DEF Answered, Goes, NextCall, Calls
    <3> QED
      BY <2>1, <2>2, <3>1, <3>2, <3>3, <3>4 DEF Through
  <2> QED
    BY <1>0, <2>1, <2>2 DEF ThroughFits
<1>5. QueueFits'
  BY <1>0, QueueKeeps DEF Answered, MayLinger, PlaceFits, Through, ThroughFits, LastPeer, Goes,
     Ix,
     Calls
<1>6. MarksFit'
  BY <1>0 DEF Answered, MarksFit, PlaceFits, Goes, gameVars, Calls
<1> QED
  BY <1>1, <1>2, <1>3, <1>4, <1>5, <1>6 DEF PairInv

LEMMA AsksAgainKeeps ==
    ASSUME PairInv, AsksAgain
    PROVE  PairInv'
<1>0. LegacyTypeOK /\ ActiveFits /\ PlaceFits /\ ThroughFits /\ QueueFits
      /\ HoldFits /\ MarksFit /\ BothOrNeither
  BY DEF PairInv
<1>1. LegacyTypeOK'
  BY <1>0, GoesFits DEF AsksAgain, LegacyTypeOK, gameVars, Places, Calls
<1>2. ActiveFits' /\ ThroughFits' /\ HoldFits' /\ MarksFit' /\ BothOrNeither'
  BY <1>0 DEF AsksAgain, ActiveFits, Goes, gameVars, ThroughFits, Through, HoldFits, MarksFit,
     BothOrNeither
<1>3. PlaceFits'
  BY <1>0 DEF AsksAgain, PlaceFits, Goes
<1>4. QueueFits'
  BY <1>0, QueueKeeps DEF AsksAgain, PlaceFits, QueueFits, MayLinger
<1> QED
  BY <1>1, <1>2, <1>3, <1>4 DEF PairInv

LEMMA GivesUpKeeps ==
    ASSUME PairInv, GivesUp
    PROVE  PairInv'
<1>0. LegacyTypeOK /\ ActiveFits /\ PlaceFits /\ ThroughFits /\ QueueFits
      /\ HoldFits /\ MarksFit /\ BothOrNeither
  BY DEF PairInv
<1>1. LegacyTypeOK'
  BY <1>0, GoesFits DEF GivesUp, LegacyTypeOK, Recovers, gameVars, Places
<1>2. ActiveFits' /\ PlaceFits' /\ ThroughFits' /\ HoldFits' /\ MarksFit' /\ BothOrNeither'
  BY <1>0 DEF GivesUp, ActiveFits, Recovers, gameVars, Goes, PlaceFits, ThroughFits, Through,
     HoldFits, MarksFit, BothOrNeither
<1>3. QueueFits'
  BY <1>0, QueueKeeps DEF GivesUp, MayLinger, PlaceFits
<1> QED
  BY <1>1, <1>2, <1>3 DEF PairInv

LEMMA StagesKeeps ==
    ASSUME PairInv, Stages
    PROVE  PairInv'
<1>0. LegacyTypeOK /\ ActiveFits /\ PlaceFits /\ ThroughFits /\ QueueFits
      /\ HoldFits /\ MarksFit /\ BothOrNeither
  BY DEF PairInv
<1>1. LegacyTypeOK'
  <2>1. CoordTypes /\ GameTypes
    BY <1>0, TypesFit
  <2>2. \A g \in Games : Last(saves[g]).inv \in SUBSET Txn
    <3> SUFFICES ASSUME NEW g \in Games PROVE Last(saves[g]).inv \in SUBSET Txn
      OBVIOUS
    <3>1. saves[g] \in Seq(Saves) /\ saves[g] # <<>>
      BY <2>1 DEF Stages, GameTypes
    <3>2. Last(saves[g]) \in Saves
      BY <3>1, FrontFits
    <3> QED
      BY <3>2 DEF Saves
  <2>3. active.id \in Txn
    BY <1>0, <2>1, BoundsAssumption DEF Stages, CoordTypes, ActiveFits, PlaceFits, NoTxn, Txn
  <2>4. \A gets \in Recipients : Outcome(gets) \in [gets : SUBSET Games, inv : [Games -> SUBSET Txn]]
    BY <2>2, <2>3 DEF Outcome, Recipients
  <2>5. coord' \in [at : Places, ix : 1 .. 4, reply : {"none", "waiting", "ok", "wait", "refused"}]
    BY GoesFits DEF Stages, Places, Calls, Finish
  <2>6. CoordTypes'
    BY <2>1, <2>2, <2>3, <2>4, <2>5 DEF CoordTypes, Stages
  <2>7. GameTypes'
    BY <2>1 DEF GameTypes, Stages, gameVars
  <2> QED
    BY <2>6, <2>7, TypesFit
<1>2. ActiveFits' /\ PlaceFits' /\ ThroughFits' /\ HoldFits' /\ MarksFit' /\ BothOrNeither'
  BY <1>0 DEF Stages, ActiveFits, Goes, Finish, gameVars, PlaceFits, ThroughFits, Through, Ix,
     HoldFits, MarksFit, BothOrNeither
<1>3. QueueFits'
  BY <1>0, QueueKeeps DEF Stages, MayLinger, PlaceFits, Calls
<1> QED
  BY <1>1, <1>2, <1>3 DEF PairInv

LEMMA TargetsKeeps ==
    ASSUME PairInv, Targets
    PROVE  PairInv'
<1>0. LegacyTypeOK /\ ActiveFits /\ PlaceFits /\ ThroughFits /\ QueueFits
      /\ HoldFits /\ MarksFit /\ BothOrNeither
  BY DEF PairInv
<1>1. LegacyTypeOK'
  <2>1. CoordTypes /\ GameTypes
    BY <1>0, TypesFit
  <2>2. coord' \in [at : Places, ix : 1 .. 4, reply : {"none", "waiting", "ok", "wait", "refused"}]
    BY GoesFits DEF Targets, Places
  <2>3. CoordTypes'
    BY <2>1, <2>2 DEF CoordTypes, Targets
  <2>4. GameTypes'
    BY <2>1 DEF GameTypes, Targets, gameVars
  <2> QED
    BY <2>3, <2>4, TypesFit
<1>2. ActiveFits'
  BY <1>0 DEF Targets, ActiveFits, PlaceFits, NoActive
<1>3. PlaceFits' /\ ThroughFits' /\ HoldFits' /\ MarksFit' /\ BothOrNeither'
  BY <1>0 DEF Targets, PlaceFits, Goes, gameVars, ThroughFits, Through, HoldFits, MarksFit,
     BothOrNeither
<1>4. QueueFits'
  BY <1>0, QueueKeeps DEF Targets, MayLinger, PlaceFits, Calls
<1> QED
  BY <1>1, <1>2, <1>3, <1>4 DEF PairInv

LEMMA PublishesKeeps ==
    ASSUME PairInv, Publishes
    PROVE  PairInv'
<1>0. LegacyTypeOK /\ ActiveFits /\ PlaceFits /\ ThroughFits /\ QueueFits
      /\ HoldFits /\ MarksFit /\ BothOrNeither
  BY DEF PairInv
<1>1. LegacyTypeOK'
  <2>1. CoordTypes /\ GameTypes
    BY <1>0, TypesFit
  <2>2. coord' \in [at : Places, ix : 1 .. 4, reply : {"none", "waiting", "ok", "wait", "refused"}]
    BY <2>1, GoesFits DEF Publishes, Places, CoordTypes
  <2>3. CoordTypes'
    BY <2>1, <2>2 DEF CoordTypes, Publishes
  <2>4. GameTypes'
    <3> DEFINE g == Peers[(coord.ix + 1) \div 2]
                new(w) == [name |-> active.id, whole |-> w, tag |-> active.id, inv |-> result.inv[g]]
    <3>1. g \in Games
      BY <2>1 DEF CoordTypes, Peers, Games
    <3>2. \A w \in BOOLEAN : new(w) \in Saves
      BY <2>1, <3>1 DEF CoordTypes, Saves
    <3>3. saves[g] \in Seq(Saves)
      BY <2>1, <3>1 DEF GameTypes
    <3>4. CASE coord.ix % 2 = 1
      <4>1. Append(saves[g], new(FALSE)) \in Seq(Saves)
        BY <3>2, <3>3, AppendFits
      <4>2. saves' = [saves EXCEPT ![g] = Append(saves[g], new(FALSE))]
        BY <3>4 DEF Publishes
      <4> HIDE DEF g, new
      <4> QED
        BY <2>1, <3>1, <4>1, <4>2 DEF GameTypes, Publishes
    <3>5. CASE coord.ix % 2 # 1
      <4>1. Append(Front(saves[g]), new(TRUE)) \in Seq(Saves)
        BY <3>2, <3>3, FrontTypes, AppendFits
      <4>2. saves' = [saves EXCEPT ![g] = Append(Front(saves[g]), new(TRUE))]
        BY <3>5 DEF Publishes
      <4> HIDE DEF g, new
      <4> QED
        BY <2>1, <3>1, <4>1, <4>2 DEF GameTypes, Publishes
    <3> QED
      BY <3>4, <3>5
  <2> QED
    BY <2>3, <2>4, TypesFit
<1>2. ActiveFits' /\ PlaceFits' /\ ThroughFits' /\ HoldFits' /\ MarksFit' /\ BothOrNeither'
  BY <1>0 DEF Publishes, ActiveFits, Goes, PlaceFits, Calls, ThroughFits, Through, HoldFits,
     MarksFit, BothOrNeither
<1>3. QueueFits'
  BY <1>0, QueueKeeps DEF Publishes, MayLinger, PlaceFits, Calls
<1> QED
  BY <1>1, <1>2, <1>3 DEF PairInv

LEMMA DecidesKeeps ==
    ASSUME PairInv, Decides
    PROVE  PairInv'
<1>0. LegacyTypeOK /\ ActiveFits /\ PlaceFits /\ ThroughFits /\ QueueFits
      /\ HoldFits /\ MarksFit /\ BothOrNeither
  BY DEF PairInv
<1>1. LegacyTypeOK'
  <2>1. CoordTypes /\ GameTypes
    BY <1>0, TypesFit
  <2>2. coord' \in [at : Places, ix : 1 .. 4, reply : {"none", "waiting", "ok", "wait", "refused"}]
    BY GoesFits DEF Decides, Places
  <2>3. CoordTypes'
    BY <2>1, <2>2 DEF CoordTypes, Decides
  <2>4. GameTypes'
    BY <2>1 DEF GameTypes, Decides, gameVars
  <2> QED
    BY <2>3, <2>4, TypesFit
<1>2. ActiveFits'
  BY <1>0 DEF Decides, ActiveFits, PlaceFits, NoActive
<1>3. PlaceFits' /\ ThroughFits' /\ HoldFits' /\ MarksFit' /\ BothOrNeither'
  BY <1>0 DEF Decides, PlaceFits, Goes, gameVars, ThroughFits, Through, HoldFits, MarksFit,
     BothOrNeither
<1>4. QueueFits'
  BY <1>0, QueueKeeps DEF Decides, MayLinger, PlaceFits, Calls
<1> QED
  BY <1>1, <1>2, <1>3, <1>4 DEF PairInv

LEMMA JournalsKeeps ==
    ASSUME PairInv, Journals
    PROVE  PairInv'
<1>0. LegacyTypeOK /\ ActiveFits /\ PlaceFits /\ ThroughFits /\ QueueFits
      /\ HoldFits /\ MarksFit /\ BothOrNeither
  BY DEF PairInv
<1>1. LegacyTypeOK'
  <2>1. CoordTypes /\ GameTypes
    BY <1>0, TypesFit
  <2>2. Peer \in Games /\ coord.ix \in {1, 2} /\ active.id \in Txn
    BY <1>0, <2>1, PeerFits, BoundsAssumption DEF Journals, CoordTypes, ActiveFits, PlaceFits,
       NoTxn, Txn, Calls
  <2>3. coord' \in [at : Places, ix : 1 .. 4, reply : {"none", "waiting", "ok", "wait", "refused"}]
    BY GoesFits DEF Journals, Places, Calls
  <2>4. CoordTypes'
    BY <2>1, <2>2, <2>3 DEF CoordTypes, Journals
  <2>5. GameTypes'
    <3>1. active.id \in 0 .. N
      BY <2>1 DEF CoordTypes
    <3> QED
      <4>0. {active.id} \subseteq Txn /\ marks[Peer] \cup {active.id} \subseteq Txn
            /\ receipts[Peer] \cup {active.id} \subseteq Txn
        BY <2>1, <2>2 DEF GameTypes
      <4>1. marks' \in [Games -> SUBSET Txn]
        <5>1. marks' = marks \/ marks' = [marks EXCEPT ![Peer] = marks[Peer] \cup {active.id}]
          BY DEF Journals
        <5> QED
          BY <2>1, <2>2, <4>0, <5>1 DEF GameTypes
      <4>2. barrier' \in [Games -> 0 .. N]
        BY <2>1, <2>2, <3>1 DEF GameTypes, Journals
      <4>3. receipts' \in [Games -> SUBSET Txn]
        <5>1. receipts' = receipts \/ receipts' = [receipts EXCEPT ![Peer] = receipts[Peer] \cup {active.id}]
          BY DEF Journals, Notes
        <5> QED
          BY <2>1, <2>2, <4>0, <5>1 DEF GameTypes
      <4> QED
        BY <2>1, <4>1, <4>2, <4>3 DEF GameTypes, Journals
  <2> QED
    BY <2>4, <2>5, TypesFit
<1>2. ActiveFits' /\ PlaceFits' /\ ThroughFits' /\ HoldFits'
  BY <1>0 DEF Journals, ActiveFits, Goes, PlaceFits, ThroughFits, Through, HoldFits
<1>3. QueueFits'
  BY <1>0, QueueKeeps DEF Journals, MayLinger, PlaceFits, Calls
<1>4. MarksFit'
  <2>1. /\ coord.ix \in {1, 2} /\ Peer = (IF coord.ix = 1 THEN "red" ELSE "blue") /\ active.phase = "committed"
        /\ UNCHANGED <<active, count>> /\ active.id \in Int /\ active.id = count.txn
        /\ marks \in [Games -> SUBSET Txn] /\ Peer \in Games
    BY <1>0, PeerFits DEF Journals, PlaceFits, ActiveFits, LegacyTypeOK, Peer, Peers
  <2>2. /\ marks' \in [Games -> SUBSET Txn] /\ active.id \in marks'[Peer]
        /\ \A g \in Games : marks[g] \subseteq marks'[g]
        /\ \A g \in Games : marks'[g] \subseteq marks[g] \cup {active.id}
    <3>1. \/ marks' = marks /\ active.id \in marks[Peer]
          \/ marks' = [marks EXCEPT ![Peer] = marks[Peer] \cup {active.id}]
      BY DEF Journals
    <3>2. marks' \in [Games -> SUBSET Txn]
      BY <1>1 DEF LegacyTypeOK
    <3> QED
      BY <2>1, <3>1, <3>2
  <2>3. CASE coord.ix = 1
    <3>1. coord'.at = "journal" /\ coord'.ix = 2
      BY <2>3 DEF Journals, Goes
    <3> QED
      BY <1>0, <2>1, <2>2, <2>3, <3>1 DEF MarksFit
  <2>4. CASE coord.ix = 2
    <3>1. coord'.at = "load" /\ coord'.ix = 1 /\ \A g \in Games : active.id \in marks'[g]
      BY <1>0, <2>1, <2>2, <2>4 DEF Journals, Goes, MarksFit, Games
    <3> QED
      BY <1>0, <2>1, <2>2, <2>4, <3>1 DEF MarksFit
  <2> QED
    BY <2>1, <2>3, <2>4
<1>5. BothOrNeither'
  BY <1>0 DEF Journals, BothOrNeither, PlaceFits, LegacyTypeOK, Games
<1> QED
  BY <1>1, <1>2, <1>3, <1>4, <1>5 DEF PairInv

LEMMA DiscardsKeeps ==
    ASSUME PairInv, Discards
    PROVE  PairInv'
<1>0. LegacyTypeOK /\ ActiveFits /\ PlaceFits /\ ThroughFits /\ QueueFits
      /\ HoldFits /\ MarksFit /\ BothOrNeither
  BY DEF PairInv
<1>1. LegacyTypeOK'
  <2>1. CoordTypes /\ GameTypes
    BY <1>0, TypesFit
  <2>2. Peer \in Games /\ coord.ix \in {1, 2} /\ active.id \in Txn
    BY <1>0, <2>1, PeerFits, BoundsAssumption DEF Discards, CoordTypes, ActiveFits, PlaceFits,
       NoTxn, Txn, Calls
  <2>3. coord' \in [at : Places, ix : 1 .. 4, reply : {"none", "waiting", "ok", "wait", "refused"}]
    BY GoesFits DEF Discards, Places, Calls
  <2>4. CoordTypes'
    BY <2>1, <2>2, <2>3 DEF CoordTypes, Discards
  <2>5. GameTypes'
    <3>1. saves[Peer] \in Seq(Saves) /\ Discarded(saves[Peer]) \in Seq(Saves)
      BY <2>1, <2>2, DiscardedFits DEF GameTypes
    <3> QED
      BY <2>1, <2>2, <3>1 DEF GameTypes, Discards
  <2> QED
    BY <2>4, <2>5, TypesFit
<1>2. ActiveFits' /\ ThroughFits' /\ HoldFits' /\ MarksFit' /\ BothOrNeither'
  BY <1>0 DEF Discards, ActiveFits, Goes, ThroughFits, Through, Ix, HoldFits, MarksFit,
     BothOrNeither
<1>3. PlaceFits'
  <2>1. coord.ix \in {1, 2} /\ active.phase = "preparing" /\ active.prepared = 2 /\ active.targets
        /\ active' = active
    BY <1>0 DEF Discards, PlaceFits, ActiveFits
  <2>2. CASE coord.ix = 1
    BY <2>1, <2>2 DEF Discards, PlaceFits, Goes, Calls
  <2>3. CASE coord.ix = 2
    BY <2>1, <2>3 DEF Discards, PlaceFits, Goes, Calls
  <2> QED
    BY <2>1, <2>2, <2>3
<1>4. QueueFits'
  BY <1>0, QueueKeeps DEF Discards, MayLinger, PlaceFits, Goes, Ix, Calls
<1> QED
  BY <1>1, <1>2, <1>3, <1>4 DEF PairInv

LEMMA WritesStatusKeeps ==
    ASSUME PairInv, WritesStatus
    PROVE  PairInv'
<1>0. LegacyTypeOK /\ ActiveFits /\ PlaceFits /\ ThroughFits /\ QueueFits
      /\ HoldFits /\ MarksFit /\ BothOrNeither
  BY DEF PairInv
<1>1. LegacyTypeOK'
  <2>1. CoordTypes /\ GameTypes
    BY <1>0, TypesFit
  <2>2. active.id \in Txn
    BY <1>0, <2>1, BoundsAssumption DEF WritesStatus, CoordTypes, ActiveFits, PlaceFits, NoTxn,
       Txn
  <2>3. coord' \in [at : Places, ix : 1 .. 4, reply : {"none", "waiting", "ok", "wait", "refused"}]
    BY GoesFits DEF WritesStatus, Places
  <2>4. CoordTypes'
    BY <2>1, <2>2, <2>3 DEF CoordTypes, WritesStatus
  <2>5. GameTypes'
    BY <2>1 DEF GameTypes, WritesStatus, gameVars
  <2> QED
    BY <2>4, <2>5, TypesFit
<1>2. ActiveFits' /\ PlaceFits' /\ ThroughFits' /\ HoldFits' /\ MarksFit'
  BY <1>0 DEF WritesStatus, ActiveFits, Goes, gameVars, PlaceFits, ThroughFits, Through,
     HoldFits,
     MarksFit
<1>3. QueueFits'
  BY <1>0, QueueKeeps DEF WritesStatus, MayLinger, PlaceFits, Calls
<1>4. BothOrNeither'
  <2>1. active.phase = "committed" => \A g \in Games : active.id \in marks[g]
    BY <1>0 DEF WritesStatus, MarksFit
  <2> QED
    BY <1>0, <2>1 DEF BothOrNeither, WritesStatus, gameVars
<1> QED
  BY <1>1, <1>2, <1>3, <1>4 DEF PairInv

LEMMA RemovesKeeps ==
    ASSUME PairInv, Removes
    PROVE  PairInv'
<1>0. LegacyTypeOK /\ ActiveFits /\ PlaceFits /\ ThroughFits /\ QueueFits
      /\ HoldFits /\ MarksFit /\ BothOrNeither
  BY DEF PairInv
<1>1. LegacyTypeOK'
  BY <1>0, GoesFits, BoundsAssumption DEF Removes, LegacyTypeOK, NoActive, NoResult, gameVars,
     Places, NoTxn
<1>2. ActiveFits' /\ PlaceFits' /\ ThroughFits' /\ MarksFit'
  BY <1>0 DEF Removes, ActiveFits, Goes, NoActive, gameVars, PlaceFits, ThroughFits, Through,
     MarksFit
<1>3. QueueFits'
  <2>1. \A g \in Games : Through(g)
    BY DEF Removes, Through
  <2> QED
    BY <1>0, <2>1, EmptyQueues DEF ThroughFits, Removes
<1>4. HoldFits'
  <2>1. \A g \in Games : Through(g)
    BY DEF Removes, Through
  <2> QED
    BY <1>0, <2>1 DEF ThroughFits, Removes, HoldFits, gameVars
<1>5. BothOrNeither'
  <2>1. active.phase = "committed" => \A g \in Games : active.id \in marks[g]
    BY <1>0 DEF Removes, MarksFit
  <2> QED
    BY <1>0, <2>1 DEF BothOrNeither, Removes, gameVars
<1> QED
  BY <1>1, <1>2, <1>3, <1>4, <1>5 DEF PairInv

LEMMA FailsKeeps ==
    ASSUME PairInv, Fails
    PROVE  PairInv'
<1>0. LegacyTypeOK /\ ActiveFits /\ PlaceFits /\ ThroughFits /\ QueueFits
      /\ HoldFits /\ MarksFit /\ BothOrNeither
  BY DEF PairInv
<1>1. LegacyTypeOK'
  <2>1. CoordTypes /\ GameTypes
    BY <1>0, TypesFit
  <2>2. coord' \in [at : Places, ix : 1 .. 4, reply : {"none", "waiting", "ok", "wait", "refused"}]
    BY GoesFits DEF Fails, Places, Recovers
  <2>3. CoordTypes'
    BY <2>1, <2>2, BoundsAssumption DEF CoordTypes, Fails, Fault
  <2>4. GameTypes'
    <3>1. ASSUME NEW g \in Games PROVE Abandoned(queue[g]) \in Seq(Commands)
      <4>1. queue[g] \in Seq(Commands)
        BY <2>1 DEF GameTypes
      <4>2. ASSUME NEW c \in Commands PROVE [c EXCEPT !.live = FALSE] \in Commands
        BY DEF Commands
      <4>3. Abandoned(queue[g]) = [i \in 1 .. Len(queue[g]) |-> [queue[g][i] EXCEPT !.live = FALSE]]
        BY <4>1 DEF Abandoned
      <4>4. \A i \in 1 .. Len(queue[g]) : queue[g][i] \in Commands
        BY <4>1
      <4>5. \A i \in 1 .. Len(queue[g]) : [queue[g][i] EXCEPT !.live = FALSE] \in Commands
        BY <4>2, <4>4
      <4>6. Len(queue[g]) \in Nat
        BY <4>1
      <4> QED
        BY <4>3, <4>5, <4>6
    <3>2. queue' = [g \in Games |-> Abandoned(queue[g])]
      BY DEF Fails
    <3>3. queue' \in [Games -> Seq(Commands)]
      BY <3>1, <3>2
    <3> QED
      BY <2>1, <3>3 DEF GameTypes, Fails, gameVars
  <2> QED
    BY <2>3, <2>4, TypesFit
<1>2. ActiveFits' /\ PlaceFits' /\ ThroughFits' /\ HoldFits' /\ MarksFit' /\ BothOrNeither'
  BY <1>0 DEF Fails, ActiveFits, Fault, Recovers, Abandoned, gameVars, Goes, PlaceFits,
     ThroughFits, Through, HoldFits, MarksFit, BothOrNeither
<1>3. QueueFits'
  BY <1>0 DEF Fails, QueueFits, PlaceFits, Recovers, Abandoned, CommandFits, Goes, MayLinger
<1> QED
  BY <1>1, <1>2, <1>3 DEF PairInv

LEMMA AutosaveKeeps ==
    ASSUME PairInv, NEW g \in Games, Autosave(g)
    PROVE  PairInv'
<1>0. LegacyTypeOK /\ ActiveFits /\ PlaceFits /\ ThroughFits /\ QueueFits
      /\ HoldFits /\ MarksFit /\ BothOrNeither
  BY DEF PairInv
<1>1. LegacyTypeOK'
  <2>1. CoordTypes /\ GameTypes /\ Saved(g) \in Seq(Saves)
    BY <1>0, TypesFit, SavedFits
  <2>2. CoordTypes'
    BY <2>1 DEF CoordTypes, Autosave, coordVars
  <2>3. GameTypes'
    BY <2>1 DEF GameTypes, Autosave
  <2> QED
    BY <2>2, <2>3, TypesFit
<1>2. ActiveFits' /\ PlaceFits' /\ ThroughFits' /\ QueueFits' /\ HoldFits' /\ MarksFit' /\ BothOrNeither'
  BY <1>0 DEF Autosave, ActiveFits, coordVars, PlaceFits, ThroughFits, Through, QueueFits,
     CommandFits, Peer, MayLinger, HoldFits, MarksFit, BothOrNeither
<1> QED
  BY <1>1, <1>2 DEF PairInv

LEMMA RewindKeeps ==
    ASSUME PairInv, NEW g \in Games, Rewind(g)
    PROVE  PairInv'
<1>0. LegacyTypeOK /\ ActiveFits /\ PlaceFits /\ ThroughFits /\ QueueFits
      /\ HoldFits /\ MarksFit /\ BothOrNeither
  BY DEF PairInv
<1>1. LegacyTypeOK'
  <2>1. CoordTypes /\ GameTypes
    BY <1>0, TypesFit
  <2>2. \A i \in DOMAIN saves[g] : saves[g][i].inv \in SUBSET Txn
    <3>1. saves[g] \in Seq(Saves)
      BY <2>1 DEF GameTypes
    <3>2. \A i \in DOMAIN saves[g] : saves[g][i] \in Saves
      BY <3>1
    <3> QED
      BY <3>2 DEF Saves
  <2>3. CoordTypes'
    BY <2>1 DEF CoordTypes, Rewind, coordVars
  <2>4. inv' \in [Games -> SUBSET Txn]
    BY <2>1, <2>2 DEF GameTypes, Rewind
  <2>5. GameTypes'
    BY <2>1, <2>4 DEF GameTypes, Rewind
  <2> QED
    BY <2>3, <2>5, TypesFit
<1>2. ActiveFits' /\ PlaceFits' /\ ThroughFits' /\ QueueFits' /\ HoldFits' /\ MarksFit' /\ BothOrNeither'
  BY <1>0 DEF Rewind, ActiveFits, coordVars, PlaceFits, ThroughFits, Through, QueueFits,
     CommandFits, Peer, MayLinger, HoldFits, MarksFit, BothOrNeither
<1> QED
  BY <1>1, <1>2 DEF PairInv

LEMMA NewRunKeeps ==
    ASSUME PairInv, NEW g \in Games, NewRun(g)
    PROVE  PairInv'
<1>0. LegacyTypeOK /\ ActiveFits /\ PlaceFits /\ ThroughFits /\ QueueFits
      /\ HoldFits /\ MarksFit /\ BothOrNeither
  BY DEF PairInv
<1>1. LegacyTypeOK'
  BY <1>0 DEF NewRun, LegacyTypeOK, Playing, coordVars, Holds, NoHold
<1>2. ActiveFits'
  BY <1>0 DEF NewRun, ActiveFits, coordVars
<1>3. PlaceFits'
  BY <1>0 DEF NewRun, PlaceFits, coordVars
<1>4. ThroughFits'
  BY <1>0 DEF NewRun, ThroughFits, coordVars, Through
<1>5. QueueFits'
  BY <1>0 DEF NewRun, QueueFits, coordVars, CommandFits, Peer, MayLinger
<1>6. HoldFits'
  BY <1>0 DEF NewRun, HoldFits, coordVars
<1>7. MarksFit'
  BY <1>0 DEF NewRun, MarksFit, coordVars
<1>8. BothOrNeither'
  BY <1>0 DEF NewRun, BothOrNeither, coordVars
<1> QED
  BY <1>1, <1>2, <1>3, <1>4, <1>5, <1>6, <1>7, <1>8 DEF PairInv

LEMMA PreparesKeeps ==
    ASSUME PairInv, NEW g \in Games, Prepares(g)
    PROVE  PairInv'
<1>0. /\ LegacyTypeOK /\ QueueFits /\ HoldFits /\ ThroughFits
      /\ queue[g] # <<>> /\ Answers(g, "ok") /\ UNCHANGED <<marks, count>>
  BY DEF PairInv, Prepares, Takes
<1>1. /\ Command(g) \in Commands /\ CommandFits(g, Command(g)) /\ Command(g).id = active.id
      /\ coord' \in [at : Places, ix : 1 .. 4, reply : {"none", "waiting", "ok", "wait", "refused"}]
      /\ queue' \in [Games -> Seq(Commands)] /\ UNCHANGED <<active, result, completed>>
      /\ Ix(g) <= active.prepared
  <2>1. ~Through(g) /\ active.prepared \in Int /\ Ix(g) \in Int
    BY <1>0 DEF ThroughFits, LegacyTypeOK, Ix
  <2> QED
    BY <1>0, <2>1, AnswersMoves, CoordFits DEF CommandFits, Through
<1>2. /\ LegacyTypeOK'
      /\ \A h \in Games : h # g => hold'[h] = hold[h]
      /\ hold'[g] = NoHold \/ (hold'[g].id = active.id /\ Ix(g) <= active.prepared)
      /\ Command(g).action \in {"abort", "release"} /\ "ok" = "ok" => hold'[g] = NoHold
      /\ "ok" = "wait" => Command(g).action = "prepare"
  <2>1. Last(Saved(g)) \in Saves /\ Saved(g) \in Seq(Saves)
    BY <1>0, SavedFits, NewSaveFits
  <2>2. CASE hold[g].source # NoSave
    <3>1. hold' = hold /\ saves' = saves
      BY <2>2 DEF Prepares
    <3>2. hold[g] # NoHold
      BY <2>2 DEF NoHold
    <3> QED
      BY <1>0, <1>1, <3>1, <3>2 DEF Prepares, Takes, LegacyTypeOK, HoldFits
  <2>3. CASE hold[g].source = NoSave
    <3> DEFINE new == [id |-> Command(g).id, phase |-> "prepared", source |-> Last(Saved(g))]
    <3>1. hold' = [hold EXCEPT ![g] = new] /\ saves' = [saves EXCEPT ![g] = Saved(g)]
      BY <2>3 DEF Prepares
    <3>2. new \in Holds /\ new.id = active.id
      BY <1>1, <2>1, BoundsAssumption DEF Holds, Commands, Txn
    <3> HIDE DEF new
    <3> QED
      BY <1>0, <1>1, <2>1, <3>1, <3>2 DEF Prepares, Takes, LegacyTypeOK
  <2> QED
    BY <2>2, <2>3
<1>3. ActiveFits' /\ PlaceFits' /\ ThroughFits' /\ QueueFits' /\ HoldFits' /\ MarksFit' /\ BothOrNeither'
  BY <1>0, <1>2, AnswersKeep
<1> QED
  BY <1>2, <1>3 DEF PairInv

LEMMA PrepareWaitsKeeps ==
    ASSUME PairInv, NEW g \in Games, PrepareWaits(g)
    PROVE  PairInv'
<1>0. /\ LegacyTypeOK /\ QueueFits /\ HoldFits /\ ThroughFits
      /\ queue[g] # <<>> /\ Answers(g, "wait") /\ UNCHANGED <<marks, count>>
  BY DEF PairInv, PrepareWaits, gameVars, Takes
<1>1. /\ Command(g) \in Commands /\ CommandFits(g, Command(g)) /\ Command(g).id = active.id
      /\ coord' \in [at : Places, ix : 1 .. 4, reply : {"none", "waiting", "ok", "wait", "refused"}]
      /\ queue' \in [Games -> Seq(Commands)] /\ UNCHANGED <<active, result, completed>>
      /\ Ix(g) <= active.prepared
  <2>1. ~Through(g) /\ active.prepared \in Int /\ Ix(g) \in Int
    BY <1>0 DEF ThroughFits, LegacyTypeOK, Ix
  <2> QED
    BY <1>0, <2>1, AnswersMoves, CoordFits DEF CommandFits, Through
<1>2. /\ LegacyTypeOK'
      /\ \A h \in Games : h # g => hold'[h] = hold[h]
      /\ hold'[g] = NoHold \/ (hold'[g].id = active.id /\ Ix(g) <= active.prepared)
      /\ Command(g).action \in {"abort", "release"} /\ "wait" = "ok" => hold'[g] = NoHold
      /\ "wait" = "wait" => Command(g).action = "prepare"
  BY <1>0, <1>1 DEF PrepareWaits, Takes, gameVars, HoldFits, LegacyTypeOK
<1>3. ActiveFits' /\ PlaceFits' /\ ThroughFits' /\ QueueFits' /\ HoldFits' /\ MarksFit' /\ BothOrNeither'
  BY <1>0, <1>2, AnswersKeep
<1> QED
  BY <1>2, <1>3 DEF PairInv

LEMMA ReleasedBeforeKeeps ==
    ASSUME PairInv, NEW g \in Games, ReleasedBefore(g)
    PROVE  PairInv'
<1>0. /\ LegacyTypeOK /\ QueueFits /\ HoldFits /\ ThroughFits
      /\ queue[g] # <<>> /\ Answers(g, "ok") /\ UNCHANGED <<marks, count>>
  BY DEF PairInv, ReleasedBefore, gameVars, Takes
<1>1. /\ Command(g) \in Commands /\ CommandFits(g, Command(g)) /\ Command(g).id = active.id
      /\ coord' \in [at : Places, ix : 1 .. 4, reply : {"none", "waiting", "ok", "wait", "refused"}]
      /\ queue' \in [Games -> Seq(Commands)] /\ UNCHANGED <<active, result, completed>>
      /\ Ix(g) <= active.prepared
  <2>1. ~Through(g) /\ active.prepared \in Int /\ Ix(g) \in Int
    BY <1>0 DEF ThroughFits, LegacyTypeOK, Ix
  <2> QED
    BY <1>0, <2>1, AnswersMoves, CoordFits DEF CommandFits, Through
<1>2. /\ LegacyTypeOK'
      /\ \A h \in Games : h # g => hold'[h] = hold[h]
      /\ hold'[g] = NoHold \/ (hold'[g].id = active.id /\ Ix(g) <= active.prepared)
      /\ Command(g).action \in {"abort", "release"} /\ "ok" = "ok" => hold'[g] = NoHold
      /\ "ok" = "wait" => Command(g).action = "prepare"
  BY <1>0, <1>1 DEF ReleasedBefore, Takes, gameVars, HoldFits, LegacyTypeOK
<1>3. ActiveFits' /\ PlaceFits' /\ ThroughFits' /\ QueueFits' /\ HoldFits' /\ MarksFit' /\ BothOrNeither'
  BY <1>0, <1>2, AnswersKeep
<1> QED
  BY <1>2, <1>3 DEF PairInv

LEMMA LoadsOutputKeeps ==
    ASSUME PairInv, NEW g \in Games, LoadsOutput(g)
    PROVE  PairInv'
<1>0. /\ LegacyTypeOK /\ QueueFits /\ HoldFits /\ ThroughFits
      /\ queue[g] # <<>> /\ Answers(g, "ok") /\ UNCHANGED <<marks, count>>
  BY DEF PairInv, LoadsOutput, Takes
<1>1. /\ Command(g) \in Commands /\ CommandFits(g, Command(g)) /\ Command(g).id = active.id
      /\ coord' \in [at : Places, ix : 1 .. 4, reply : {"none", "waiting", "ok", "wait", "refused"}]
      /\ queue' \in [Games -> Seq(Commands)] /\ UNCHANGED <<active, result, completed>>
      /\ Ix(g) <= active.prepared
  <2>1. ~Through(g) /\ active.prepared \in Int /\ Ix(g) \in Int
    BY <1>0 DEF ThroughFits, LegacyTypeOK, Ix
  <2> QED
    BY <1>0, <2>1, AnswersMoves, CoordFits DEF CommandFits, Through
<1>2. /\ LegacyTypeOK'
      /\ \A h \in Games : h # g => hold'[h] = hold[h]
      /\ hold'[g] = NoHold \/ (hold'[g].id = active.id /\ Ix(g) <= active.prepared)
      /\ Command(g).action \in {"abort", "release"} /\ "ok" = "ok" => hold'[g] = NoHold
      /\ "ok" = "wait" => Command(g).action = "prepare"
  <2>1. hold[g] # NoHold /\ hold[g] \in Holds /\ hold[g].id = active.id
    BY <1>0 DEF LoadsOutput, HoldFits, LegacyTypeOK
  <2>2. CASE hold[g].phase = "loaded" /\ UNCHANGED <<inv, hold>>
    BY <1>0, <1>1, <2>1, <2>2 DEF LoadsOutput, Takes, HoldFits, LegacyTypeOK
  <2>3. CASE /\ \E i \in Outputs(g) : inv' = [inv EXCEPT ![g] = saves[g][i].inv]
             /\ hold' = [hold EXCEPT ![g].phase = "loaded"]
    <3>1. PICK i \in DOMAIN saves[g] : inv' = [inv EXCEPT ![g] = saves[g][i].inv]
      BY <2>3 DEF Outputs
    <3>2. saves[g][i] \in Saves
      BY <1>0 DEF LegacyTypeOK
    <3>3. inv' \in [Games -> SUBSET Txn]
      BY <1>0, <3>1, <3>2 DEF LegacyTypeOK, Saves
    <3>4. hold' \in [Games -> Holds] /\ hold'[g].id = active.id /\ \A h \in Games : h # g => hold'[h] = hold[h]
      BY <1>0, <2>1, <2>3 DEF LegacyTypeOK, Holds
    <3> QED
      BY <1>0, <1>1, <2>1, <3>3, <3>4 DEF LoadsOutput, LegacyTypeOK, HoldFits, Takes
  <2> QED
    BY <2>2, <2>3 DEF LoadsOutput
<1>3. ActiveFits' /\ PlaceFits' /\ ThroughFits' /\ QueueFits' /\ HoldFits' /\ MarksFit' /\ BothOrNeither'
  BY <1>0, <1>2, AnswersKeep
<1> QED
  BY <1>2, <1>3 DEF PairInv

LEMMA ReleasesKeeps ==
    ASSUME PairInv, NEW g \in Games, Releases(g)
    PROVE  PairInv'
<1>0. /\ LegacyTypeOK /\ QueueFits /\ HoldFits /\ ThroughFits
      /\ queue[g] # <<>> /\ Answers(g, "ok") /\ UNCHANGED <<marks, count>>
  BY DEF PairInv, Releases, Takes
<1>1. /\ Command(g) \in Commands /\ CommandFits(g, Command(g)) /\ Command(g).id = active.id
      /\ coord' \in [at : Places, ix : 1 .. 4, reply : {"none", "waiting", "ok", "wait", "refused"}]
      /\ queue' \in [Games -> Seq(Commands)] /\ UNCHANGED <<active, result, completed>>
      /\ Ix(g) <= active.prepared
  <2>1. ~Through(g) /\ active.prepared \in Int /\ Ix(g) \in Int
    BY <1>0 DEF ThroughFits, LegacyTypeOK, Ix
  <2> QED
    BY <1>0, <2>1, AnswersMoves, CoordFits DEF CommandFits, Through
<1>2. /\ LegacyTypeOK'
      /\ \A h \in Games : h # g => hold'[h] = hold[h]
      /\ hold'[g] = NoHold \/ (hold'[g].id = active.id /\ Ix(g) <= active.prepared)
      /\ Command(g).action \in {"abort", "release"} /\ "ok" = "ok" => hold'[g] = NoHold
      /\ "ok" = "wait" => Command(g).action = "prepare"
  BY <1>0, <1>1, NoHoldFits DEF Releases, LegacyTypeOK
<1>3. ActiveFits' /\ PlaceFits' /\ ThroughFits' /\ QueueFits' /\ HoldFits' /\ MarksFit' /\ BothOrNeither'
  BY <1>0, <1>2, AnswersKeep
<1> QED
  BY <1>2, <1>3 DEF PairInv

LEMMA AbortsKeeps ==
    ASSUME PairInv, NEW g \in Games, Aborts(g)
    PROVE  PairInv'
<1>0. /\ LegacyTypeOK /\ QueueFits /\ HoldFits /\ ThroughFits
      /\ queue[g] # <<>> /\ Answers(g, "ok") /\ UNCHANGED <<marks, count>>
  BY DEF PairInv, Aborts, Takes
<1>1. /\ Command(g) \in Commands /\ CommandFits(g, Command(g)) /\ Command(g).id = active.id
      /\ coord' \in [at : Places, ix : 1 .. 4, reply : {"none", "waiting", "ok", "wait", "refused"}]
      /\ queue' \in [Games -> Seq(Commands)] /\ UNCHANGED <<active, result, completed>>
      /\ Ix(g) <= active.prepared
  <2>1. ~Through(g) /\ active.prepared \in Int /\ Ix(g) \in Int
    BY <1>0 DEF ThroughFits, LegacyTypeOK, Ix
  <2> QED
    BY <1>0, <2>1, AnswersMoves, CoordFits DEF CommandFits, Through
<1>2. /\ LegacyTypeOK'
      /\ \A h \in Games : h # g => hold'[h] = hold[h]
      /\ hold'[g] = NoHold \/ (hold'[g].id = active.id /\ Ix(g) <= active.prepared)
      /\ Command(g).action \in {"abort", "release"} /\ "ok" = "ok" => hold'[g] = NoHold
      /\ "ok" = "wait" => Command(g).action = "prepare"
  <2>1. saves[g] # <<>> => SourceOf(g) \in Saves
    BY <1>0, FrontFits DEF LegacyTypeOK, SourceOf, Holds
  <2>2. inv' \in [Games -> SUBSET Txn]
    <3>1. CASE saves[g] = <<>>
      BY <1>0, <3>1 DEF Aborts, LegacyTypeOK
    <3>2. CASE saves[g] # <<>>
      <4>1. SourceOf(g).inv \in SUBSET Txn
        BY <2>1, <3>2 DEF Saves
      <4> QED
        BY <1>0, <3>2, <4>1 DEF Aborts, LegacyTypeOK
    <3> QED
      BY <3>1, <3>2
  <2> QED
    BY <1>0, <1>1, <2>2, NoHoldFits DEF Aborts, LegacyTypeOK
<1>3. ActiveFits' /\ PlaceFits' /\ ThroughFits' /\ QueueFits' /\ HoldFits' /\ MarksFit' /\ BothOrNeither'
  BY <1>0, <1>2, AnswersKeep
<1> QED
  BY <1>2, <1>3 DEF PairInv

LEMMA RefusesKeeps ==
    ASSUME PairInv, NEW g \in Games, Refuses(g)
    PROVE  PairInv'
<1>0. /\ LegacyTypeOK /\ QueueFits /\ HoldFits /\ ThroughFits
      /\ queue[g] # <<>> /\ Answers(g, "refused") /\ UNCHANGED <<marks, count>>
  BY DEF PairInv, Refuses, gameVars, Takes
<1>1. /\ Command(g) \in Commands /\ CommandFits(g, Command(g)) /\ Command(g).id = active.id
      /\ coord' \in [at : Places, ix : 1 .. 4, reply : {"none", "waiting", "ok", "wait", "refused"}]
      /\ queue' \in [Games -> Seq(Commands)] /\ UNCHANGED <<active, result, completed>>
      /\ Ix(g) <= active.prepared
  <2>1. ~Through(g) /\ active.prepared \in Int /\ Ix(g) \in Int
    BY <1>0 DEF ThroughFits, LegacyTypeOK, Ix
  <2> QED
    BY <1>0, <2>1, AnswersMoves, CoordFits DEF CommandFits, Through
<1>2. /\ LegacyTypeOK'
      /\ \A h \in Games : h # g => hold'[h] = hold[h]
      /\ hold'[g] = NoHold \/ (hold'[g].id = active.id /\ Ix(g) <= active.prepared)
      /\ Command(g).action \in {"abort", "release"} /\ "refused" = "ok" => hold'[g] = NoHold
      /\ "refused" = "wait" => Command(g).action = "prepare"
  BY <1>0, <1>1 DEF Refuses, gameVars, HoldFits, LegacyTypeOK
<1>3. ActiveFits' /\ PlaceFits' /\ ThroughFits' /\ QueueFits' /\ HoldFits' /\ MarksFit' /\ BothOrNeither'
  BY <1>0, <1>2, AnswersKeep
<1> QED
  BY <1>2, <1>3 DEF PairInv

LEMMA PrepareCutOffKeeps ==
    ASSUME PairInv, NEW g \in Games, PrepareCutOff(g)
    PROVE  PairInv'
<1> DEFINE new == [id |-> Command(g).id, phase |-> "preparing", source |-> NoSave]
<1>0. /\ LegacyTypeOK /\ QueueFits /\ HoldFits /\ ThroughFits /\ CoordTypes /\ GameTypes
      /\ queue[g] # <<>> /\ Command(g).action = "prepare" /\ UNCHANGED <<inv, barrier, marks, receipts>>
      /\ hold' = [hold EXCEPT ![g] = new] /\ Fault
  BY TypesFit DEF PairInv, PrepareCutOff, Takes
<1>1. /\ Command(g) \in Commands /\ CommandFits(g, Command(g)) /\ Command(g).id = active.id
      /\ ~Through(g) /\ Ix(g) <= active.prepared
  <2>1. queue[g] \in Seq(Commands) /\ Command(g) = queue[g][1] /\ 1 \in DOMAIN queue[g]
    BY <1>0 DEF GameTypes, Command
  <2>2. ~Through(g) /\ active.prepared \in Int /\ Ix(g) \in Int
    BY <1>0 DEF ThroughFits, LegacyTypeOK, Ix
  <2> QED
    BY <1>0, <2>1, <2>2 DEF QueueFits, CommandFits, Through
<1>2. new = [id |-> active.id, phase |-> "preparing", source |-> NoSave] /\ new \in Holds
  <2>1. new = [id |-> active.id, phase |-> "preparing", source |-> NoSave]
    BY <1>1
  <2>2. active.id \in 0 .. N
    BY <1>0 DEF CoordTypes
  <2> QED
    BY <2>1, <2>2, NoHoldFits DEF Holds
<1> HIDE DEF new
<1>3. /\ hold' \in [Games -> Holds] /\ hold'[g] = new /\ \A h \in Games : h # g => hold'[h] = hold[h]
      /\ hold'[g].id = active.id /\ Ix(g) <= active.prepared
  BY <1>0, <1>1, <1>2 DEF GameTypes
<1>4. count' \in [txn : 0 .. N, faults : 0 .. MaxFaults] /\ count'.txn = count.txn
  BY <1>0, BoundsAssumption DEF CoordTypes, Fault
<1>5. CASE Answers(g, "refused") /\ UNCHANGED <<saves, up>>
  <2>1. LegacyTypeOK'
    <3>1. CoordTypes' /\ queue' \in [Games -> Seq(Commands)]
      BY <1>0, <1>4, <1>5, CoordFits DEF CoordTypes
    <3>2. GameTypes'
      BY <1>0, <1>3, <1>5, <3>1 DEF GameTypes
    <3> QED
      BY <3>1, <3>2, TypesFit
  <2>2. ActiveFits' /\ PlaceFits' /\ ThroughFits' /\ QueueFits' /\ HoldFits' /\ MarksFit' /\ BothOrNeither'
    BY <1>0, <1>3, <1>4, <1>5, AnswersKeep
  <2> QED
    BY <2>1, <2>2 DEF PairInv
<1>6. CASE /\ Down(g)
           /\ saves' \in {saves, [saves EXCEPT ![g] = Append(@, NewSave(g, FALSE))],
                          [saves EXCEPT ![g] = Saved(g)]}
  <2>1. LegacyTypeOK'
    <3>1. CoordTypes'
      BY <1>0, <1>4, <1>6 DEF CoordTypes, Down
    <3>2. saves' \in [Games -> Seq(Saves)]
      <4>1. NewSave(g, FALSE) \in Saves /\ saves[g] \in Seq(Saves) /\ Saved(g) \in Seq(Saves)
        BY <1>0, NewSaveFits, SavedFits
      <4>2. Append(saves[g], NewSave(g, FALSE)) \in Seq(Saves)
        BY <4>1, AppendFits
      <4> QED
        BY <1>0, <1>6, <4>1, <4>2 DEF GameTypes
    <3>3. GameTypes'
      <4>1. up' \in [Games -> BOOLEAN]
        BY <1>0, <1>6 DEF GameTypes, Down
      <4>2. queue' \in [Games -> Seq(Commands)]
        BY <1>0, <1>6, DownTypes DEF GameTypes
      <4> QED
        BY <1>0, <1>3, <1>6, <3>2, <4>1, <4>2 DEF GameTypes
    <3> QED
      BY <3>1, <3>3, TypesFit
  <2>2. PlaceFits' /\ ThroughFits' /\ QueueFits'
    BY <1>1, <1>3, <1>6, DownKeeps
  <2>3. active' = active /\ coord'.at = coord.at /\ coord'.ix = coord.ix
        /\ UNCHANGED <<result, completed, marks>>
    BY <1>0, <1>6, DownFits DEF Down
  <2>4. ActiveFits' /\ MarksFit' /\ BothOrNeither'
    BY <1>4, <2>3 DEF PairInv, ActiveFits, MarksFit, BothOrNeither
  <2>5. HoldFits'
    BY <1>0, <1>3, <2>3 DEF HoldFits
  <2> QED
    BY <2>1, <2>2, <2>4, <2>5 DEF PairInv
<1> QED
  BY <1>5, <1>6 DEF PrepareCutOff

LEMMA DiesKeeps ==
    ASSUME PairInv, NEW g \in Games, Dies(g)
    PROVE  PairInv'
<1>0. LegacyTypeOK /\ ActiveFits /\ PlaceFits /\ ThroughFits /\ QueueFits
      /\ HoldFits /\ MarksFit /\ BothOrNeither
  BY DEF PairInv
<1>1. LegacyTypeOK'
  <2>1. CoordTypes /\ GameTypes /\ NewSave(g, FALSE) \in Saves /\ saves[g] \in Seq(Saves)
    BY <1>0, TypesFit, NewSaveFits
  <2>2. CoordTypes'
    BY <2>1, BoundsAssumption DEF CoordTypes, Dies, Fault, Down
  <2>3. Append(saves[g], NewSave(g, FALSE)) \in Seq(Saves)
    BY <2>1, AppendFits
  <2>4. GameTypes'
    <3>1. saves' \in [Games -> Seq(Saves)]
      BY <2>1, <2>3 DEF GameTypes, Dies
    <3>2. up' \in [Games -> BOOLEAN]
      BY <2>1 DEF GameTypes, Dies, Down
    <3>3. queue' \in [Games -> Seq(Commands)]
      BY <2>1, DownTypes DEF GameTypes, Dies
    <3> QED
      BY <2>1, <3>1, <3>2, <3>3 DEF GameTypes, Dies
  <2> QED
    BY <2>2, <2>4, TypesFit
<1>2. ActiveFits' /\ HoldFits' /\ MarksFit' /\ BothOrNeither'
  BY <1>0 DEF Dies, ActiveFits, Fault, Down, HoldFits, MarksFit, BothOrNeither
<1>3. PlaceFits'
  BY <1>0, DownFits DEF Dies, PlaceFits
<1>4. ThroughFits'
  BY <1>0, DownKeeps DEF Dies
<1>5. QueueFits'
  BY <1>0, DownKeeps DEF Dies
<1> QED
  BY <1>1, <1>2, <1>3, <1>4, <1>5 DEF PairInv

LEMMA StartsKeeps ==
    ASSUME PairInv, NEW g \in Games, Starts(g)
    PROVE  PairInv'
<1>0. LegacyTypeOK /\ ActiveFits /\ PlaceFits /\ ThroughFits /\ QueueFits
      /\ HoldFits /\ MarksFit /\ BothOrNeither
  BY DEF PairInv
<1>1. LegacyTypeOK'
  <2>1. CoordTypes /\ GameTypes
    BY <1>0, TypesFit
  <2>2. \A i \in DOMAIN saves[g] : saves[g][i].inv \in SUBSET Txn
    <3>1. saves[g] \in Seq(Saves)
      BY <2>1 DEF GameTypes
    <3>2. \A i \in DOMAIN saves[g] : saves[g][i] \in Saves
      BY <3>1
    <3> QED
      BY <3>2 DEF Saves
  <2>3. CoordTypes'
    BY <2>1 DEF CoordTypes, Starts, coordVars
  <2>4. inv' \in [Games -> SUBSET Txn]
    BY <2>1, <2>2 DEF GameTypes, Starts
  <2>5. GameTypes'
    BY <2>1, <2>4 DEF GameTypes, Starts
  <2> QED
    BY <2>3, <2>5, TypesFit
<1>2. ActiveFits' /\ PlaceFits' /\ ThroughFits' /\ QueueFits' /\ HoldFits' /\ MarksFit' /\ BothOrNeither'
  BY <1>0 DEF Starts, ActiveFits, coordVars, PlaceFits, ThroughFits, Through, QueueFits,
     CommandFits, Peer, MayLinger, HoldFits, MarksFit, BothOrNeither
<1> QED
  BY <1>1, <1>2 DEF PairInv

LEMMA InitPairs == LegacyInit => PairInv
<1> SUFFICES ASSUME LegacyInit PROVE PairInv
  OBVIOUS
<1>1. 0 \in 0 .. N /\ 0 \in 0 .. MaxFaults /\ 1 \in 1 .. 4
  BY BoundsAssumption
<1>2. coord = [at |-> "idle", ix |-> 1, reply |-> "none"] /\ active = NoActive /\ result = NoResult
      /\ completed = {} /\ count = [txn |-> 0, faults |-> 0]
      /\ marks = [g \in Games |-> {}] /\ queue = [g \in Games |-> <<>>] /\ hold = [g \in Games |-> NoHold]
  BY DEF LegacyInit
<1>3. CoordTypes
  BY <1>1, <1>2 DEF CoordTypes, NoActive, NoResult, NoTxn, Places
<1>4. GameTypes
  <2>1. [name |-> NoTxn, whole |-> TRUE, tag |-> NoTxn, inv |-> {}] \in Saves
    BY <1>1 DEF Saves, NoTxn
  <2>2. <<[name |-> NoTxn, whole |-> TRUE, tag |-> NoTxn, inv |-> {}]>> \in Seq(Saves) /\ <<>> \in Seq(Commands)
    BY <2>1
  <2> QED
    BY <1>1, <2>2, NoHoldFits DEF GameTypes, LegacyInit, NoTxn
<1>5. ActiveFits /\ PlaceFits /\ QueueFits /\ HoldFits /\ MarksFit /\ BothOrNeither
  BY <1>2 DEF ActiveFits, PlaceFits, QueueFits, HoldFits, MarksFit, BothOrNeither, NoActive,
     NoTxn, Calls
<1>6. ThroughFits
  BY <1>2 DEF ThroughFits
<1> QED
  BY <1>3, <1>4, <1>5, <1>6, TypesFit DEF PairInv

LEMMA StepPairs == PairInv /\ [LegacyNext]_vars => PairInv'
<1> SUFFICES ASSUME PairInv, [LegacyNext]_vars PROVE PairInv'
  OBVIOUS
<1>1. ASSUME CoordinatorStep PROVE PairInv'
  BY <1>1, BeginsKeeps, ResumesKeeps, NamesKeeps, AsksKeeps, RequestFailsKeeps, AnsweredKeeps,
     AsksAgainKeeps, GivesUpKeeps, StagesKeeps, TargetsKeeps, PublishesKeeps, DecidesKeeps,
     JournalsKeeps, DiscardsKeeps, WritesStatusKeeps, RemovesKeeps DEF CoordinatorStep
<1>2. ASSUME NEW g \in Games, Handles(g) PROVE PairInv'
  BY <1>2, PreparesKeeps, PrepareWaitsKeeps, ReleasedBeforeKeeps, LoadsOutputKeeps,
     ReleasesKeeps, AbortsKeeps, RefusesKeeps DEF Handles
<1>3. ASSUME NEW g \in Games, Autosave(g) \/ Rewind(g) \/ NewRun(g) \/ PrepareCutOff(g) \/ Dies(g) \/ Starts(g)
      PROVE  PairInv'
  BY <1>3, AutosaveKeeps, RewindKeeps, NewRunKeeps, PrepareCutOffKeeps, DiesKeeps, StartsKeeps
<1>4. CASE UNCHANGED vars
  BY <1>4 DEF vars, coordVars, gameVars, PairInv, LegacyTypeOK, ActiveFits, PlaceFits,
     ThroughFits,
     Through, QueueFits, CommandFits, MayLinger, Peer, HoldFits, MarksFit, BothOrNeither
<1> QED
  BY <1>1, <1>2, <1>3, <1>4, FailsKeeps DEF LegacyNext

------------------------------------------------------------------------------
(* The theorems. *)

\* The inductive invariant of the pair coordinator: the coordinator's place, its
\* requests still in a game's queue and the holds agree with active.json.
THEOREM PairsFit == LegacySpec => []PairInv
BY InitPairs, StepPairs, PTL DEF LegacySpec

\* Records, places and queues have their types, in service.py and in the games.
THEOREM LegacyTypeCorrect == LegacySpec => []LegacyTypeOK
<1>1. PairInv => LegacyTypeOK
  BY DEF PairInv
<1> QED
  BY <1>1, PairsFit, PTL

\* The journals of the two games and status.json never disagree about an exchange
\* unless active.json says "committed" and the coordinator is at work on it.
THEOREM BothJournalsOrNeither == LegacySpec => []BothOrNeither
<1>1. PairInv => BothOrNeither
  BY DEF PairInv
<1> QED
  BY <1>1, PairsFit, PTL

\* A held game is one that active.json names: Coordinator.finish will abort or
\* release it, whichever crash, timeout or late request led there.
THEOREM HoldsAreNamed == LegacySpec => []NoOrphanHold
<1>1. PairInv => NoOrphanHold
  <2> SUFFICES ASSUME PairInv, NEW g \in Games, hold[g] # NoHold
               PROVE  active.id = hold[g].id /\ \E i \in 1 .. active.prepared : Peers[i] = g
    BY DEF NoOrphanHold
  <2>1. hold[g].id = active.id /\ Ix(g) <= active.prepared /\ active.prepared \in 0 .. 2
    BY DEF PairInv, HoldFits, LegacyTypeOK
  <2>2. Peers[Ix(g)] = g /\ Ix(g) \in 1 .. active.prepared
    BY <2>1 DEF Peers, Ix, Games
  <2> QED
    BY <2>1, <2>2
<1> QED
  BY <1>1, PairsFit, PTL
==============================================================================
