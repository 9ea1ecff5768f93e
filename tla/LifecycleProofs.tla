--------------------------- MODULE LifecycleProofs ---------------------------
(* What is proved of Lifecycle for every value of its bounds. *)
EXTENDS Lifecycle, TLAPS

------------------------------------------------------------------------------
(* Types. *)

LEMMA FaultTyped ==
    ASSUME LifecycleTypeOK, NEW kind \in FailureKinds, Fault(kind)
    PROVE  /\ history' \in Histories
           /\ history'.ends <= history'.faults /\ history'.wishes = history.wishes
<1>1. /\ history \in Histories
      /\ history.ends \in Nat /\ history.faults \in Nat
      /\ history.ends <= history.faults /\ history.faults < MaxFaults
  BY DEF Fault, LifecycleTypeOK, Histories
<1>2. history.faults + 1 \in 0 .. MaxFaults /\ history.ends + 1 \in 0 .. MaxFaults
  BY <1>1, BoundsAssumption
<1>3. PICK e \in {history.ends, history.ends + 1} :
        history' = [history EXCEPT !.faults = @ + 1, !.ends = e]
  BY <1>1 DEF Fault, Histories
<1>4. history.ends \in 0 .. MaxFaults /\ history.ends <= history.faults + 1
  BY <1>1, BoundsAssumption
<1>5. e \in 0 .. MaxFaults /\ e <= history.faults + 1
  BY <1>1, <1>2, <1>3, <1>4
<1> QED
  BY <1>1, <1>2, <1>3, <1>5 DEF Histories

\* What a failure, a request and an edit leave of the history.
LEMMA FaultRemembers ==
    ASSUME LifecycleTypeOK, NEW kind \in FailureKinds, Fault(kind)
    PROVE  /\ history'.wish = history.wish /\ history'.revived = history.revived
           /\ history'.slips = history.slips /\ history'.trades = history.trades
<1>1. history \in Histories
  BY DEF LifecycleTypeOK
<1>2. PICK e \in {history.ends, history.ends + 1} :
        history' = [history EXCEPT !.faults = @ + 1, !.ends = e]
  BY <1>1 DEF Fault, Histories
<1> QED
  BY <1>1, <1>2 DEF Histories

LEMMA RequestRemembers ==
    ASSUME LifecycleTypeOK, NEW w \in Requests, history.wishes < MaxWishes,
           history' = [history EXCEPT !.wishes = @ + 1, !.wish = w]
    PROVE  /\ history' \in Histories /\ history'.wishes = history.wishes + 1
           /\ history'.ends = history.ends /\ history'.faults = history.faults
           /\ history'.wish = w /\ history'.revived = history.revived
           /\ history'.slips = history.slips /\ history'.trades = history.trades
<1>1. history \in Histories
  BY DEF LifecycleTypeOK
<1>2. history.wishes + 1 \in 0 .. MaxWishes
  BY <1>1, BoundsAssumption DEF Histories
<1> QED
  BY <1>1, <1>2 DEF Histories

LEMMA RevivedRemembers ==
    ASSUME LifecycleTypeOK, NEW b \in BOOLEAN, NEW w \in Requests,
           history' = [history EXCEPT !.revived = b, !.wish = w]
    PROVE  /\ history' \in Histories /\ history'.revived = b /\ history'.wish = w
           /\ history'.wishes = history.wishes
           /\ history'.ends = history.ends /\ history'.faults = history.faults
           /\ history'.slips = history.slips /\ history'.trades = history.trades
<1>1. history \in Histories
  BY DEF LifecycleTypeOK
<1> QED
  BY <1>1 DEF Histories

LEMMA EditRemembers ==
    ASSUME LifecycleTypeOK, EditIsWritten
    PROVE  /\ history' \in Histories /\ history'.wishes = history.wishes
           /\ history'.ends = history.ends /\ history'.faults = history.faults
           /\ history'.slips = history.slips /\ history'.trades = history.trades
           /\ Exists => (history'.revived <=> history.revived \/ page = "restore")
           /\ history.wish = "hidden" => history'.wish = "hidden"
           /\ Exists /\ page = "hide" /\ desired # "stopped" => history'.wish = "hidden"
           /\ ~Exists => history' = history
<1>1. history \in Histories
  BY DEF LifecycleTypeOK
<1>2. CASE ~Exists
  BY <1>1, <1>2 DEF EditIsWritten
<1>3. CASE Exists
  <2> DEFINE b == history.revived \/ page = "restore"
             w == IF page = "restore" \/ desired = "stopped" \/ history.wish = "hidden" THEN history.wish
                  ELSE IF page = "hide" THEN "hidden" ELSE "archived"
  <2>1. history' = [history EXCEPT !.revived = b, !.wish = w]
    BY <1>3, Zenon DEF EditIsWritten
  <2>2. b \in BOOLEAN
    BY Zenon
  <2>3. w \in Requests /\ (history.wish = "hidden" => w = "hidden")
        /\ (page = "hide" /\ desired # "stopped" => w = "hidden")
    BY <1>1 DEF Histories, Requests
  <2>4. b <=> history.revived \/ page = "restore"
    BY Zenon
  <2> HIDE DEF b, w
  <2>5. /\ history' \in Histories /\ history'.revived = b /\ history'.wish = w
        /\ history'.wishes = history.wishes
        /\ history'.ends = history.ends /\ history'.faults = history.faults
        /\ history'.slips = history.slips /\ history'.trades = history.trades
    BY <2>1, <2>2, <2>3, RevivedRemembers
  <2>6. history'.revived <=> history.revived \/ page = "restore"
    BY <2>4, <2>5, Zenon
  <2> QED
    BY <1>3, <2>3, <2>5, <2>6
<1> QED
  BY <1>2, <1>3

LEMMA MarkRemembers ==
    ASSUME LifecycleTypeOK, history' = [history EXCEPT !.revived = FALSE]
    PROVE  /\ history' \in Histories /\ ~history'.revived
           /\ history'.wishes = history.wishes /\ history'.wish = history.wish
           /\ history'.ends = history.ends /\ history'.faults = history.faults
           /\ history'.slips = history.slips /\ history'.trades = history.trades
<1>1. history \in Histories
  BY DEF LifecycleTypeOK
<1> QED
  BY <1>1 DEF Histories

LEMMA LifecycleTypeStep ==
    ASSUME LifecycleTypeOK, [LifecycleNext]_vars
    PROVE  LifecycleTypeOK'
<1> USE BoundsAssumption DEF States, Wishes, BackupPlaces, Histories, Requests
<1>0. LifecycleTypeOK
  OBVIOUS
<1>1. CASE StartIsAsked
  BY <1>0, <1>1 DEF row, disk, StartIsAsked, Exists, LifecycleTypeOK
<1>2. CASE StartIsAccepted
  <2>1. history' = history \/ (history.wishes < MaxWishes /\
                                history' = [history EXCEPT !.wishes = @ + 1, !.wish = "running"])
    BY <1>2 DEF StartIsAccepted
  <2> QED
    BY <1>0, <1>2, <2>1, RequestRemembers DEF row, disk, StartIsAccepted, Sets, Writes, Exists, LifecycleTypeOK
<1>3. CASE StopIsAccepted
  <2>1. history.wishes < MaxWishes /\ history' = [history EXCEPT !.wishes = @ + 1, !.wish = "stopped"]
    BY <1>3 DEF StopIsAccepted
  <2> QED
    BY <1>0, <1>3, <2>1, RequestRemembers DEF row, disk, StopIsAccepted, Writes, Exists, Reserved, LifecycleTypeOK
<1>4. ASSUME NEW kind \in EditKinds, EditIsChecked(kind)
      PROVE  LifecycleTypeOK'
  BY <1>0, <1>4 DEF row, disk, EditKinds, EditIsChecked, Reserved, LifecycleTypeOK
<1>5. CASE EditIsWritten
  <2>1. archived' \in BOOLEAN
    BY <1>0, <1>5, Zenon DEF EditIsWritten, LifecycleTypeOK
  <2>2. desired' \in Wishes /\ source' \in {"none", "whole", "shell"}
    BY <1>0, <1>5 DEF EditIsWritten, Writes, disk, LifecycleTypeOK
  <2>3. UNCHANGED <<state, child, orphan, holder, jobs, refused, monitor, recent, setup, trade, boot, trash, marker, finisher, app>>
    BY <1>5 DEF EditIsWritten, Writes, disk
  <2>4. page' = "none"
    BY <1>5 DEF EditIsWritten
  <2>5. history' \in Histories /\ history'.wishes = history.wishes /\ history'.ends <= history'.faults
    BY <1>0, EditRemembers, <1>5 DEF LifecycleTypeOK
  <2> QED
    BY <1>0, <2>1, <2>2, <2>3, <2>4, <2>5 DEF LifecycleTypeOK
<1>6. CASE DeletionIsMarked
  BY <1>0, <1>6, MarkRemembers DEF row, disk, DeletionIsMarked, LockFree, Reserved, Nobody, LifecycleTypeOK
<1>7. CASE StartInserts
  BY <1>0, <1>7 DEF row, disk, StartInserts, Sets, Writes, Exists, Release, Nobody, LifecycleTypeOK
<1>8. CASE StartSucceeds
  BY <1>0, <1>8 DEF row, disk, StartSucceeds, Sets, Writes, Release, Nobody, LifecycleTypeOK
<1>9. CASE StartFails
  BY <1>0, <1>9, FaultTyped DEF row, disk, FailureKinds, StartFails, Sets, Writes, Release,
     Nobody,
     LifecycleTypeOK
<1>10. CASE StopEnds
  <2>1. orphan' \in BOOLEAN
    BY <1>0, <1>10, Zenon DEF StopEnds, LifecycleTypeOK
  <2>2. history' \in Histories /\ history'.wishes = history.wishes /\ history'.ends <= history'.faults
    BY <1>0, <1>10, FaultTyped DEF FailureKinds, StopEnds, LifecycleTypeOK
  <2>3. holder' \in [by : {"nobody", "job", "monitor", "trade", "boot", "backup"},
                    at : {"free", "insert", "launch", "stop"} \cup BackupPlaces]
        /\ (holder'.by = "nobody" <=> holder'.at = "free")
    BY <1>0, <1>10 DEF StopEnds, StopLeads, Release, Nobody, BackupPlaces, LifecycleTypeOK
  <2> QED
    BY <1>0, <1>10, <2>1, <2>2, <2>3 DEF row, disk, StopEnds, Sets, Writes, StopLeads, States, LifecycleTypeOK
<1>11. CASE JobRuns
  BY <1>0, <1>11 DEF row, disk, JobRuns, StartReads, StopBegins, Raises, Sets, Writes, Exists,
     LockFree, Reserved, Nobody, LifecycleTypeOK
<1>12. ASSUME NEW w \in {"owner", "boot"}, FinishRenames(w)
      PROVE  LifecycleTypeOK'
  BY <1>0, <1>12 DEF row, disk, FinishRenames, Goes, LifecycleTypeOK
<1>13. ASSUME NEW w \in {"owner", "boot"}, FinishRemoves(w)
      PROVE  LifecycleTypeOK'
  BY <1>0, <1>13, FaultTyped DEF row, disk, FailureKinds, FinishRemoves, Goes, LifecycleTypeOK
<1>14. ASSUME NEW w \in {"owner", "boot"}, FinishForgets(w)
      PROVE  LifecycleTypeOK'
  BY <1>0, <1>14 DEF row, disk, FinishForgets, Goes, LifecycleTypeOK
<1>15. CASE MonitorHears
  BY <1>0, <1>15 DEF row, disk, MonitorHears, Monitoring, LifecycleTypeOK
<1>16. CASE MonitorReports
  BY <1>0, <1>16 DEF row, disk, MonitorReports, Exists, Writes, LifecycleTypeOK
<1>17. CASE MonitorFindsDead
  BY <1>0, <1>17 DEF row, disk, MonitorFindsDead, Monitoring, LockFree, Sets, Writes, Nobody,
     LifecycleTypeOK
<1>18. CASE MonitorDecides
  BY <1>0, <1>18 DEF row, disk, MonitorDecides, Reserved, LifecycleTypeOK
<1>19. CASE MonitorRestarts
  BY <1>0, <1>19 DEF row, disk, MonitorRestarts, StartReads, Raises, Sets, Writes, Exists,
     LockFree,
     Nobody, LifecycleTypeOK
<1>20. CASE MonitorRetriesSetup
  BY <1>0, <1>20 DEF row, disk, MonitorRetriesSetup, Monitoring, LifecycleTypeOK
<1>21. CASE TradeReserves
  BY <1>0, <1>21 DEF row, disk, TradeReserves, LockFree, Nobody, LifecycleTypeOK
<1>22. CASE TradeRecovers
  BY <1>0, <1>22 DEF row, disk, TradeRecovers, StartReads, Raises, Sets, Writes, Exists,
     LockFree,
     Nobody, LifecycleTypeOK
<1>23. CASE TradeAnswers
  BY <1>0, <1>23 DEF row, disk, TradeAnswers, LifecycleTypeOK
<1>24. CASE TradeResolves
  BY <1>0, <1>24 DEF row, disk, TradeResolves, LifecycleTypeOK
<1>25. CASE TradeReads
  BY <1>0, <1>25 DEF row, disk, TradeReads, LifecycleTypeOK
<1>26. CASE TradeStops
  BY <1>0, <1>26 DEF row, disk, TradeStops, StopBegins, Sets, Writes, Exists, LockFree, Nobody,
     LifecycleTypeOK
<1>27. CASE TradeResumes
  BY <1>0, <1>27 DEF row, disk, TradeResumes, Sets, Writes, Exists, LifecycleTypeOK
<1>28. CASE BootDeletes
  BY <1>0, <1>28 DEF row, disk, BootDeletes, BootGoes, Goes, LifecycleTypeOK
<1>29. CASE BootRecovers
  BY <1>0, <1>29 DEF row, disk, BootRecovers, BootGoes, LifecycleTypeOK
<1>30. CASE BootLists
  BY <1>0, <1>30 DEF row, disk, BootLists, BootGoes, LifecycleTypeOK
<1>31. CASE BootWishes
  BY <1>0, <1>31 DEF row, disk, BootWishes, BootGoes, Exists, Writes, LifecycleTypeOK
<1>32. CASE BootStarts
  BY <1>0, <1>32 DEF row, disk, BootStarts, BootGoes, StartReads, Raises, Sets, Writes, Exists,
     LockFree, Nobody, LifecycleTypeOK
<1>33. CASE WorkerDies
  BY <1>0, <1>33, FaultTyped DEF row, disk, FailureKinds, WorkerDies, LifecycleTypeOK
<1>34. CASE OrphanEnds
  <2>1. orphan' \in BOOLEAN
    BY <1>34, Zenon DEF OrphanEnds
  <2>2. UNCHANGED <<state, desired, archived, child, holder, jobs, refused, page, monitor, recent, setup, trade, boot,
                    source, trash, marker, finisher, app, history>>
    BY <1>34 DEF OrphanEnds, row, disk
  <2> QED
    BY <1>0, <2>1, <2>2 DEF LifecycleTypeOK
<1>35. CASE MonitorKills
  BY <1>0, <1>35, FaultTyped DEF row, disk, FailureKinds, MonitorKills, Monitoring, LockFree,
     Sets,
     Writes, Nobody, LifecycleTypeOK
<1>36. CASE RetriesAreForgotten
  BY <1>0, <1>36 DEF row, disk, RetriesAreForgotten, LifecycleTypeOK
<1>37. CASE Crash
  <2>1. orphan' \in BOOLEAN
    BY <1>37, Zenon DEF Crash
  <2>2. history' \in Histories /\ history'.ends <= history'.faults /\ history'.wishes = history.wishes
    BY <1>0, <1>37, FaultTyped DEF Crash, FailureKinds
  <2>3. Vanishes /\ UNCHANGED <<row, disk>>
    BY <1>37 DEF Crash
  <2> QED
    BY <1>0, <2>1, <2>2, <2>3 DEF row, disk, Vanishes, Reserved, Nobody, LifecycleTypeOK
<1>38. CASE Closes
  BY <1>0, <1>38, FaultTyped DEF row, disk, FailureKinds, Closes, LifecycleTypeOK
<1>39. CASE Closed
  BY <1>0, <1>39 DEF row, disk, Closed, Vanishes, Sets, Writes, Reserved, LockFree, Nobody,
     LifecycleTypeOK
<1>40. CASE Boots
  BY <1>0, <1>40 DEF row, disk, Boots, BootGoes, LifecycleTypeOK
<1>41. CASE UNCHANGED vars
  BY <1>0, <1>41 DEF vars, row, disk, LifecycleTypeOK
<1>42. CASE StartLosesPause
  <2>1. /\ history.faults + 1 \in 0 .. MaxFaults /\ history.ends <= history.faults + 1
        /\ history.ends \in Nat /\ history \in Histories
    BY <1>0, <1>42 DEF StartLosesPause, LifecycleTypeOK
  <2>2. history' = [history EXCEPT !.faults = @ + 1, !.slips = 1]
    BY <1>42 DEF StartLosesPause
  <2>3. history' \in Histories /\ history'.ends <= history'.faults
    BY <2>1, <2>2
  <2> QED
    BY <1>0, <1>42, <2>3 DEF row, disk, StartLosesPause, Sets, Writes, Release, Nobody,
       LifecycleTypeOK
<1>43. CASE BackupBegins
  BY <1>0, <1>43 DEF row, disk, BackupBegins, LockFree, Reserved, Nobody, LifecycleTypeOK
<1>44. CASE BackupAsks
  BY <1>0, <1>44, FaultTyped DEF row, disk, FailureKinds, BackupAsks, Backing, Sets, Writes,
     LifecycleTypeOK
<1>45. CASE BackupCopies
  BY <1>0, <1>45 DEF row, disk, BackupCopies, Backing, Nobody, LifecycleTypeOK
<1>46. CASE BackupResumes
  BY <1>0, <1>46 DEF row, disk, BackupResumes, Backing, Sets, Writes, Release, Nobody,
     LifecycleTypeOK
<1>47. CASE JobIsRefused
  BY <1>0, <1>47 DEF row, disk, JobIsRefused, Backing, LifecycleTypeOK
<1>48. CASE RefusalIsTold
  BY <1>0, <1>48 DEF row, disk, RefusalIsTold, Raises, Sets, Writes, Exists, LifecycleTypeOK
<1>49. CASE StartIsForgotten
  <2>1. orphan' \in BOOLEAN
    BY <1>0, <1>49, Zenon DEF StartIsForgotten, LifecycleTypeOK
  <2>2. setup' \in [at : {"none", "due"}, tries : 0 .. SetupRetries]
    BY <1>0, <1>49 DEF StartIsForgotten, LifecycleTypeOK
  <2> QED
    BY <1>0, <1>49, <2>1, <2>2 DEF row, disk, StartIsForgotten, Release, Nobody, LifecycleTypeOK
<1> QED
  BY <1>0, <1>1, <1>2, <1>3, <1>4, <1>5, <1>6, <1>7, <1>8, <1>9, <1>10, <1>11, <1>12, <1>13,
     <1>14,
     <1>15, <1>16, <1>17, <1>18, <1>19, <1>20, <1>21, <1>22, <1>23, <1>24, <1>25, <1>26, <1>27,
     <1>28, <1>29, <1>30, <1>31, <1>32, <1>33, <1>34, <1>35, <1>36, <1>37, <1>38, <1>39, <1>40,
     <1>41, <1>42, <1>43, <1>44, <1>45, <1>46, <1>47, <1>48, <1>49
  DEF LifecycleNext, Owner, Threads, Backup, Monitor, Trade, Boot, Environment

LEMMA LifecycleTypeInit == LifecycleInit => LifecycleTypeOK
<1>1. LifecycleInit => archived \in BOOLEAN /\ orphan \in BOOLEAN
  BY Zenon DEF LifecycleInit
<1> QED
  BY <1>1, BoundsAssumption DEF LifecycleInit, LifecycleTypeOK, Nobody, States, Wishes,
     BackupPlaces, Histories, Requests

\* Every reachable state of row, worker, threads and disk is well typed; the
\* counters of restarts and of setup retries stay within their budgets.
THEOREM LifecycleTypeCorrect == LifecycleSpec => []LifecycleTypeOK
<1> QED
  BY LifecycleTypeInit, LifecycleTypeStep, PTL DEF LifecycleSpec

------------------------------------------------------------------------------
(* Deletion. *)

\* Until its owner restores it, an adventure whose deletion has begun stays archived,
\* so that nothing starts its worker and no exchange reserves it, whoever finishes
\* the deletion.
Doomed == marker # "none"
DoomedIsQuiet ==
    /\ \A w \in {"owner", "boot"} : finisher[w] # "idle" => Doomed
    /\ Doomed /\ ~history.revived =>
         /\ archived
         /\ child \notin {"launching", "live"} /\ holder.at \notin {"insert", "launch"}
         /\ ~Reserved

LEMMA DoomedStep ==
    ASSUME LifecycleTypeOK, DoomedIsQuiet, [LifecycleNext]_vars
    PROVE  DoomedIsQuiet'
<1> USE DEF DoomedIsQuiet, Doomed, Reserved, Wishes
<1>0. LifecycleTypeOK /\ DoomedIsQuiet
  OBVIOUS
<1>1. CASE StartIsAsked
  BY <1>0, <1>1 DEF row, disk, StartIsAsked, Exists, LifecycleTypeOK
<1>2. CASE StartIsAccepted
  <2>1. history' = history \/ (history.wishes < MaxWishes /\
                                history' = [history EXCEPT !.wishes = @ + 1, !.wish = "running"])
    BY <1>2 DEF StartIsAccepted
  <2>2. history'.revived = history.revived
    BY <1>0, <2>1, RequestRemembers DEF Requests
  <2> QED
    BY <1>0, <1>2, <2>2 DEF row, disk, StartIsAccepted, Sets, Writes, Exists, LifecycleTypeOK
<1>3. CASE StopIsAccepted
  BY <1>0, <1>3 DEF row, disk, StopIsAccepted, Writes, Exists, Reserved, LifecycleTypeOK
<1>4. ASSUME NEW kind \in EditKinds, EditIsChecked(kind)
      PROVE  DoomedIsQuiet'
  BY <1>0, <1>4 DEF row, disk, EditIsChecked, Reserved, LifecycleTypeOK
<1>5. CASE EditIsWritten
  BY <1>0, <1>5, EditRemembers DEF row, disk, EditIsWritten, Writes, Exists, LifecycleTypeOK
<1>6. CASE DeletionIsMarked
  BY <1>0, <1>6 DEF row, disk, DeletionIsMarked, LockFree, Reserved, Nobody, LifecycleTypeOK
<1>7. CASE StartInserts
  BY <1>0, <1>7 DEF row, disk, StartInserts, Sets, Writes, Exists, Release, Nobody, LifecycleTypeOK
<1>8. CASE StartSucceeds
  BY <1>0, <1>8 DEF row, disk, StartSucceeds, Sets, Writes, Release, Nobody, LifecycleTypeOK
<1>9. CASE StartFails
  BY <1>0, <1>9, FaultRemembers DEF FailureKinds, row, disk, StartFails, Sets, Writes, Release, Nobody, Fault, LifecycleTypeOK
<1>10. CASE StopEnds
  BY <1>0, <1>10, FaultRemembers DEF FailureKinds, row, disk, StopEnds, Sets, Writes, StopLeads, Exists, Release, Nobody, Fault,
     LifecycleTypeOK
<1>11. CASE JobRuns
  BY <1>0, <1>11 DEF row, disk, JobRuns, StartReads, StopBegins, Raises, Sets, Writes, Exists,
     LockFree, Reserved, Nobody, LifecycleTypeOK
<1>12. ASSUME NEW w \in {"owner", "boot"}, FinishRenames(w)
      PROVE  DoomedIsQuiet'
  BY <1>0, <1>12 DEF row, disk, FinishRenames, Goes, LifecycleTypeOK
<1>13. ASSUME NEW w \in {"owner", "boot"}, FinishRemoves(w)
      PROVE  DoomedIsQuiet'
  BY <1>0, <1>13, FaultRemembers DEF FailureKinds, row, disk, FinishRemoves, Goes, Fault, LifecycleTypeOK
<1>14. ASSUME NEW w \in {"owner", "boot"}, FinishForgets(w)
      PROVE  DoomedIsQuiet'
  BY <1>0, <1>14 DEF row, disk, FinishForgets, Goes, LifecycleTypeOK
<1>15. CASE MonitorHears
  BY <1>0, <1>15 DEF row, disk, MonitorHears, Monitoring, LifecycleTypeOK
<1>16. CASE MonitorReports
  BY <1>0, <1>16 DEF row, disk, MonitorReports, Exists, Writes, LifecycleTypeOK
<1>17. CASE MonitorFindsDead
  BY <1>0, <1>17 DEF row, disk, MonitorFindsDead, Monitoring, LockFree, Sets, Writes, Nobody,
     LifecycleTypeOK
<1>18. CASE MonitorDecides
  BY <1>0, <1>18 DEF row, disk, MonitorDecides, Reserved, LifecycleTypeOK
<1>19. CASE MonitorRestarts
  BY <1>0, <1>19 DEF row, disk, MonitorRestarts, StartReads, Raises, Sets, Writes, Exists,
     LockFree,
     Nobody, LifecycleTypeOK
<1>20. CASE MonitorRetriesSetup
  BY <1>0, <1>20 DEF row, disk, MonitorRetriesSetup, Monitoring, LifecycleTypeOK
<1>21. CASE TradeReserves
  BY <1>0, <1>21 DEF row, disk, TradeReserves, LockFree, Nobody, LifecycleTypeOK
<1>22. CASE TradeRecovers
  BY <1>0, <1>22 DEF row, disk, TradeRecovers, StartReads, Raises, Sets, Writes, Exists,
     LockFree,
     Nobody, LifecycleTypeOK
<1>23. CASE TradeAnswers
  BY <1>0, <1>23 DEF row, disk, TradeAnswers, LifecycleTypeOK
<1>24. CASE TradeResolves
  BY <1>0, <1>24 DEF row, disk, TradeResolves, LifecycleTypeOK
<1>25. CASE TradeReads
  BY <1>0, <1>25 DEF row, disk, TradeReads, LifecycleTypeOK
<1>26. CASE TradeStops
  BY <1>0, <1>26 DEF row, disk, TradeStops, StopBegins, Sets, Writes, Exists, LockFree, Nobody,
     LifecycleTypeOK
<1>27. CASE TradeResumes
  BY <1>0, <1>27 DEF row, disk, TradeResumes, Sets, Writes, Exists, LifecycleTypeOK
<1>28. CASE BootDeletes
  BY <1>0, <1>28 DEF row, disk, BootDeletes, BootGoes, Goes, LifecycleTypeOK
<1>29. CASE BootRecovers
  BY <1>0, <1>29 DEF row, disk, BootRecovers, BootGoes, LifecycleTypeOK
<1>30. CASE BootLists
  BY <1>0, <1>30 DEF row, disk, BootLists, BootGoes, LifecycleTypeOK
<1>31. CASE BootWishes
  <2>1. history'.revived = history.revived
    BY <1>0, <1>31 DEF BootWishes, Histories, LifecycleTypeOK
  <2> QED
    BY <1>0, <1>31, <2>1 DEF row, disk, BootWishes, BootGoes, Exists, Writes
<1>32. CASE BootStarts
  BY <1>0, <1>32 DEF row, disk, BootStarts, BootGoes, StartReads, Raises, Sets, Writes, Exists,
     LockFree, Nobody, LifecycleTypeOK
<1>33. CASE WorkerDies
  BY <1>0, <1>33 DEF row, disk, WorkerDies, Fault, LifecycleTypeOK
<1>34. CASE OrphanEnds
  BY <1>0, <1>34 DEF row, disk, OrphanEnds, LifecycleTypeOK
<1>35. CASE MonitorKills
  BY <1>0, <1>35 DEF row, disk, MonitorKills, Monitoring, LockFree, Fault, Sets, Writes, Nobody,
     LifecycleTypeOK
<1>36. CASE RetriesAreForgotten
  BY <1>0, <1>36 DEF row, disk, RetriesAreForgotten, LifecycleTypeOK
<1>37. CASE Crash
  BY <1>0, <1>37 DEF row, disk, Crash, Fault, Vanishes, Reserved, Nobody, LifecycleTypeOK
<1>38. CASE Closes
  BY <1>0, <1>38 DEF row, disk, Closes, Fault, LifecycleTypeOK
<1>39. CASE Closed
  BY <1>0, <1>39 DEF row, disk, Closed, Vanishes, Sets, Writes, Reserved, LockFree, Nobody,
     LifecycleTypeOK
<1>40. CASE Boots
  BY <1>0, <1>40 DEF row, disk, Boots, BootGoes, LifecycleTypeOK
<1>41. CASE UNCHANGED vars
  BY <1>0, <1>41 DEF vars, row, disk, LifecycleTypeOK
<1>42. CASE StartLosesPause
  BY <1>0, <1>42 DEF row, disk, StartLosesPause, Sets, Writes, Release, Nobody, LifecycleTypeOK
<1>43. CASE BackupBegins
  BY <1>0, <1>43 DEF row, disk, BackupBegins, LockFree, Reserved, Nobody, LifecycleTypeOK
<1>44. CASE BackupAsks
  BY <1>0, <1>44, FaultRemembers DEF FailureKinds, row, disk, BackupAsks, Backing, Sets, Writes, Fault, LifecycleTypeOK
<1>45. CASE BackupCopies
  BY <1>0, <1>45 DEF row, disk, BackupCopies, Backing, Nobody, LifecycleTypeOK
<1>46. CASE BackupResumes
  BY <1>0, <1>46 DEF row, disk, BackupResumes, Backing, Sets, Writes, Release, Nobody,
     LifecycleTypeOK
<1>47. CASE JobIsRefused
  BY <1>0, <1>47 DEF row, disk, JobIsRefused, Backing, LifecycleTypeOK
<1>48. CASE RefusalIsTold
  BY <1>0, <1>48 DEF row, disk, RefusalIsTold, Raises, Sets, Writes, Exists, LifecycleTypeOK
<1>49. CASE StartIsForgotten
  BY <1>0, <1>49 DEF row, disk, StartIsForgotten, Release, Nobody, Exists, LifecycleTypeOK
<1> QED
  BY <1>0, <1>1, <1>2, <1>3, <1>4, <1>5, <1>6, <1>7, <1>8, <1>9, <1>10, <1>11, <1>12, <1>13,
     <1>14,
     <1>15, <1>16, <1>17, <1>18, <1>19, <1>20, <1>21, <1>22, <1>23, <1>24, <1>25, <1>26, <1>27,
     <1>28, <1>29, <1>30, <1>31, <1>32, <1>33, <1>34, <1>35, <1>36, <1>37, <1>38, <1>39, <1>40,
     <1>41, <1>42, <1>43, <1>44, <1>45, <1>46, <1>47, <1>48, <1>49
  DEF LifecycleNext, Owner, Threads, Backup, Monitor, Trade, Boot, Environment

LEMMA DoomedAlways == LifecycleSpec => [](LifecycleTypeOK /\ DoomedIsQuiet)
<1>1. LifecycleInit => LifecycleTypeOK /\ DoomedIsQuiet
  BY LifecycleTypeInit DEF LifecycleInit, DoomedIsQuiet, Doomed, Reserved, Nobody
<1>2. LifecycleTypeOK /\ DoomedIsQuiet /\ [LifecycleNext]_vars => (LifecycleTypeOK /\ DoomedIsQuiet)'
  BY LifecycleTypeStep, DoomedStep
<1> QED
  BY <1>1, <1>2, PTL DEF LifecycleSpec

\* What a step may do to the directory and to the worker of a doomed adventure.
Quiet ==
    /\ source # "none" /\ source' = "none" =>
         history.revived \/ (child \notin {"launching", "live"} /\ ~Reserved)
    /\ marker = "pending" /\ ~history.revived => ~(child # "launching" /\ child' = "launching")

LEMMA QuietStep ==
    ASSUME LifecycleTypeOK, DoomedIsQuiet, [LifecycleNext]_vars
    PROVE  Quiet
<1> USE DEF DoomedIsQuiet, Doomed, Quiet
<1>0. LifecycleTypeOK /\ DoomedIsQuiet
  OBVIOUS
<1>1. CASE StartIsAsked
  BY <1>0, <1>1 DEF row, disk, StartIsAsked, Exists, LifecycleTypeOK
<1>2. CASE StartIsAccepted
  BY <1>0, <1>2 DEF row, disk, StartIsAccepted, Sets, Writes, Exists, LifecycleTypeOK
<1>3. CASE StopIsAccepted
  BY <1>0, <1>3 DEF row, disk, StopIsAccepted, Writes, Exists, Reserved, LifecycleTypeOK
<1>4. ASSUME NEW kind \in EditKinds, EditIsChecked(kind)
      PROVE  Quiet
  BY <1>0, <1>4 DEF row, disk, EditIsChecked, Reserved, LifecycleTypeOK
<1>5. CASE EditIsWritten
  BY <1>0, <1>5 DEF row, disk, EditIsWritten, Writes, Exists, LifecycleTypeOK
<1>6. CASE DeletionIsMarked
  BY <1>0, <1>6 DEF row, disk, DeletionIsMarked, LockFree, Reserved, Nobody, LifecycleTypeOK
<1>7. CASE StartInserts
  BY <1>0, <1>7 DEF row, disk, StartInserts, Sets, Writes, Exists, Release, Nobody, LifecycleTypeOK
<1>8. CASE StartSucceeds
  BY <1>0, <1>8 DEF row, disk, StartSucceeds, Sets, Writes, Release, Nobody, LifecycleTypeOK
<1>9. CASE StartFails
  BY <1>0, <1>9 DEF row, disk, StartFails, Sets, Writes, Release, Nobody, Fault, LifecycleTypeOK
<1>10. CASE StopEnds
  BY <1>0, <1>10 DEF row, disk, StopEnds, Sets, Writes, StopLeads, Exists, Release, Nobody, Fault,
     LifecycleTypeOK
<1>11. CASE JobRuns
  BY <1>0, <1>11 DEF row, disk, JobRuns, StartReads, StopBegins, Raises, Sets, Writes, Exists,
     LockFree, Reserved, Nobody, LifecycleTypeOK
<1>12. ASSUME NEW w \in {"owner", "boot"}, FinishRenames(w)
      PROVE  Quiet
  BY <1>0, <1>12 DEF row, disk, FinishRenames, Goes, LifecycleTypeOK
<1>13. ASSUME NEW w \in {"owner", "boot"}, FinishRemoves(w)
      PROVE  Quiet
  BY <1>0, <1>13 DEF row, disk, FinishRemoves, Goes, Fault, LifecycleTypeOK
<1>14. ASSUME NEW w \in {"owner", "boot"}, FinishForgets(w)
      PROVE  Quiet
  BY <1>0, <1>14 DEF row, disk, FinishForgets, Goes, LifecycleTypeOK
<1>15. CASE MonitorHears
  BY <1>0, <1>15 DEF row, disk, MonitorHears, Monitoring, LifecycleTypeOK
<1>16. CASE MonitorReports
  BY <1>0, <1>16 DEF row, disk, MonitorReports, Exists, Writes, LifecycleTypeOK
<1>17. CASE MonitorFindsDead
  BY <1>0, <1>17 DEF row, disk, MonitorFindsDead, Monitoring, LockFree, Sets, Writes, Nobody,
     LifecycleTypeOK
<1>18. CASE MonitorDecides
  BY <1>0, <1>18 DEF row, disk, MonitorDecides, Reserved, LifecycleTypeOK
<1>19. CASE MonitorRestarts
  BY <1>0, <1>19 DEF row, disk, MonitorRestarts, StartReads, Raises, Sets, Writes, Exists,
     LockFree,
     Nobody, LifecycleTypeOK
<1>20. CASE MonitorRetriesSetup
  BY <1>0, <1>20 DEF row, disk, MonitorRetriesSetup, Monitoring, LifecycleTypeOK
<1>21. CASE TradeReserves
  BY <1>0, <1>21 DEF row, disk, TradeReserves, LockFree, Nobody, LifecycleTypeOK
<1>22. CASE TradeRecovers
  BY <1>0, <1>22 DEF row, disk, TradeRecovers, StartReads, Raises, Sets, Writes, Exists,
     LockFree,
     Nobody, LifecycleTypeOK
<1>23. CASE TradeAnswers
  BY <1>0, <1>23 DEF row, disk, TradeAnswers, LifecycleTypeOK
<1>24. CASE TradeResolves
  BY <1>0, <1>24 DEF row, disk, TradeResolves, LifecycleTypeOK
<1>25. CASE TradeReads
  BY <1>0, <1>25 DEF row, disk, TradeReads, LifecycleTypeOK
<1>26. CASE TradeStops
  BY <1>0, <1>26 DEF row, disk, TradeStops, StopBegins, Sets, Writes, Exists, LockFree, Nobody,
     LifecycleTypeOK
<1>27. CASE TradeResumes
  BY <1>0, <1>27 DEF row, disk, TradeResumes, Sets, Writes, Exists, LifecycleTypeOK
<1>28. CASE BootDeletes
  BY <1>0, <1>28 DEF row, disk, BootDeletes, BootGoes, Goes, LifecycleTypeOK
<1>29. CASE BootRecovers
  BY <1>0, <1>29 DEF row, disk, BootRecovers, BootGoes, LifecycleTypeOK
<1>30. CASE BootLists
  BY <1>0, <1>30 DEF row, disk, BootLists, BootGoes, LifecycleTypeOK
<1>31. CASE BootWishes
  BY <1>0, <1>31 DEF row, disk, BootWishes, BootGoes, Exists, Writes, LifecycleTypeOK
<1>32. CASE BootStarts
  BY <1>0, <1>32 DEF row, disk, BootStarts, BootGoes, StartReads, Raises, Sets, Writes, Exists,
     LockFree, Nobody, LifecycleTypeOK
<1>33. CASE WorkerDies
  BY <1>0, <1>33 DEF row, disk, WorkerDies, Fault, LifecycleTypeOK
<1>34. CASE OrphanEnds
  BY <1>0, <1>34 DEF row, disk, OrphanEnds, LifecycleTypeOK
<1>35. CASE MonitorKills
  BY <1>0, <1>35 DEF row, disk, MonitorKills, Monitoring, LockFree, Fault, Sets, Writes, Nobody,
     LifecycleTypeOK
<1>36. CASE RetriesAreForgotten
  BY <1>0, <1>36 DEF row, disk, RetriesAreForgotten, LifecycleTypeOK
<1>37. CASE Crash
  BY <1>0, <1>37 DEF row, disk, Crash, Fault, Vanishes, Reserved, Nobody, LifecycleTypeOK
<1>38. CASE Closes
  BY <1>0, <1>38 DEF row, disk, Closes, Fault, LifecycleTypeOK
<1>39. CASE Closed
  BY <1>0, <1>39 DEF row, disk, Closed, Vanishes, Sets, Writes, Reserved, LockFree, Nobody,
     LifecycleTypeOK
<1>40. CASE Boots
  BY <1>0, <1>40 DEF row, disk, Boots, BootGoes, LifecycleTypeOK
<1>41. CASE UNCHANGED vars
  BY <1>0, <1>41 DEF vars, row, disk, LifecycleTypeOK
<1>42. CASE StartLosesPause
  BY <1>0, <1>42 DEF row, disk, StartLosesPause, Sets, Writes, Release, Nobody, LifecycleTypeOK
<1>43. CASE BackupBegins
  BY <1>0, <1>43 DEF row, disk, BackupBegins, LockFree, Reserved, Nobody, LifecycleTypeOK
<1>44. CASE BackupAsks
  BY <1>0, <1>44 DEF row, disk, BackupAsks, Backing, Sets, Writes, Fault, LifecycleTypeOK
<1>45. CASE BackupCopies
  BY <1>0, <1>45 DEF row, disk, BackupCopies, Backing, Nobody, LifecycleTypeOK
<1>46. CASE BackupResumes
  BY <1>0, <1>46 DEF row, disk, BackupResumes, Backing, Sets, Writes, Release, Nobody,
     LifecycleTypeOK
<1>47. CASE JobIsRefused
  BY <1>0, <1>47 DEF row, disk, JobIsRefused, Backing, LifecycleTypeOK
<1>48. CASE RefusalIsTold
  BY <1>0, <1>48 DEF row, disk, RefusalIsTold, Raises, Sets, Writes, Exists, LifecycleTypeOK
<1>49. CASE StartIsForgotten
  BY <1>0, <1>49 DEF row, disk, StartIsForgotten, Release, Nobody, Exists, LifecycleTypeOK
<1> QED
  BY <1>0, <1>1, <1>2, <1>3, <1>4, <1>5, <1>6, <1>7, <1>8, <1>9, <1>10, <1>11, <1>12, <1>13,
     <1>14,
     <1>15, <1>16, <1>17, <1>18, <1>19, <1>20, <1>21, <1>22, <1>23, <1>24, <1>25, <1>26, <1>27,
     <1>28, <1>29, <1>30, <1>31, <1>32, <1>33, <1>34, <1>35, <1>36, <1>37, <1>38, <1>39, <1>40,
     <1>41, <1>42, <1>43, <1>44, <1>45, <1>46, <1>47, <1>48, <1>49
  DEF LifecycleNext, Owner, Threads, Backup, Monitor, Trade, Boot, Environment

\* Whoever finishes a deletion, the owner's request or a later start-up, and however
\* often it was cut off: the directory is not taken from under a worker that the
\* application started or an exchange, unless the owner restored the adventure.
THEOREM RemovalAlwaysSpares == LifecycleSpec => RemovalSparesWorkers
<1>1. LifecycleTypeOK /\ DoomedIsQuiet /\ [LifecycleNext]_vars =>
        [source # "none" /\ source' = "none" =>
           history.revived \/ (child \notin {"launching", "live"} /\ ~Reserved)]_vars
  BY QuietStep DEF Quiet
<1> QED
  BY <1>1, DoomedAlways, PTL DEF LifecycleSpec, RemovalSparesWorkers

\* No thread launches a worker for an adventure whose deletion has begun before the
\* owner restores it, whatever requests, retries and recoveries were under way.
THEOREM RevivalAlwaysAsked == LifecycleSpec => RevivalIsAsked
<1>1. LifecycleTypeOK /\ DoomedIsQuiet /\ [LifecycleNext]_vars =>
        [marker = "pending" /\ ~history.revived => ~(child # "launching" /\ child' = "launching")]_vars
  BY QuietStep DEF Quiet
<1> QED
  BY <1>1, DoomedAlways, PTL DEF LifecycleSpec, RevivalIsAsked

------------------------------------------------------------------------------
(* Backups. *)

\* A backup keeps the maintenance lock while it copies, so that the workers it
\* stopped stay down and no exchange is admitted.
CopyFits ==
    /\ CopyIsQuiet
    /\ holder.by = "backup" => ~Reserved
    /\ holder.at \in {"copy", "copyonly"} => holder.by = "backup"

LEMMA CopyStep ==
    ASSUME LifecycleTypeOK, CopyFits, [LifecycleNext]_vars
    PROVE  CopyFits'
<1> USE DEF CopyFits, CopyIsQuiet, Reserved
<1>0. LifecycleTypeOK /\ CopyFits
  OBVIOUS
<1>1. CASE StartIsAsked
  BY <1>0, <1>1 DEF row, disk, StartIsAsked, Exists, LifecycleTypeOK
<1>2. CASE StartIsAccepted
  BY <1>0, <1>2 DEF row, disk, StartIsAccepted, Sets, Writes, Exists, LifecycleTypeOK
<1>3. CASE StopIsAccepted
  BY <1>0, <1>3 DEF row, disk, StopIsAccepted, Writes, Exists, Reserved, LifecycleTypeOK
<1>4. ASSUME NEW kind \in EditKinds, EditIsChecked(kind)
      PROVE  CopyFits'
  BY <1>0, <1>4 DEF row, disk, EditIsChecked, Reserved, LifecycleTypeOK
<1>5. CASE EditIsWritten
  BY <1>0, <1>5 DEF row, disk, EditIsWritten, Writes, Exists, LifecycleTypeOK
<1>6. CASE DeletionIsMarked
  BY <1>0, <1>6 DEF row, disk, DeletionIsMarked, LockFree, Reserved, Nobody, LifecycleTypeOK
<1>7. CASE StartInserts
  BY <1>0, <1>7 DEF row, disk, StartInserts, Sets, Writes, Exists, Release, Nobody, LifecycleTypeOK
<1>8. CASE StartSucceeds
  BY <1>0, <1>8 DEF row, disk, StartSucceeds, Sets, Writes, Release, Nobody, LifecycleTypeOK
<1>9. CASE StartFails
  BY <1>0, <1>9 DEF row, disk, StartFails, Sets, Writes, Release, Nobody, Fault, LifecycleTypeOK
<1>10. CASE StopEnds
  BY <1>0, <1>10 DEF row, disk, StopEnds, Sets, Writes, StopLeads, Exists, Release, Nobody, Fault,
     LifecycleTypeOK
<1>11. CASE JobRuns
  BY <1>0, <1>11 DEF row, disk, JobRuns, StartReads, StopBegins, Raises, Sets, Writes, Exists,
     LockFree, Reserved, Nobody, LifecycleTypeOK
<1>12. ASSUME NEW w \in {"owner", "boot"}, FinishRenames(w)
      PROVE  CopyFits'
  BY <1>0, <1>12 DEF row, disk, FinishRenames, Goes, LifecycleTypeOK
<1>13. ASSUME NEW w \in {"owner", "boot"}, FinishRemoves(w)
      PROVE  CopyFits'
  BY <1>0, <1>13 DEF row, disk, FinishRemoves, Goes, Fault, LifecycleTypeOK
<1>14. ASSUME NEW w \in {"owner", "boot"}, FinishForgets(w)
      PROVE  CopyFits'
  BY <1>0, <1>14 DEF row, disk, FinishForgets, Goes, LifecycleTypeOK
<1>15. CASE MonitorHears
  BY <1>0, <1>15 DEF row, disk, MonitorHears, Monitoring, LifecycleTypeOK
<1>16. CASE MonitorReports
  BY <1>0, <1>16 DEF row, disk, MonitorReports, Exists, Writes, LifecycleTypeOK
<1>17. CASE MonitorFindsDead
  BY <1>0, <1>17 DEF row, disk, MonitorFindsDead, Monitoring, LockFree, Sets, Writes, Nobody,
     LifecycleTypeOK
<1>18. CASE MonitorDecides
  BY <1>0, <1>18 DEF row, disk, MonitorDecides, Reserved, LifecycleTypeOK
<1>19. CASE MonitorRestarts
  BY <1>0, <1>19 DEF row, disk, MonitorRestarts, StartReads, Raises, Sets, Writes, Exists,
     LockFree,
     Nobody, LifecycleTypeOK
<1>20. CASE MonitorRetriesSetup
  BY <1>0, <1>20 DEF row, disk, MonitorRetriesSetup, Monitoring, LifecycleTypeOK
<1>21. CASE TradeReserves
  BY <1>0, <1>21 DEF row, disk, TradeReserves, LockFree, Nobody, LifecycleTypeOK
<1>22. CASE TradeRecovers
  BY <1>0, <1>22 DEF row, disk, TradeRecovers, StartReads, Raises, Sets, Writes, Exists,
     LockFree,
     Nobody, LifecycleTypeOK
<1>23. CASE TradeAnswers
  BY <1>0, <1>23 DEF row, disk, TradeAnswers, LifecycleTypeOK
<1>24. CASE TradeResolves
  BY <1>0, <1>24 DEF row, disk, TradeResolves, LifecycleTypeOK
<1>25. CASE TradeReads
  BY <1>0, <1>25 DEF row, disk, TradeReads, LifecycleTypeOK
<1>26. CASE TradeStops
  BY <1>0, <1>26 DEF row, disk, TradeStops, StopBegins, Sets, Writes, Exists, LockFree, Nobody,
     LifecycleTypeOK
<1>27. CASE TradeResumes
  BY <1>0, <1>27 DEF row, disk, TradeResumes, Sets, Writes, Exists, LifecycleTypeOK
<1>28. CASE BootDeletes
  BY <1>0, <1>28 DEF row, disk, BootDeletes, BootGoes, Goes, LifecycleTypeOK
<1>29. CASE BootRecovers
  BY <1>0, <1>29 DEF row, disk, BootRecovers, BootGoes, LifecycleTypeOK
<1>30. CASE BootLists
  BY <1>0, <1>30 DEF row, disk, BootLists, BootGoes, LifecycleTypeOK
<1>31. CASE BootWishes
  BY <1>0, <1>31 DEF row, disk, BootWishes, BootGoes, Exists, Writes, LifecycleTypeOK
<1>32. CASE BootStarts
  BY <1>0, <1>32 DEF row, disk, BootStarts, BootGoes, StartReads, Raises, Sets, Writes, Exists,
     LockFree, Nobody, LifecycleTypeOK
<1>33. CASE WorkerDies
  BY <1>0, <1>33 DEF row, disk, WorkerDies, Fault, LifecycleTypeOK
<1>34. CASE OrphanEnds
  BY <1>0, <1>34 DEF row, disk, OrphanEnds, LifecycleTypeOK
<1>35. CASE MonitorKills
  BY <1>0, <1>35 DEF row, disk, MonitorKills, Monitoring, LockFree, Fault, Sets, Writes, Nobody,
     LifecycleTypeOK
<1>36. CASE RetriesAreForgotten
  BY <1>0, <1>36 DEF row, disk, RetriesAreForgotten, LifecycleTypeOK
<1>37. CASE Crash
  BY <1>0, <1>37 DEF row, disk, Crash, Fault, Vanishes, Reserved, Nobody, LifecycleTypeOK
<1>38. CASE Closes
  BY <1>0, <1>38 DEF row, disk, Closes, Fault, LifecycleTypeOK
<1>39. CASE Closed
  BY <1>0, <1>39 DEF row, disk, Closed, Vanishes, Sets, Writes, Reserved, LockFree, Nobody,
     LifecycleTypeOK
<1>40. CASE Boots
  BY <1>0, <1>40 DEF row, disk, Boots, BootGoes, LifecycleTypeOK
<1>41. CASE UNCHANGED vars
  BY <1>0, <1>41 DEF vars, row, disk, LifecycleTypeOK
<1>42. CASE StartLosesPause
  BY <1>0, <1>42 DEF row, disk, StartLosesPause, Sets, Writes, Release, Nobody, LifecycleTypeOK
<1>43. CASE BackupBegins
  BY <1>0, <1>43 DEF row, disk, BackupBegins, LockFree, Reserved, Nobody, LifecycleTypeOK
<1>44. CASE BackupAsks
  BY <1>0, <1>44 DEF row, disk, BackupAsks, Backing, Sets, Writes, Fault, LifecycleTypeOK
<1>45. CASE BackupCopies
  BY <1>0, <1>45 DEF row, disk, BackupCopies, Backing, Nobody, LifecycleTypeOK
<1>46. CASE BackupResumes
  BY <1>0, <1>46 DEF row, disk, BackupResumes, Backing, Sets, Writes, Release, Nobody,
     LifecycleTypeOK
<1>47. CASE JobIsRefused
  BY <1>0, <1>47 DEF row, disk, JobIsRefused, Backing, LifecycleTypeOK
<1>48. CASE RefusalIsTold
  BY <1>0, <1>48 DEF row, disk, RefusalIsTold, Raises, Sets, Writes, Exists, LifecycleTypeOK
<1>49. CASE StartIsForgotten
  BY <1>0, <1>49 DEF row, disk, StartIsForgotten, Release, Nobody, Exists, LifecycleTypeOK
<1> QED
  BY <1>0, <1>1, <1>2, <1>3, <1>4, <1>5, <1>6, <1>7, <1>8, <1>9, <1>10, <1>11, <1>12, <1>13,
     <1>14,
     <1>15, <1>16, <1>17, <1>18, <1>19, <1>20, <1>21, <1>22, <1>23, <1>24, <1>25, <1>26, <1>27,
     <1>28, <1>29, <1>30, <1>31, <1>32, <1>33, <1>34, <1>35, <1>36, <1>37, <1>38, <1>39, <1>40,
     <1>41, <1>42, <1>43, <1>44, <1>45, <1>46, <1>47, <1>48, <1>49
  DEF LifecycleNext, Owner, Threads, Backup, Monitor, Trade, Boot, Environment

\* While the library is copied no worker of the application runs, and no exchange
\* has reserved the adventure, whatever the owner, the monitor and the start-up do.
THEOREM CopyAlwaysQuiet == LifecycleSpec => []CopyIsQuiet
<1>1. LifecycleInit => CopyFits
  BY DEF LifecycleInit, CopyFits, CopyIsQuiet, Reserved, Nobody
<1>2. LifecycleTypeOK /\ CopyFits /\ [LifecycleNext]_vars => CopyFits'
  BY CopyStep
<1>3. CopyFits => CopyIsQuiet
  BY DEF CopyFits
<1> QED
  BY <1>1, <1>2, <1>3, LifecycleTypeCorrect, PTL DEF LifecycleSpec

------------------------------------------------------------------------------
(* What the library shows. *)

\* Until an exchange has reserved the adventure and before the application's first
\* end, only jobs, the monitor and backups are at work, and what each still has to do
\* accounts for every difference between the row and the worker.
Early == history.trades = 0 /\ history.ends = 0
EarlyFits ==
    /\ app = "up" /\ boot = "done" /\ finisher["boot"] = "idle"
    /\ trade = "none" /\ holder.by # "trade"
OneAtWork == finisher["owner"] # "idle" => holder = Nobody
GoneFits == state = "gone" => child = "none" /\ holder.at \in {"free", "copyonly"}
ArchivedFits ==
    archived /\ (page = "start" \/ (desired = "running" /\ history.wish # "hidden")) =>
        child \notin {"launching", "live"} /\ holder.at \notin {"insert", "launch"}
RowFits ==
    /\ state = "running" => child \in {"live", "dead"}
    /\ state = "stopping" => holder.at = "stop"
    /\ history.slips = 0 =>
        /\ refused = 0
        /\ child = "live" /\ history.wish # "hidden" => state = "running" \/ jobs > 0 \/ holder.at = "stop"
        /\ state = "starting" => jobs > 0 \/ holder.at \in {"insert", "launch"}
HonestInv == Early => EarlyFits /\ OneAtWork /\ GoneFits /\ ArchivedFits /\ RowFits

LEMMA HonestStep ==
    ASSUME LifecycleTypeOK, HonestInv, [LifecycleNext]_vars
    PROVE  HonestInv'
<1> USE DEF HonestInv, Early, EarlyFits, OneAtWork, GoneFits, ArchivedFits, RowFits, Reserved,
            Wishes, Nobody, States, BackupPlaces, Histories
<1>0. LifecycleTypeOK /\ HonestInv
  OBVIOUS
<1>1. CASE StartIsAsked
  BY <1>0, <1>1 DEF row, disk, StartIsAsked, Exists, LifecycleTypeOK
<1>2. CASE StartIsAccepted
  <2>1. history' = history \/ (history.wishes < MaxWishes /\
                                history' = [history EXCEPT !.wishes = @ + 1, !.wish = "running"])
    BY <1>2 DEF StartIsAccepted
  <2>2. \/ history' = history
        \/ /\ history'.trades = history.trades /\ history'.ends = history.ends
           /\ history'.slips = history.slips /\ history'.wish = "running"
    BY <1>0, <2>1, RequestRemembers DEF Requests
  <2> QED
    BY <1>0, <1>2, <2>2 DEF row, disk, StartIsAccepted, Sets, Writes, Exists, LifecycleTypeOK
<1>3. CASE StopIsAccepted
  BY <1>0, <1>3 DEF row, disk, StopIsAccepted, Writes, Exists, Reserved, LifecycleTypeOK
<1>4. ASSUME NEW kind \in EditKinds, EditIsChecked(kind)
      PROVE  HonestInv'
  BY <1>0, <1>4 DEF row, disk, EditKinds, EditIsChecked, Reserved, LifecycleTypeOK
<1>5. CASE EditIsWritten
  BY <1>0, <1>5 DEF row, disk, EditIsWritten, Writes, Exists, LifecycleTypeOK
<1>6. CASE DeletionIsMarked
  BY <1>0, <1>6 DEF row, disk, DeletionIsMarked, LockFree, Reserved, Nobody, LifecycleTypeOK
<1>7. CASE StartInserts
  BY <1>0, <1>7 DEF row, disk, StartInserts, Sets, Writes, Exists, Release, Nobody, LifecycleTypeOK
<1>8. CASE StartSucceeds
  BY <1>0, <1>8 DEF row, disk, StartSucceeds, Sets, Writes, Release, Nobody, LifecycleTypeOK
<1>9. CASE StartFails
  BY <1>0, <1>9 DEF row, disk, StartFails, Sets, Writes, Release, Nobody, Fault, LifecycleTypeOK
<1>10. CASE StopEnds
  <2> USE <1>0 DEF row, disk, Sets, Writes, StopLeads, LifecycleTypeOK
  <2>1. CASE child = "live" /\ StopLeads("stopped", "copy") /\ UNCHANGED <<history, orphan>>
    BY <1>10, <2>1 DEF StopEnds
  <2>2. CASE child = "dead" /\ StopLeads("failed", "again") /\ UNCHANGED <<history, orphan>>
    BY <1>10, <2>2 DEF StopEnds
  <2>3. CASE child = "live" /\ StopLeads("failed", "again") /\ Fault("stop")
    BY <1>10, <2>3 DEF StopEnds, Fault
  <2>4. CASE ~Exists /\ Release /\ UNCHANGED <<state, disk, history>>
    BY <1>10, <2>4 DEF StopEnds, Exists, Release, Nobody
  <2> QED
    BY <1>10, <2>1, <2>2, <2>3, <2>4 DEF StopEnds
<1>11. CASE JobRuns
  BY <1>0, <1>11 DEF row, disk, JobRuns, StartReads, StopBegins, Raises, Sets, Writes, Exists,
     LockFree, Reserved, Nobody, LifecycleTypeOK
<1>12. ASSUME NEW w \in {"owner", "boot"}, FinishRenames(w)
      PROVE  HonestInv'
  BY <1>0, <1>12 DEF row, disk, FinishRenames, Goes, LifecycleTypeOK
<1>13. ASSUME NEW w \in {"owner", "boot"}, FinishRemoves(w)
      PROVE  HonestInv'
  BY <1>0, <1>13 DEF row, disk, FinishRemoves, Goes, Fault, LifecycleTypeOK
<1>14. ASSUME NEW w \in {"owner", "boot"}, FinishForgets(w)
      PROVE  HonestInv'
  BY <1>0, <1>14 DEF row, disk, FinishForgets, Goes, LifecycleTypeOK
<1>15. CASE MonitorHears
  BY <1>0, <1>15 DEF row, disk, MonitorHears, Monitoring, LifecycleTypeOK
<1>16. CASE MonitorReports
  BY <1>0, <1>16 DEF row, disk, MonitorReports, Exists, Writes, LifecycleTypeOK
<1>17. CASE MonitorFindsDead
  BY <1>0, <1>17 DEF row, disk, MonitorFindsDead, Monitoring, LockFree, Sets, Writes, Nobody,
     LifecycleTypeOK
<1>18. CASE MonitorDecides
  BY <1>0, <1>18 DEF row, disk, MonitorDecides, Reserved, LifecycleTypeOK
<1>19. CASE MonitorRestarts
  BY <1>0, <1>19 DEF row, disk, MonitorRestarts, StartReads, Raises, Sets, Writes, Exists,
     LockFree,
     Nobody, LifecycleTypeOK
<1>20. CASE MonitorRetriesSetup
  BY <1>0, <1>20 DEF row, disk, MonitorRetriesSetup, Monitoring, LifecycleTypeOK
<1>21. CASE TradeReserves
  BY <1>0, <1>21 DEF row, disk, TradeReserves, LockFree, Nobody, LifecycleTypeOK
<1>22. CASE TradeRecovers
  BY <1>0, <1>22 DEF row, disk, TradeRecovers, StartReads, Raises, Sets, Writes, Exists,
     LockFree,
     Nobody, LifecycleTypeOK
<1>23. CASE TradeAnswers
  BY <1>0, <1>23 DEF row, disk, TradeAnswers, LifecycleTypeOK
<1>24. CASE TradeResolves
  BY <1>0, <1>24 DEF row, disk, TradeResolves, LifecycleTypeOK
<1>25. CASE TradeReads
  BY <1>0, <1>25 DEF row, disk, TradeReads, LifecycleTypeOK
<1>26. CASE TradeStops
  BY <1>0, <1>26 DEF row, disk, TradeStops, StopBegins, Sets, Writes, Exists, LockFree, Nobody,
     LifecycleTypeOK
<1>27. CASE TradeResumes
  BY <1>0, <1>27 DEF row, disk, TradeResumes, Sets, Writes, Exists, LifecycleTypeOK
<1>28. CASE BootDeletes
  BY <1>0, <1>28 DEF row, disk, BootDeletes, BootGoes, Goes, LifecycleTypeOK
<1>29. CASE BootRecovers
  BY <1>0, <1>29 DEF row, disk, BootRecovers, BootGoes, LifecycleTypeOK
<1>30. CASE BootLists
  BY <1>0, <1>30 DEF row, disk, BootLists, BootGoes, LifecycleTypeOK
<1>31. CASE BootWishes
  BY <1>0, <1>31 DEF row, disk, BootWishes, BootGoes, Exists, Writes, LifecycleTypeOK
<1>32. CASE BootStarts
  BY <1>0, <1>32 DEF row, disk, BootStarts, BootGoes, StartReads, Raises, Sets, Writes, Exists,
     LockFree, Nobody, LifecycleTypeOK
<1>33. CASE WorkerDies
  BY <1>0, <1>33 DEF row, disk, WorkerDies, Fault, LifecycleTypeOK
<1>34. CASE OrphanEnds
  BY <1>0, <1>34 DEF row, disk, OrphanEnds, LifecycleTypeOK
<1>35. CASE MonitorKills
  BY <1>0, <1>35 DEF row, disk, MonitorKills, Monitoring, LockFree, Fault, Sets, Writes, Nobody,
     LifecycleTypeOK
<1>36. CASE RetriesAreForgotten
  BY <1>0, <1>36 DEF row, disk, RetriesAreForgotten, LifecycleTypeOK
<1>37. CASE Crash
  BY <1>0, <1>37 DEF row, disk, Crash, Fault, Vanishes, Reserved, Nobody, LifecycleTypeOK
<1>38. CASE Closes
  BY <1>0, <1>38 DEF row, disk, Closes, Fault, LifecycleTypeOK
<1>39. CASE Closed
  BY <1>0, <1>39 DEF row, disk, Closed, Vanishes, Sets, Writes, Reserved, LockFree, Nobody,
     LifecycleTypeOK
<1>40. CASE Boots
  BY <1>0, <1>40 DEF row, disk, Boots, BootGoes, LifecycleTypeOK
<1>41. CASE UNCHANGED vars
  BY <1>0, <1>41 DEF vars, row, disk, LifecycleTypeOK
<1>42. CASE StartLosesPause
  BY <1>0, <1>42 DEF row, disk, StartLosesPause, Sets, Writes, Release, Nobody, LifecycleTypeOK
<1>43. CASE BackupBegins
  BY <1>0, <1>43 DEF row, disk, BackupBegins, LockFree, Reserved, Nobody, LifecycleTypeOK
<1>44. CASE BackupAsks
  <2> USE <1>0 DEF row, disk, Sets, Writes, Backing, LifecycleTypeOK
  <2>1. CASE child = "live" /\ Sets("stopping") /\ holder' = [holder EXCEPT !.at = "stop"] /\ UNCHANGED history
    BY <1>44, <2>1 DEF BackupAsks
  <2>2. CASE child = "live" /\ Fault("worker") /\ holder' = [holder EXCEPT !.at = "again"] /\ UNCHANGED <<state, disk>>
    BY <1>44, <2>2 DEF BackupAsks, Fault
  <2>3. CASE child # "live" /\ UNCHANGED history /\ holder' = [holder EXCEPT !.at = "again"] /\ UNCHANGED <<state, disk>>
    BY <1>44, <2>3 DEF BackupAsks
  <2> QED
    BY <1>44, <2>1, <2>2, <2>3 DEF BackupAsks
<1>45. CASE BackupCopies
  BY <1>0, <1>45 DEF row, disk, BackupCopies, Backing, Nobody, LifecycleTypeOK
<1>46. CASE BackupResumes
  BY <1>0, <1>46 DEF row, disk, BackupResumes, Backing, Sets, Writes, Release, Nobody,
     LifecycleTypeOK
<1>47. CASE JobIsRefused
  BY <1>0, <1>47 DEF row, disk, JobIsRefused, Backing, LifecycleTypeOK
<1>48. CASE RefusalIsTold
  BY <1>0, <1>48 DEF row, disk, RefusalIsTold, Raises, Sets, Writes, Exists, LifecycleTypeOK
<1>49. CASE StartIsForgotten
  BY <1>0, <1>49 DEF row, disk, StartIsForgotten, Release, Nobody, Exists, LifecycleTypeOK
<1> QED
  BY <1>0, <1>1, <1>2, <1>3, <1>4, <1>5, <1>6, <1>7, <1>8, <1>9, <1>10, <1>11, <1>12, <1>13,
     <1>14,
     <1>15, <1>16, <1>17, <1>18, <1>19, <1>20, <1>21, <1>22, <1>23, <1>24, <1>25, <1>26, <1>27,
     <1>28, <1>29, <1>30, <1>31, <1>32, <1>33, <1>34, <1>35, <1>36, <1>37, <1>38, <1>39, <1>40,
     <1>41, <1>42, <1>43, <1>44, <1>45, <1>46, <1>47, <1>48, <1>49
  DEF LifecycleNext, Owner, Threads, Backup, Monitor, Trade, Boot, Environment

LEMMA HonestAlways == LifecycleSpec => [](LifecycleTypeOK /\ HonestInv)
<1>1. LifecycleInit => HonestInv
  BY DEF LifecycleInit, HonestInv, Early, EarlyFits, OneAtWork, GoneFits, ArchivedFits, RowFits,
     Nobody
<1>2. LifecycleTypeOK /\ HonestInv /\ [LifecycleNext]_vars => (LifecycleTypeOK /\ HonestInv)'
  BY LifecycleTypeStep, HonestStep
<1> QED
  BY LifecycleTypeInit, <1>1, <1>2, PTL DEF LifecycleSpec

\* At rest the library shows an adventure as running exactly when its worker is
\* there, however many starts, stops, failures, restarts and backups overlapped.
THEOREM RowAlwaysHonest == LifecycleSpec => []StateIsHonest
<1>1. ASSUME LifecycleTypeOK, HonestInv, AtRest, history.trades = 0, history.ends = 0
      PROVE  /\ state = "running" => child = "live"
             /\ history.slips = 0 =>
                  /\ state \notin {"starting", "stopping"}
                  /\ child = "live" /\ history.wish # "hidden" => state = "running"
  <2>1. RowFits /\ holder.at = "free" /\ jobs = 0 /\ child # "dead"
    BY <1>1 DEF HonestInv, Early, AtRest, LockFree, Nobody
  <2> QED
    BY <2>1 DEF RowFits
<1>2. LifecycleTypeOK /\ HonestInv => StateIsHonest
  BY <1>1 DEF StateIsHonest
<1> QED
  BY HonestAlways, <1>2, PTL

==============================================================================
