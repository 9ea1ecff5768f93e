------------------------------ MODULE Lifecycle ------------------------------
(***************************************************************************)
(* One adventure of the library from the application's side: its row in    *)
(* the registry, its worker process, its directory, and every thread that  *)
(* starts, stops, archives or deletes it (app/manager.py, supervisor.py,   *)
(* deletion.py, and what coordinator.py does when an exchange is over).    *)
(*                                                                         *)
(* Starting, stopping, deleting and backing up hold the maintenance lock,  *)
(* so one of them runs at a time whatever the adventure; routes, the       *)
(* start-up thread's own writes and the monitor's reports hold none.  A    *)
(* backup (backup.py) also keeps everybody from the registry.              *)
(***************************************************************************)
EXTENDS Integers

CONSTANTS
    MaxWishes,      \* bound: start and stop requests of the owner
    MaxVisits,      \* bound: exchanges that reserve the adventure, and backups
    MaxFaults,      \* bound: how many failures happen ...
    Failures,       \* ... and of which kinds
    Retries,        \* restarts within five minutes (the code's 3)
    SetupRetries,   \* SETUP_RETRIES
    Edits,          \* which other routes the owner uses
    AutoStarts      \* what the adventure's auto_start setting may be

\* The archive route, PATCH with archived true or false, and deletion.
EditKinds == {"archive", "hide", "restore", "delete"}
FailureKinds == {"worker", "launch", "stop", "remove", "close", "crash"}

ASSUME BoundsAssumption ==
    /\ MaxWishes \in Nat /\ MaxVisits \in Nat /\ MaxFaults \in Nat
    /\ Retries \in Nat /\ SetupRetries \in Nat
    /\ Edits \subseteq EditKinds /\ Failures \subseteq FailureKinds
    /\ AutoStarts \subseteq BOOLEAN /\ AutoStarts # {}

VARIABLES
    state, desired, archived,   \* columns of the row; state "gone" without one
    child,      \* supervisor.children: the worker process
    orphan,     \* a worker of an earlier run still owns the adventure's files
    holder,     \* who holds the maintenance lock and how far it is
    jobs,       \* background threads that are to run start_adventure
    refused,    \* those that found a backup under way and have not said so yet
    page,       \* a route that has checked the row but not written it yet
    monitor,    \* the supervisor's thread
    recent,     \* its restarts in the last five minutes
    setup,      \* the automatic retries after a failed download
    trade,      \* an exchange that reserves the adventure
    boot,       \* where the start-up thread is
    source, trash, marker,      \* the directory, where deletion moves it, its durable intent
    finisher,   \* _finish, for the owner (under the lock) and at start-up (without)
    app,
    history     \* read by no step but its bounds: what happened, for the properties

row == <<state, desired, archived>>
disk == <<source, trash, marker>>
vars == <<row, child, orphan, holder, jobs, refused, page, monitor, recent, setup, trade,
          boot, disk, finisher, app, history>>

Nobody == [by |-> "nobody", at |-> "free"]
States == {"stopped", "starting", "running", "stopping", "failed", "recovering", "deleting", "gone"}
Wishes == {"running", "stopped"}
\* Where a backup is: copying with or without a worker to start again.
BackupPlaces == {"ask", "copy", "copyonly", "again"}

\* The owner's last request that the row took, or how else its wish came about: start-up
\* overruled it, or it ended when a running adventure was archived by either route.
Requests == {"running", "stopped", "overruled", "archived", "hidden"}

Histories == [wishes : 0 .. MaxWishes, trades : 0 .. MaxVisits, faults : 0 .. MaxFaults,
              ends : 0 .. MaxFaults, backups : 0 .. MaxVisits, slips : {0, 1},
              wish : Requests,
              revived : BOOLEAN]  \* restored since its deletion was marked

LifecycleTypeOK ==
    /\ state \in States /\ desired \in Wishes /\ archived \in BOOLEAN
    /\ child \in {"none", "launching", "live", "dead"} /\ orphan \in BOOLEAN
    /\ holder \in [by : {"nobody", "job", "monitor", "trade", "boot", "backup"},
                  at : {"free", "insert", "launch", "stop"} \cup BackupPlaces]
    /\ holder.by = "nobody" <=> holder.at = "free"
    /\ jobs \in Nat /\ refused \in Nat /\ jobs + refused <= history.wishes
    /\ page \in {"none", "start", "archive", "hide", "restore"}
    /\ monitor \in [at : {"off", "idle", "report", "decide", "restart", "ended"}, seen : Wishes]
    /\ recent \in 0 .. Retries
    /\ setup \in [at : {"none", "due"}, tries : 0 .. SetupRetries]
    /\ trade \in {"none", "reserved", "answered", "over", "stop", "resume"}
    /\ boot \in {"off", "delete", "recover", "list", "wish", "start", "done", "ended"}
    /\ source \in {"none", "whole", "shell"} /\ trash \in {"none", "whole"}
    /\ marker \in {"none", "pending", "complete"}
    /\ finisher \in [{"owner", "boot"} -> {"idle", "rename", "remove", "forget"}]
    /\ app \in {"up", "closing", "down"}
    /\ history \in Histories
    /\ history.ends <= history.faults

\* A new adventure, in an application that has just started.
LifecycleInit ==
    /\ state = "stopped" /\ desired = "stopped" /\ archived = FALSE
    /\ child = "none" /\ orphan = FALSE /\ holder = Nobody /\ jobs = 0 /\ refused = 0 /\ page = "none"
    /\ monitor = [at |-> "idle", seen |-> "stopped"] /\ recent = 0
    /\ setup = [at |-> "none", tries |-> 0] /\ trade = "none"
    /\ boot = "done"
    /\ source = "whole" /\ trash = "none" /\ marker = "none"
    /\ finisher = [w \in {"owner", "boot"} |-> "idle"]
    /\ app = "up"
    /\ history = [wishes |-> 0, trades |-> 0, faults |-> 0, ends |-> 0, backups |-> 0, slips |-> 0,
                  wish |-> "stopped", revived |-> FALSE]

------------------------------------------------------------------------------

Exists == state # "gone"
LockFree == holder = Nobody /\ finisher["owner"] = "idle"
RegistryFree == holder.by # "backup"
Reserved == trade \in {"reserved", "answered"}
Fault(kind) ==
    /\ kind \in Failures /\ history.faults < MaxFaults
    /\ history' = [history EXCEPT !.faults = @ + 1,
                               !.ends = IF kind \in {"crash", "close"} THEN @ + 1 ELSE @]

\* registry.update writes the manifest after the row, and makes its directory.
Writes == source' = (IF source = "none" THEN "shell" ELSE source) /\ UNCHANGED <<trash, marker>>
Sets(s) == state' = s /\ Writes
Release == holder' = Nobody

\* What a thread does with the error of its start: a background job and the
\* start-up thread mark the row, the monitor and a recovery only log it.
Raises(by) ==
    IF Exists /\ (by = "boot" \/ (by = "job" /\ desired = "running"))
      THEN Sets("failed") ELSE UNCHANGED <<state, disk>>

------------------------------------------------------------------------------
(* The owner. *)

StartIsAsked ==
    /\ app = "up" /\ RegistryFree /\ page = "none" /\ Exists /\ ~archived
    /\ history.wishes < MaxWishes
    /\ page' = "start"
    /\ UNCHANGED <<row, child, orphan, holder, jobs, refused, monitor, recent, setup, trade, boot, disk, finisher, app, history>>

\* The request's body has arrived; nothing is read again.
StartIsAccepted ==
    /\ RegistryFree /\ page = "start" /\ page' = "none"
    /\ IF Exists /\ history.wishes < MaxWishes
         THEN /\ desired' = "running" /\ Sets("starting")
              /\ jobs' = jobs + 1 /\ history' = [history EXCEPT !.wishes = @ + 1, !.wish = "running"]
         ELSE UNCHANGED <<state, desired, disk, jobs, history>>
    /\ UNCHANGED <<archived, child, orphan, holder, refused, monitor, recent, setup, trade, boot, finisher, app>>

\* A reserved adventure is stopped by the end of its exchange.
StopIsAccepted ==
    /\ app = "up" /\ RegistryFree /\ Exists /\ history.wishes < MaxWishes
    /\ desired' = "stopped"
    /\ history' = [history EXCEPT !.wishes = @ + 1, !.wish = "stopped"]
    /\ IF Reserved THEN Writes /\ UNCHANGED jobs ELSE jobs' = jobs + 1 /\ UNCHANGED disk
    /\ UNCHANGED <<state, archived, child, orphan, holder, refused, page, monitor, recent, setup, trade, boot, finisher, app>>

EditIsChecked(kind) ==
    /\ kind \in Edits \ {"delete"}
    /\ app = "up" /\ RegistryFree /\ page = "none" /\ state \in {"stopped", "failed"} /\ ~Reserved
    /\ page' = kind
    /\ UNCHANGED <<row, child, orphan, holder, jobs, refused, monitor, recent, setup, trade, boot, disk, finisher, app, history>>

\* Only the archive route also ends the wish to run.
EditIsWritten ==
    /\ RegistryFree /\ page \in {"archive", "hide", "restore"} /\ page' = "none"
    /\ IF Exists
         THEN /\ archived' = (page # "restore") /\ Writes
              /\ desired' = IF page = "archive" THEN "stopped" ELSE desired
              /\ history' = [history EXCEPT
                    !.revived = @ \/ page = "restore",
                    !.wish = IF page = "restore" \/ desired = "stopped" \/ @ = "hidden" THEN @
                             ELSE IF page = "hide" THEN "hidden" ELSE "archived"]
         ELSE UNCHANGED <<archived, desired, disk, history>>
    /\ UNCHANGED <<state, child, orphan, holder, jobs, refused, monitor, recent, setup, trade, boot, finisher, app>>

------------------------------------------------------------------------------
(* start and stop, under the maintenance lock. *)

\* Variant: only the routes look at the archive.
StartReadsArchived(by) ==
    /\ LockFree
    /\ IF app # "up" THEN Raises(by) /\ UNCHANGED holder
         ELSE IF by # "trade" /\ desired = "stopped" THEN UNCHANGED <<state, disk, holder>>
         ELSE IF child = "live" THEN Sets("running") /\ UNCHANGED holder
         ELSE holder' = [by |-> by, at |-> "insert"] /\ UNCHANGED <<state, disk>>

\* supervisor.start reads the row once, closes a read-only view of the game ...
StartReads(by) ==
    /\ LockFree
    /\ IF app # "up" \/ (archived /\ (by = "trade" \/ desired = "running"))
         THEN Raises(by) /\ UNCHANGED holder
         ELSE IF by # "trade" /\ desired = "stopped" THEN UNCHANGED <<state, disk, holder>>
         ELSE IF child = "live" THEN Sets("running") /\ UNCHANGED holder
         ELSE holder' = [by |-> by, at |-> "insert"] /\ UNCHANGED <<state, disk>>

\* ... makes the entry, unless start-up has deleted the row since then ...
StartInserts ==
    /\ holder.at = "insert"
    /\ IF Exists THEN /\ child' = "launching" /\ Sets("starting")
                      /\ holder' = [holder EXCEPT !.at = "launch"]
                 ELSE Release /\ UNCHANGED <<state, child, disk>>
    /\ UNCHANGED <<desired, archived, orphan, jobs, refused, page, monitor, recent, setup, trade, boot, finisher, app, history>>

\* ... prepares the game data and launches the worker.
StartSucceeds ==
    /\ holder.at = "launch" /\ ~orphan /\ Exists
    /\ child' = "live" /\ Sets(IF holder.by = "trade" THEN "recovering" ELSE "running")
    /\ setup' = [at |-> "none", tries |-> 0] /\ Release
    /\ UNCHANGED <<desired, archived, orphan, jobs, refused, page, monitor, recent, trade, boot, finisher, app, history>>

\* A backup then pauses a game that was paused; when that fails, the row says so.
StartLosesPause ==
    /\ holder.at = "launch" /\ holder.by = "backup" /\ ~orphan /\ Exists
    /\ child' = "live" /\ Sets("failed")
    /\ setup' = [at |-> "none", tries |-> 0] /\ Release
    /\ history.faults < MaxFaults
    /\ history' = [history EXCEPT !.faults = @ + 1, !.slips = 1]
    /\ UNCHANGED <<desired, archived, orphan, jobs, refused, page, monitor, recent, trade, boot, finisher, app>>

\* A failed download is tried again some time later; any other failure is not.
StartFails ==
    /\ holder.at = "launch" /\ Exists
    /\ \/ orphan /\ UNCHANGED history
       \/ Fault("launch")
    /\ child' = "none" /\ Sets("failed") /\ Release
    /\ \/ setup' = [at |-> "none", tries |-> 0]
       \/ setup' = IF setup.tries < SetupRetries THEN [at |-> "due", tries |-> setup.tries + 1]
                                                  ELSE [at |-> "none", tries |-> 0]
    /\ UNCHANGED <<desired, archived, orphan, jobs, refused, page, monitor, recent, trade, boot, finisher, app>>

\* The row was deleted while the worker was launched: the error of writing it drops
\* the entry, but ends no worker that has started.
StartIsForgotten ==
    /\ holder.at = "launch" /\ ~Exists
    /\ child' = "none" /\ (orphan' = TRUE \/ UNCHANGED orphan) /\ Release
    /\ setup' = [at |-> "none", tries |-> 0] \/ UNCHANGED setup
    /\ UNCHANGED <<row, jobs, refused, page, monitor, recent, trade, boot, disk, finisher, app, history>>

\* supervisor.stop.
StopBegins(by) ==
    /\ LockFree
    /\ IF child = "none" THEN Sets("stopped") /\ UNCHANGED holder
                         ELSE Sets("stopping") /\ holder' = [by |-> by, at |-> "stop"]

\* The lock is free then, or the backup goes on.
StopLeads(s, place) ==
    /\ Sets(s)
    /\ holder' = IF holder.by = "backup" THEN [holder EXCEPT !.at = place] ELSE Nobody

\* A worker that exited with an error, or past its deadline, makes stop fail;
\* one that even a kill does not end keeps the adventure's files. The stop goes on
\* with a worker whose row start-up has deleted.
StopEnds ==
    /\ holder.at = "stop"
    /\ child' = "none"
    /\ \/ child = "live" /\ StopLeads("stopped", "copy") /\ UNCHANGED <<history, orphan>>
       \/ child = "dead" /\ StopLeads("failed", "again") /\ UNCHANGED <<history, orphan>>
       \/ child = "live" /\ StopLeads("failed", "again") /\ Fault("stop") /\ orphan' \in BOOLEAN
       \/ /\ ~Exists /\ (orphan' = FALSE \/ UNCHANGED orphan)
          /\ Release /\ UNCHANGED <<state, disk, history>>
    /\ UNCHANGED <<desired, archived, jobs, refused, page, monitor, recent, setup, trade, boot, finisher, app>>

\* Variant: a job leaves an adventure alone that is starting.
JobRunsUnlessStarting ==
    /\ jobs > 0 /\ jobs' = jobs - 1
    /\ \/ (app # "up" \/ ~Exists) /\ RegistryFree /\ Raises("job") /\ UNCHANGED <<setup, holder>>
       \/ /\ app = "up" /\ Exists /\ desired = "stopped"
          /\ IF Reserved \/ state = "starting" THEN UNCHANGED <<state, disk, holder>> ELSE StopBegins("job")
          /\ UNCHANGED setup
       \/ /\ app = "up" /\ Exists /\ desired = "running"
          /\ setup' = [at |-> "none", tries |-> 0] /\ StartReads("job")
    /\ UNCHANGED <<desired, archived, child, orphan, refused, page, monitor, recent, trade, boot, finisher, app, history>>

\* start_adventure: whoever queued it, it does what the row asks for now.
JobRuns ==
    /\ jobs > 0 /\ jobs' = jobs - 1
    /\ \/ (app # "up" \/ ~Exists) /\ RegistryFree /\ Raises("job") /\ UNCHANGED <<setup, holder>>
       \/ /\ app = "up" /\ Exists /\ desired = "stopped"
          /\ IF Reserved THEN LockFree /\ UNCHANGED <<state, disk, holder>> ELSE StopBegins("job")
          /\ UNCHANGED setup
       \/ /\ app = "up" /\ Exists /\ desired = "running"
          /\ setup' = [at |-> "none", tries |-> 0] /\ StartReads("job")
    /\ UNCHANGED <<desired, archived, child, orphan, refused, page, monitor, recent, trade, boot, finisher, app, history>>

------------------------------------------------------------------------------
(* A backup of the library. *)

Backing(places) == holder.by = "backup" /\ holder.at \in places

\* Variant: a row that does not say running needs no stop.
BackupTrustsRow ==
    /\ app = "up" /\ LockFree /\ ~Reserved /\ history.trades + history.backups < MaxVisits
    /\ holder' = [by |-> "backup", at |-> IF state # "running" THEN "copyonly" ELSE "ask"]
    /\ history' = [history EXCEPT !.backups = @ + 1]
    /\ UNCHANGED <<row, child, orphan, jobs, refused, page, monitor, recent, setup, trade, boot, disk, finisher, app>>

\* Whatever the rows say, it stops the workers there are.
BackupBegins ==
    /\ app = "up" /\ LockFree /\ ~Reserved /\ history.trades + history.backups < MaxVisits
    /\ holder' = [by |-> "backup", at |-> IF child = "none" THEN "copyonly" ELSE "ask"]
    /\ history' = [history EXCEPT !.backups = @ + 1]
    /\ UNCHANGED <<row, child, orphan, jobs, refused, page, monitor, recent, setup, trade, boot, disk, finisher, app>>

\* One worker that does not answer calls the backup off.
BackupAsks ==
    /\ Backing({"ask"})
    /\ \/ /\ child = "live" /\ Sets("stopping")
          /\ holder' = [holder EXCEPT !.at = "stop"] /\ UNCHANGED history
       \/ /\ IF child = "live" THEN Fault("worker") ELSE UNCHANGED history
          /\ holder' = [holder EXCEPT !.at = "again"] /\ UNCHANGED <<state, disk>>
    /\ UNCHANGED <<desired, archived, child, orphan, jobs, refused, page, monitor, recent, setup, trade, boot, finisher, app>>

\* Copied, or the copy failed.
BackupCopies ==
    /\ Backing({"copy", "copyonly"})
    /\ holder' = IF holder.at = "copy" THEN [holder EXCEPT !.at = "again"] ELSE Nobody
    /\ UNCHANGED <<row, child, orphan, jobs, refused, page, monitor, recent, setup, trade, boot, disk, finisher, app, history>>

\* Each worker there was is started as far as its row allows, and any error is
\* written to the row; a worker still there answers as before.
BackupResumes ==
    /\ Backing({"again"})
    /\ \/ app # "up" /\ Sets("failed") /\ Release
       \/ /\ desired = "stopped" /\ Release
          /\ \/ UNCHANGED <<state, disk>>
             \/ child # "live" /\ Sets("failed")
       \/ desired = "running" /\ archived /\ Sets("failed") /\ Release
       \/ desired = "running" /\ ~archived /\ child = "live" /\ Sets("running") /\ Release
       \/ /\ desired = "running" /\ ~archived /\ child # "live"
          /\ holder' = [holder EXCEPT !.at = "insert"] /\ UNCHANGED <<state, disk>>
    /\ UNCHANGED <<desired, archived, child, orphan, jobs, refused, page, monitor, recent, setup, trade, boot, finisher, app, history>>

\* start_adventure fails while a backup is under way, and cannot say so before the
\* backup is over.
JobIsRefused ==
    /\ jobs > 0 /\ Backing({"ask", "stop", "copy", "copyonly"})
    /\ jobs' = jobs - 1 /\ refused' = refused + 1
    /\ history' = [history EXCEPT !.slips = 1]
    /\ UNCHANGED <<row, child, orphan, holder, page, monitor, recent, setup, trade, boot, disk, finisher, app>>

RefusalIsTold ==
    /\ refused > 0 /\ RegistryFree
    /\ refused' = refused - 1 /\ Raises("job")
    /\ UNCHANGED <<desired, archived, child, orphan, holder, jobs, page, monitor, recent, setup, trade, boot, finisher, app, history>>

------------------------------------------------------------------------------
(* The worker and the monitor. *)

WorkerDies ==
    /\ child = "live" /\ Fault("worker") /\ child' = "dead"
    /\ UNCHANGED <<row, orphan, holder, jobs, refused, page, monitor, recent, setup, trade, boot, disk, finisher, app>>

\* A worker that lost its parent saves and exits, or is ended after 45 seconds.
OrphanEnds ==
    /\ orphan /\ orphan' = FALSE
    /\ UNCHANGED <<row, child, holder, jobs, refused, page, monitor, recent, setup, trade, boot, disk, finisher, app, history>>

Monitoring == monitor.at = "idle" /\ app = "up"

\* The worker answered; what it said is recorded after some more requests ...
MonitorHears ==
    /\ Monitoring /\ child = "live"
    /\ monitor' = [monitor EXCEPT !.at = "report"]
    /\ UNCHANGED <<row, child, orphan, holder, jobs, refused, page, recent, setup, trade, boot, disk, finisher, app, history>>

\* ... and no handler is there for an adventure that is gone by then.
MonitorReports ==
    /\ RegistryFree /\ monitor.at = "report"
    /\ monitor' = [monitor EXCEPT !.at = IF Exists THEN "idle" ELSE "ended"]
    /\ IF Exists THEN Writes ELSE UNCHANGED disk
    /\ UNCHANGED <<row, child, orphan, holder, jobs, refused, page, recent, setup, trade, boot, finisher, app, history>>

\* A worker that has not answered for a minute is stopped.
MonitorKills ==
    /\ Monitoring /\ child = "live" /\ LockFree /\ Fault("worker")
    /\ child' = "dead" /\ Sets("failed")
    /\ UNCHANGED <<desired, archived, orphan, holder, jobs, refused, page, monitor, recent, setup, trade, boot, finisher, app>>

\* Variant: the row is left for the restart to write.
MonitorFindsQuietly ==
    /\ Monitoring /\ child = "dead" /\ LockFree
    /\ child' = "none"
    /\ monitor' = [at |-> "decide", seen |-> desired]
    /\ UNCHANGED <<row, disk, orphan, holder, jobs, refused, page, recent, setup, trade, boot, finisher, app, history>>

MonitorFindsDead ==
    /\ Monitoring /\ child = "dead" /\ LockFree
    /\ child' = "none" /\ Sets("failed")
    /\ monitor' = [at |-> "decide", seen |-> desired]
    /\ UNCHANGED <<desired, archived, orphan, holder, jobs, refused, page, recent, setup, trade, boot, finisher, app, history>>

MonitorDecides ==
    /\ RegistryFree /\ monitor.at = "decide"
    /\ IF monitor.seen = "running" /\ recent < Retries /\ ~Reserved
         THEN recent' = recent + 1 /\ monitor' = [at |-> "restart", seen |-> "stopped"]
         ELSE monitor' = [at |-> "idle", seen |-> "stopped"] /\ UNCHANGED recent
    /\ UNCHANGED <<row, child, orphan, holder, jobs, refused, page, setup, trade, boot, disk, finisher, app, history>>

\* Five minutes without a crash.
RetriesAreForgotten ==
    /\ recent > 0 /\ recent' = 0
    /\ UNCHANGED <<row, child, orphan, holder, jobs, refused, page, monitor, setup, trade, boot, disk, finisher, app, history>>

\* The start reads the row again.
MonitorRestarts ==
    /\ monitor.at = "restart" /\ monitor' = [monitor EXCEPT !.at = "idle"]
    /\ IF Exists THEN StartReads("monitor") ELSE LockFree /\ UNCHANGED <<state, disk, holder>>
    /\ UNCHANGED <<desired, archived, child, orphan, jobs, refused, page, recent, setup, trade, boot, finisher, app, history>>

MonitorRetriesSetup ==
    /\ RegistryFree /\ Monitoring /\ setup.at = "due"
    /\ IF state = "failed" /\ desired = "running" /\ ~archived
         THEN setup' = [setup EXCEPT !.at = "none"] /\ monitor' = [monitor EXCEPT !.at = "restart"]
         ELSE setup' = [at |-> "none", tries |-> 0] /\ UNCHANGED monitor
    /\ UNCHANGED <<row, child, orphan, holder, jobs, refused, page, recent, trade, boot, disk, finisher, app, history>>

------------------------------------------------------------------------------
(* An exchange that reserves the adventure. *)

TradeReserves ==
    /\ app = "up" /\ trade = "none" /\ history.trades + history.backups < MaxVisits /\ boot = "done"
    /\ LockFree /\ ~archived /\ state = "running" /\ desired = "running"
    /\ trade' = "reserved" /\ history' = [history EXCEPT !.trades = @ + 1]
    /\ UNCHANGED <<row, child, orphan, holder, jobs, refused, page, monitor, recent, setup, boot, disk, finisher, app>>

\* Its recovery starts the worker for each request, or marks the one there is as
\* running, whatever the owner wants.
TradeRecovers ==
    /\ trade = "reserved" /\ app = "up" /\ Exists
    /\ StartReads("trade")
    /\ UNCHANGED <<desired, archived, child, orphan, jobs, refused, page, monitor, recent, setup, trade, boot, finisher, app, history>>

\* The last request is answered; the other adventure's may take longer.
TradeAnswers ==
    /\ trade = "reserved" /\ child = "live" /\ app = "up"
    /\ trade' = "answered"
    /\ UNCHANGED <<row, child, orphan, holder, jobs, refused, page, monitor, recent, setup, boot, disk, finisher, app, history>>

TradeResolves ==
    /\ trade = "answered" /\ app # "down"
    /\ trade' = "over"
    /\ UNCHANGED <<row, child, orphan, holder, jobs, refused, page, monitor, recent, setup, boot, disk, finisher, app, history>>

\* The end of _recover reads what the owner wants ...
TradeReads ==
    /\ RegistryFree /\ trade = "over"
    /\ trade' = IF desired = "stopped" THEN "stop" ELSE "resume"
    /\ UNCHANGED <<row, child, orphan, holder, jobs, refused, page, monitor, recent, setup, boot, disk, finisher, app, history>>

\* ... and stops the adventure once it gets the lock, or marks it as running.
TradeStops ==
    /\ trade = "stop" /\ trade' = "none"
    /\ IF Exists THEN desired' = "stopped" /\ StopBegins("trade")
                 ELSE UNCHANGED <<state, desired, disk, holder>>
    /\ UNCHANGED <<archived, child, orphan, jobs, refused, page, monitor, recent, setup, boot, finisher, app, history>>

TradeResumes ==
    /\ RegistryFree /\ trade = "resume" /\ trade' = "none"
    /\ IF Exists THEN Sets("running") ELSE UNCHANGED <<state, disk>>
    /\ UNCHANGED <<desired, archived, child, orphan, holder, jobs, refused, page, monitor, recent, setup, boot, finisher, app, history>>

------------------------------------------------------------------------------
(* Deletion. *)

\* Variant: the owner has asked for the stop, so the worker is gone.
DeletionIsMarkedEarly ==
    /\ "delete" \in Edits /\ app = "up" /\ LockFree
    /\ Exists /\ desired = "stopped" /\ ~Reserved
    /\ marker' = "pending" /\ state' = "deleting" /\ archived' = TRUE
    /\ history' = [history EXCEPT !.revived = FALSE]
    /\ finisher' = [finisher EXCEPT !["owner"] = "rename"]
    /\ UNCHANGED <<desired, child, orphan, holder, jobs, refused, page, monitor, recent, setup, trade, boot, source, trash, app>>

\* Checked and made durable under the lock.
DeletionIsMarked ==
    /\ "delete" \in Edits /\ app = "up" /\ LockFree
    /\ state \in {"stopped", "failed", "deleting"} /\ desired = "stopped" /\ ~Reserved
    /\ child \notin {"live", "launching"}
    /\ marker' = "pending" /\ state' = "deleting" /\ archived' = TRUE
    /\ history' = [history EXCEPT !.revived = FALSE]
    /\ finisher' = [finisher EXCEPT !["owner"] = "rename"]
    /\ UNCHANGED <<desired, child, orphan, holder, jobs, refused, page, monitor, recent, setup, trade, boot, source, trash, app>>

Goes(w, place) == finisher' = [finisher EXCEPT ![w] = place]

\* Two directories of one adventure are kept for a human to look at.
FinishRenames(w) ==
    /\ finisher[w] = "rename" /\ app # "down"
    /\ IF source # "none" /\ trash # "none"
         THEN Goes(w, "idle") /\ UNCHANGED <<source, trash>>
         ELSE /\ Goes(w, "remove")
              /\ source' = "none" /\ trash' = IF source # "none" THEN "whole" ELSE trash
    /\ UNCHANGED <<row, child, orphan, holder, jobs, refused, page, monitor, recent, setup, trade, boot, marker, app, history>>

FinishRemoves(w) ==
    /\ finisher[w] = "remove" /\ app # "down"
    /\ \/ trash' = "none" /\ Goes(w, "forget") /\ UNCHANGED history
       \/ trash # "none" /\ Fault("remove") /\ Goes(w, "idle") /\ UNCHANGED trash
    /\ UNCHANGED <<row, child, orphan, holder, jobs, refused, page, monitor, recent, setup, trade, boot, source, marker, app>>

\* The row goes in the transaction that completes the intent.
FinishForgets(w) ==
    /\ RegistryFree /\ finisher[w] = "forget" /\ app # "down"
    /\ state' = "gone" /\ marker' = "complete" /\ Goes(w, "idle")
    /\ orphan' = (orphan \/ child = "live") /\ child' = "none" /\ recent' = 0
    /\ UNCHANGED <<desired, archived, holder, jobs, refused, page, monitor, setup, trade, boot, source, trash, app, history>>

------------------------------------------------------------------------------
(* The application's own start, shutdown and crash. *)

BootGoes(place) == boot' = place

\* recover_deletions holds no lock.
BootDeletes ==
    /\ RegistryFree /\ boot = "delete" /\ app = "up" /\ BootGoes("recover")
    /\ IF marker = "pending" THEN Goes("boot", "rename") ELSE UNCHANGED finisher
    /\ UNCHANGED <<row, child, orphan, holder, jobs, refused, page, monitor, recent, setup, trade, disk, app, history>>

\* coordinator.recover comes back when each unresolved row was tried once.
BootRecovers ==
    /\ RegistryFree /\ boot = "recover" /\ app = "up" /\ finisher["boot"] = "idle" /\ BootGoes("list")
    /\ UNCHANGED <<row, child, orphan, holder, jobs, refused, page, monitor, recent, setup, trade, disk, finisher, app, history>>

\* Variant: what ran before is started again.
BootListsRunning ==
    /\ RegistryFree /\ boot = "list" /\ app = "up"
    /\ \E auto \in AutoStarts :
         IF ~archived /\ state = "running" /\ (desired = "running" \/ auto)
           THEN BootGoes("wish") /\ UNCHANGED monitor
           ELSE BootGoes("done") /\ monitor' = [monitor EXCEPT !.at = "idle"]
    /\ UNCHANGED <<row, child, orphan, holder, jobs, refused, page, recent, setup, trade, disk, finisher, app, history>>

\* The rows are listed once; starting the games before this one takes minutes.
BootLists ==
    /\ RegistryFree /\ boot = "list" /\ app = "up"
    /\ \E auto \in AutoStarts :
         IF ~archived /\ state \notin {"recovering", "gone"} /\ (desired = "running" \/ auto)
           THEN BootGoes("wish") /\ UNCHANGED monitor
           ELSE BootGoes("done") /\ monitor' = [monitor EXCEPT !.at = "idle"]
    /\ UNCHANGED <<row, child, orphan, holder, jobs, refused, page, recent, setup, trade, disk, finisher, app, history>>

\* It writes its wish over whatever the row says by now; an adventure deleted since
\* then ends the start-up thread.
BootWishes ==
    /\ RegistryFree /\ boot = "wish" /\ app = "up"
    /\ IF Exists
         THEN /\ desired' = "running" /\ Writes /\ BootGoes("start")
              /\ history' = [history EXCEPT !.wish = IF desired = "stopped" THEN "overruled" ELSE @]
         ELSE UNCHANGED <<desired, disk, history>> /\ BootGoes("ended")
    /\ UNCHANGED <<state, archived, child, orphan, holder, jobs, refused, page, monitor, recent, setup, trade, finisher, app>>

BootStarts ==
    /\ boot = "start" /\ app # "down"
    /\ IF Exists THEN StartReads("boot") /\ BootGoes("done") /\ monitor' = [monitor EXCEPT !.at = "idle"]
                 ELSE LockFree /\ UNCHANGED <<state, disk, holder, monitor>> /\ BootGoes("ended")
    /\ UNCHANGED <<desired, archived, child, orphan, jobs, refused, page, recent, setup, trade, finisher, app, history>>

\* Everything in memory is lost; a live worker notices its parent's end later.
Vanishes ==
    /\ holder' = Nobody /\ jobs' = 0 /\ refused' = 0 /\ page' = "none" /\ child' = "none"
    /\ monitor' = [at |-> "off", seen |-> "stopped"] /\ recent' = 0
    /\ setup' = [at |-> "none", tries |-> 0]
    /\ trade' = IF Reserved THEN "reserved" ELSE "none"
    /\ boot' = "off"
    /\ finisher' = [w \in {"owner", "boot"} |-> "idle"]
    /\ app' = "down"

\* A start may be cut off before its worker is a process or after that.
Crash ==
    /\ app # "down" /\ Fault("crash") /\ Vanishes
    /\ \/ orphan' = (orphan \/ child = "live")
       \/ child = "launching" /\ orphan' = TRUE
    /\ UNCHANGED <<row, disk>>

Closes ==
    /\ app = "up" /\ Fault("close") /\ app' = "closing"
    /\ UNCHANGED <<row, child, orphan, holder, jobs, refused, page, monitor, recent, setup, trade, boot, disk, finisher>>

\* Jobs and the start-up thread are waited for, then every worker is stopped.
Closed ==
    /\ app = "closing" /\ LockFree /\ jobs = 0 /\ refused = 0 /\ page = "none"
    /\ finisher["boot"] = "idle" /\ boot # "start"
    /\ monitor.at \notin {"report", "restart"}
    /\ Vanishes
    /\ IF child = "none" THEN UNCHANGED <<state, disk>>
                         ELSE Sets(IF child = "dead" THEN "failed" ELSE "stopped")
    /\ UNCHANGED <<desired, archived, orphan, history>>

Boots ==
    /\ app = "down" /\ app' = "up" /\ BootGoes("delete")
    /\ UNCHANGED <<row, child, orphan, holder, jobs, refused, page, monitor, recent, setup, trade, disk, finisher, history>>

------------------------------------------------------------------------------

Owner ==
    \/ StartIsAsked \/ StartIsAccepted \/ StopIsAccepted
    \/ \E kind \in EditKinds : EditIsChecked(kind)
    \/ EditIsWritten \/ DeletionIsMarked
Threads ==
    \/ StartInserts \/ StartSucceeds \/ StartFails \/ StartIsForgotten \/ StopEnds \/ JobRuns
    \/ JobIsRefused \/ RefusalIsTold
    \/ \E w \in {"owner", "boot"} : FinishRenames(w) \/ FinishRemoves(w) \/ FinishForgets(w)
Monitor ==
    \/ MonitorHears \/ MonitorReports \/ MonitorFindsDead \/ MonitorDecides
    \/ MonitorRestarts \/ MonitorRetriesSetup
Backup == BackupBegins \/ BackupAsks \/ BackupCopies \/ BackupResumes \/ StartLosesPause
Trade == TradeReserves \/ TradeRecovers \/ TradeAnswers \/ TradeResolves \/ TradeReads \/ TradeStops \/ TradeResumes
Boot == BootDeletes \/ BootRecovers \/ BootLists \/ BootWishes \/ BootStarts
Environment == WorkerDies \/ OrphanEnds \/ MonitorKills \/ RetriesAreForgotten \/ Crash \/ Closes \/ Closed \/ Boots

LifecycleNext == Owner \/ Threads \/ Backup \/ Monitor \/ Trade \/ Boot \/ Environment

LifecycleSpec == LifecycleInit /\ [][LifecycleNext]_vars

------------------------------------------------------------------------------
(* What the owner can rely on. *)

\* Nothing is under way: the row says what there is to say.
AtRest ==
    /\ app = "up" /\ boot = "done" /\ LockFree /\ finisher["boot"] = "idle"
    /\ jobs = 0 /\ refused = 0 /\ page = "none" /\ trade = "none"
    /\ monitor.at = "idle" /\ setup.at = "none" /\ child # "dead"

\* The library shows what is: at rest an adventure is running exactly when its
\* worker is, however starts, stops, failures and the monitor overlapped. After the
\* application's end, an exchange or a slip of a backup the row may be stale, and a
\* running adventure hidden by PATCH may be shown as failed: the README says how.
StateIsHonest ==
    AtRest /\ history.trades = 0 /\ history.ends = 0 =>
        /\ state = "running" => child = "live"
        /\ history.slips = 0 =>
             /\ state \notin {"starting", "stopping"}
             /\ child = "live" /\ history.wish # "hidden" => state = "running"

\* "Quiesced portable backups": while the library is copied no worker of the
\* application runs or starts, and no exchange has reserved the adventure.
CopyIsQuiet ==
    holder.at \in {"copy", "copyonly"} => child \notin {"launching", "live"} /\ ~Reserved

\* No step of the owner's deletion or of the next start-up's takes the directory from
\* under a worker in supervisor.children, or from an exchange, unless the adventure
\* was restored after its deletion had been marked. (deletion.py checks no other
\* worker: RemovalIsQuiet.)
RemovalSparesWorkers ==
    [][source # "none" /\ source' = "none" =>
         history.revived \/ (child \notin {"launching", "live"} /\ ~Reserved)]_vars

\* Until its owner restores it, no thread starts an adventure whose deletion has
\* begun: not a job queued before, the monitor, an exchange, a backup or start-up.
RevivalIsAsked ==
    [][marker = "pending" /\ ~history.revived => ~(child # "launching" /\ child' = "launching")]_vars

\* "A pending trade or live worker blocks deletion" (docs/next-release.md): whole
\* saves are not taken away while any process owns their directory. It does not
\* hold: after a crash the next application knows nothing of a worker that still exits.
RemovalIsQuiet ==
    [][source = "whole" /\ source' # "whole" =>
         child \notin {"launching", "live"} /\ ~orphan /\ ~Reserved]_vars

\* "Resume permanent adventure deletion without reviving a partially removed game"
\* (deletion.py): while a deletion is unfinished nothing starts the adventure.
DeletedNeverStarts ==
    [][marker = "pending" => ~(child # "launching" /\ child' = "launching")]_vars

\* "Startup does not revive a game the owner intentionally stopped"
\* (docs/multi-adventure-app-plan.md): its start does not rest on a wish that
\* start-up itself wrote over the owner's stop. It does not hold: a stop accepted
\* after the rows were listed is overwritten.
StartupKeepsStopped ==
    [][holder.by = "boot" /\ child # "launching" /\ child' = "launching" =>
         history.wish # "overruled"]_vars

\* The monitor watches every game until the application ends.
MonitorLives == monitor.at # "ended"

------------------------------------------------------------------------------
(* Progress: threads run, an application that ended is started again. *)

Fairness ==
    /\ WF_vars(\/ StartInserts \/ StartSucceeds \/ StartLosesPause \/ StartFails
               \/ StartIsForgotten \/ StopEnds
               \/ BackupAsks \/ BackupCopies \/ BackupResumes)
    /\ SF_vars(JobRuns) /\ SF_vars(RefusalIsTold)
    /\ SF_vars(TradeStops) /\ SF_vars(TradeRecovers)
    /\ SF_vars(MonitorFindsDead) /\ SF_vars(MonitorRestarts)
    /\ WF_vars(MonitorReports \/ MonitorDecides) /\ WF_vars(MonitorRetriesSetup)
    /\ WF_vars(StartIsAccepted \/ EditIsWritten)
    /\ WF_vars(TradeAnswers \/ TradeResolves \/ TradeReads \/ TradeResumes)
    /\ \A w \in {"owner", "boot"} : WF_vars(FinishRenames(w) \/ FinishRemoves(w) \/ FinishForgets(w))
    /\ WF_vars(BootDeletes \/ BootRecovers \/ BootLists \/ BootWishes) /\ SF_vars(BootStarts)
    /\ WF_vars(Closed \/ Boots) /\ WF_vars(OrphanEnds)

FairLifecycle == LifecycleSpec /\ Fairness

\* "An adventure requested to stop must not restart just because its process exits":
\* once the owner's last word is a stop the worker ends and stays away, whatever
\* jobs, failures, the monitor, an exchange or start-up do; unless start-up overruled
\* the stop, or a backup refused its job (see the README).
StopIsObeyed ==
    <>[](history.wish = "stopped" /\ history.slips = 0) => <>[](child = "none")

\* An adventure its owner wants to run runs, or says that it failed, whatever fails;
\* unless its deletion was marked before the request was written, or it takes part in
\* an exchange, whose end may lose it (see the README).
StartIsObeyed ==
    history.wish = "running" ~>
        \/ child = "live" \/ state \in {"failed", "gone"}
        \/ archived \/ history.wish # "running" \/ history.trades > 0
==============================================================================
