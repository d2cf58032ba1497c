------------------------------ MODULE Backups ------------------------------
(***************************************************************************)
(* backup_now and restore_backup (internal/executor/backup.go) for one     *)
(* application: its container, its volume and its database, the temporary  *)
(* directories of the agent and the object storage.                        *)
(*                                                                         *)
(* Data is a version number: every write of the application makes a new    *)
(* one, of its volume and of its database.  Partial is a file that was cut *)
(* off, Broken the data of an application that a restore left half done.   *)
(***************************************************************************)
EXTENDS Integers

CONSTANTS
    Objects,        \* what backups are stored as; the id of a run names one
    MaxWrites,
    MaxCommands,
    MaxFaults       \* failed programs and kills

ASSUME BackupsAssumption ==
    /\ "run" \notin Objects
    /\ MaxWrites \in Nat
    /\ MaxCommands \in Nat
    /\ MaxFaults \in Nat

Versions == 0..MaxWrites
Absent == -1
Partial == -2
Broken == -3
Content == Versions \union {Absent, Partial, Broken}

VARIABLES
    volume,         \* the data in the volume
    database,       \* the data in the database
    driver,         \* "mysql" or "pgsql"
    app,            \* the container of the application
    files,          \* the temporary directories
    store,          \* the object storage
    refused,        \* the uploads that it refused
    done,           \* the backups that were reported as done
    command,
    pc,             \* the program that comes next
    writes, commands, faults

data == <<volume, database>>
storage == <<store, refused, done>>
bounds == <<writes, commands, faults>>
vars == <<volume, database, driver, app, files, store, refused, done, command, pc,
          writes, commands, faults>>

\* The payload may name no run, and its database may be missing or malformed.
Command == [type : {"backup", "restore"}, object : Objects, named : BOOLEAN,
            db : {"none", "good", "bad"}]
NoCommand == [type |-> "none"]

Archive == [volume : Content, sql : Content]
NoArchive == [volume |-> Absent, sql |-> Absent]
Garbled == [volume |-> Partial, sql |-> Partial]

\* The two roots of directories, and the directory of a run in them.
Dirs == {"backup", "restore"} \X (Objects \union {"run"})
Files == [volume : Content, sql : Content, archive : Archive]
NoFiles == [volume |-> Absent, sql |-> Absent, archive |-> NoArchive]

BackupSteps == {"tar volume", "dump", "tar", "upload", "stat"}
RestoreSteps == {"download", "extract", "stop", "volume", "import", "start"}

TypeOK ==
    /\ volume \in Versions \union {Broken}
    /\ database \in Versions \union {Broken}
    /\ driver \in {"mysql", "pgsql"}
    /\ app \in {"running", "stopped"}
    /\ files \in [Dirs -> Files]
    /\ store \in [Objects -> Archive]
    /\ refused \in SUBSET Objects
    /\ done \in SUBSET Objects
    /\ command \in Command \union {NoCommand}
    /\ pc \in {"idle", "mkdir"} \union BackupSteps \union RestoreSteps
    /\ writes \in 0..MaxWrites
    /\ commands \in 0..MaxCommands
    /\ faults \in 0..MaxFaults
    /\ command = NoCommand <=> pc = "idle"

Init ==
    /\ volume = 0
    /\ database = 0
    /\ driver \in {"mysql", "pgsql"}
    /\ app = "running"
    /\ files = [d \in Dirs |-> NoFiles]
    /\ store = [o \in Objects |-> NoArchive]
    /\ refused = {}
    /\ done = {}
    /\ command = NoCommand
    /\ pc = "idle"
    /\ writes = 0
    /\ commands = 0
    /\ faults = 0

Fault ==
    /\ faults < MaxFaults
    /\ faults' = faults + 1

\* stringOrDefault: a payload without an id shares the directory "run".
Here == <<command.type, IF command.named THEN command.object ELSE "run">>

\* A program succeeds, or has no say, and the next one is run.
Then(from, to) ==
    /\ pc = from
    /\ pc' = to
    /\ UNCHANGED <<driver, command, bounds>>

\* Mutant: the command that is over is not forgotten.
AfterReturn == command

AfterCommand == NoCommand

\* The executor returns; an error is all the control plane learns.
Returns ==
    /\ pc' = "idle"
    /\ command' = AfterCommand
    /\ UNCHANGED <<driver, writes, commands>>

Fails(from) ==
    /\ pc = from
    /\ Fault
    /\ Returns

-----------------------------------------------------------------------------
(* The application and the control plane                                   *)

Write ==
    /\ app = "running"
    /\ writes < MaxWrites
    /\ writes' = writes + 1
    /\ volume' = writes + 1
    /\ database' = writes + 1
    /\ UNCHANGED <<driver, app, files, storage, command, pc, commands, faults>>

\* A run of a backup has an object of its own.
Begin ==
    /\ pc = "idle"
    /\ commands < MaxCommands
    /\ commands' = commands + 1
    /\ command' \in Command
    /\ command'.type = "backup" =>
        store[command'.object] = NoArchive /\ command'.object \notin refused \union done
    /\ pc' = "mkdir"
    /\ UNCHANGED <<data, driver, app, files, storage, writes, faults>>

\* A payload without a name or with a malformed one or URL is refused first;
\* nothing has happened either if mkdir fails.
Refuse ==
    /\ pc = "mkdir"
    /\ Returns
    /\ UNCHANGED <<data, app, files, storage, faults>>

MakeDirectory ==
    /\ Then("mkdir", IF command.type = "backup" THEN "tar volume" ELSE "download")
    /\ UNCHANGED <<data, app, files, storage>>

\* The directory of the command, and what a program leaves in it.
Mine == files[Here]
Leaves(new) == files' = [files EXCEPT ![Here] = new]

-----------------------------------------------------------------------------
(* backupNow                                                               *)

\* The volume is read while the application runs.
TarVolume ==
    /\ Then("tar volume", IF command.db = "none" THEN "tar" ELSE "dump")
    /\ Leaves([Mine EXCEPT !.volume = volume])
    /\ UNCHANGED <<data, app, storage>>

\* Mutant: the backup goes on without its volume.
TarVolumeIgnored ==
    /\ Fault
    /\ pc = "tar volume"
    /\ pc' = "tar"
    /\ Leaves([Mine EXCEPT !.volume = Partial])
    /\ UNCHANGED <<data, driver, app, storage, command, writes, commands>>

TarVolumeFails ==
    /\ Fails("tar volume")
    /\ Leaves([Mine EXCEPT !.volume = Partial])
    /\ UNCHANGED <<data, app, storage>>

Dump ==
    /\ Then("dump", "tar")
    /\ command.db = "good"
    /\ Leaves([Mine EXCEPT !.sql = database])
    /\ UNCHANGED <<data, app, storage>>

DumpFails ==
    /\ Fails("dump")
    /\ command.db = "good"
    /\ Leaves([Mine EXCEPT !.sql = Partial])
    /\ UNCHANGED <<data, app, storage>>

\* A malformed database is noticed where it is needed.
DatabaseRefused ==
    /\ pc \in {"dump", "import"}
    /\ command.db = "bad"
    /\ Returns
    /\ UNCHANGED <<data, app, files, storage, faults>>

Tar ==
    /\ Then("tar", "upload")
    /\ Leaves([Mine EXCEPT !.archive =
                [volume |-> Mine.volume,
                 sql |-> IF command.db = "none" THEN Absent ELSE Mine.sql]])
    /\ UNCHANGED <<data, app, storage>>

TarFails ==
    /\ Fails("tar")
    /\ Leaves([Mine EXCEPT !.archive = Garbled])
    /\ UNCHANGED <<data, app, storage>>

Stored == [store EXCEPT ![command.object] = Mine.archive]

\* curl without --fail succeeds when the storage refuses the archive.
Upload ==
    /\ Then("upload", "stat")
    /\ \/ store' = Stored /\ UNCHANGED refused
       \/ refused' = refused \union {command.object} /\ UNCHANGED store
    /\ UNCHANGED <<data, app, files, done>>

\* Mutant: the result of curl is not looked at.
UploadIgnored ==
    /\ Fault
    /\ pc = "upload"
    /\ pc' = "stat"
    /\ UNCHANGED <<data, driver, app, files, storage, command, writes, commands>>

\* The archive may have arrived all the same.
UploadFails ==
    /\ Fails("upload")
    /\ store' \in {store, Stored}
    /\ UNCHANGED <<data, app, files, refused, done>>

Stat ==
    /\ pc = "stat"
    /\ Returns
    /\ done' = done \union {command.object}
    /\ UNCHANGED <<data, app, files, store, refused, faults>>

StatFails ==
    /\ Fails("stat")
    /\ UNCHANGED <<data, app, files, storage>>

-----------------------------------------------------------------------------
(* restoreBackup                                                           *)

\* curl without --fail keeps the page of an error as the archive.
Download ==
    /\ Then("download", "extract")
    /\ \E got \in {store[command.object], Garbled} \ {NoArchive} :
        Leaves([Mine EXCEPT !.archive = got])
    /\ UNCHANGED <<data, app, storage>>

DownloadFails ==
    /\ Fails("download")
    /\ Leaves([Mine EXCEPT !.archive = Garbled])
    /\ UNCHANGED <<data, app, storage>>

\* A file that is not in the archive stays as it was in the directory.
Extract ==
    /\ Then("extract", "stop")
    /\ Mine.archive # Garbled
    /\ Leaves([Mine EXCEPT !.volume = Mine.archive.volume,
                           !.sql = IF Mine.archive.sql = Absent THEN @ ELSE Mine.archive.sql])
    /\ UNCHANGED <<data, app, storage>>

\* Mutant: whatever tar says, the restore goes on.
ExtractIgnored ==
    /\ pc = "extract"
    /\ pc' = "stop"
    /\ Leaves([Mine EXCEPT !.volume = Partial])
    /\ UNCHANGED <<data, driver, app, storage, command, bounds>>

\* What is no archive is not extracted, or not to its end.
ExtractFails ==
    /\ pc = "extract"
    /\ IF Mine.archive = Garbled THEN UNCHANGED faults ELSE Fault
    /\ Returns
    /\ \E left \in {Mine.volume, Partial} : Leaves([Mine EXCEPT !.volume = left])
    /\ UNCHANGED <<data, app, storage>>

Stop ==
    /\ Then("stop", "volume")
    /\ app' = "stopped"
    /\ UNCHANGED <<data, files, storage>>

\* An error after the volume was touched leaves the application stopped.
StopOrStartFails ==
    /\ \E from \in {"stop", "start"} : Fails(from)
    /\ UNCHANGED <<data, app, files, storage>>

RestoreVolume ==
    /\ Then("volume", IF command.db = "none" THEN "start" ELSE "import")
    /\ volume' = Mine.volume
    /\ UNCHANGED <<database, app, files, storage>>

\* Mutant: the application is started again whatever has become of its volume.
RestoreVolumeIgnored ==
    /\ Fault
    /\ pc = "volume"
    /\ pc' = "start"
    /\ volume' \in {volume, Broken}
    /\ UNCHANGED <<database, driver, app, files, storage, command, writes, commands>>

RestoreVolumeFails ==
    /\ Fails("volume")
    /\ volume' \in {volume, Broken}
    /\ UNCHANGED <<database, app, files, storage>>

\* Mutant: a restore without a database dump goes on.
ImportIgnored ==
    /\ pc = "import"
    /\ pc' = "start"
    /\ database' = IF Mine.sql = Absent THEN database ELSE Mine.sql
    /\ UNCHANGED <<volume, driver, app, files, storage, command, bounds>>

\* psql succeeds though the statements for what exists already have failed.
Import ==
    /\ Then("import", "start")
    /\ command.db = "good"
    /\ Mine.sql # Absent
    /\ database' \in {Mine.sql} \union (IF driver = "pgsql" THEN {Broken} ELSE {})
    /\ UNCHANGED <<volume, app, files, storage>>

\* Mutant: the application is started again whatever has become of its database.
ImportFailureIgnored ==
    /\ Fault
    /\ pc = "import"
    /\ pc' = "start"
    /\ database' \in {database, Broken}
    /\ UNCHANGED <<volume, driver, app, files, storage, command, writes, commands>>

ImportFails ==
    /\ pc = "import"
    /\ command.db = "good"
    /\ IF Mine.sql = Absent
       THEN UNCHANGED <<database, faults>>
       ELSE Fault /\ database' \in {database, Broken}
    /\ Returns
    /\ UNCHANGED <<volume, app, files, storage>>

Start ==
    /\ pc = "start"
    /\ Returns
    /\ app' = "running"
    /\ UNCHANGED <<data, files, storage, faults>>

-----------------------------------------------------------------------------
\* The agent ends in the middle of a command or between two.  Its unit has
\* PrivateTmp: the directories are gone.
Kill ==
    /\ Fault
    /\ Returns
    /\ files' = [d \in Dirs |-> NoFiles]
    /\ volume' \in IF pc = "volume" THEN {volume, Broken} ELSE {volume}
    /\ database' \in IF pc = "import" THEN {database, Broken} ELSE {database}
    /\ store' \in IF pc = "upload" THEN {store, Stored} ELSE {store}
    /\ app' \in CASE pc = "stop" -> {app, "stopped"}
                  [] pc = "start" -> {app, "running"}
                  [] OTHER -> {app}
    /\ UNCHANGED <<refused, done>>

Next ==
    \/ Write \/ Begin \/ Refuse \/ MakeDirectory
    \/ TarVolume \/ TarVolumeFails \/ Dump \/ DumpFails \/ DatabaseRefused
    \/ Tar \/ TarFails \/ Upload \/ UploadFails \/ Stat \/ StatFails
    \/ Download \/ DownloadFails \/ Extract \/ ExtractFails
    \/ Stop \/ StopOrStartFails
    \/ RestoreVolume \/ RestoreVolumeFails \/ Import \/ ImportFails \/ Start
    \/ Kill

Spec == Init /\ [][Next]_vars

-----------------------------------------------------------------------------
(* What holds                                                              *)

Whole(archive) == Partial \notin {archive.volume, archive.sql} /\ archive.volume # Absent

\* Nothing that was cut off is ever stored, whatever an earlier run of the same
\* name has left in the directory.
StoredIsWhole == \A o \in Objects : store[o] = NoArchive \/ Whole(store[o])

\* A backup reported as done is stored, unless the storage refused it: that is
\* not noticed.
DoneIsStored == \A o \in done : store[o] # NoArchive \/ o \in refused

\* The data of an application is touched only while it is stopped, and its
\* volume only when the whole of its replacement has been extracted.
WipesForReplacement ==
    /\ pc \in {"volume", "import", "start"} => app = "stopped"
    /\ pc = "volume" => Mine.volume = store[command.object].volume /\ Whole(store[command.object])

\* What is in the storage can be relied on.
BackupsAreGood == StoredIsWhole /\ DoneIsStored

\* When the application is started again its volume is the one stored, and so
\* is its database, if the payload names the run and psql can be trusted.
RestoredIsStored ==
    pc = "start" =>
        /\ volume = store[command.object].volume
        /\ command.db # "none" /\ command.named /\ driver = "mysql"
            => database = store[command.object].sql

\* An application does not run on a volume that a restore has left half done,
\* unless a backup was made of it.
HalfRestoredIsNotServed ==
    app = "running" /\ volume = Broken => \E o \in Objects : store[o].volume = Broken

\* A restore that fills a database with mysql does not start the application on
\* one that was left half filled, unless a backup was made of it.  Two others do:
\* with psql the failed statements go unnoticed, and a restore without a database
\* starts it on whatever an earlier one has left.
HalfImportedIsNotStarted ==
    pc = "start" /\ database = Broken =>
        \/ driver = "pgsql" \/ command.db = "none"
        \/ \E o \in Objects : store[o].sql = Broken

\* No restore, whatever cuts it off, makes an application work on half a volume,
\* or on the half of a database that it filled itself with mysql.
RestoresAreSafe == WipesForReplacement /\ HalfRestoredIsNotServed /\ HalfImportedIsNotStarted
=============================================================================
