---------------------------- MODULE BackupsProofs ----------------------------
(***************************************************************************)
(* What Backups says of backup_now and restore_backup, for every set of    *)
(* objects and every number of writes, commands and faults.                *)
(*                                                                         *)
(* That the application is never started on half a volume, or on half of a *)
(* database that mysql filled, rests on what the temporary directories     *)
(* hold at each program of a restore, and this on two facts about the      *)
(* storage: an object is stored once, and what is stored is whole.  BInv   *)
(* adds both, and what a directory still holds from the restore before: a  *)
(* dump of a broken database only if one was stored.                       *)
(***************************************************************************)
EXTENDS Backups, TLAPS

\* What an application can have written, and the archives of that.
Data == Versions \union {Broken}
Good == [volume : Data, sql : Data \union {Absent}]

StoreInv == \A o \in Objects : store[o] \in Good \union {NoArchive}

\* The dump in a directory of restores is one that was stored, and in the
\* directory of a run it is that of the run.
DirInv ==
    /\ \A k \in Objects \union {"run"} : files[<<"restore", k>>].sql \in Data \union {Absent}
    /\ \A o \in Objects : files[<<"restore", o>>].sql \in {Absent, store[o].sql}
    /\ \A k \in Objects \union {"run"} :
        files[<<"restore", k>>].sql = Broken => \E o \in Objects : store[o].sql = Broken

BackupInv ==
    /\ pc \in BackupSteps => command.type = "backup"
    /\ pc \in {"mkdir", "tar volume", "dump", "tar", "upload"} /\ command.type = "backup"
        => store[command.object] = NoArchive
    /\ pc \in {"dump", "tar"} => Mine.volume \in Data
    /\ pc = "tar" => command.db = "none" \/ Mine.sql \in Data
    /\ pc = "upload" => Mine.archive \in Good
    /\ pc = "stat" => store[command.object] # NoArchive \/ command.object \in refused

RestoreInv ==
    /\ pc \in RestoreSteps => command.type = "restore"
    /\ pc = "extract" =>
        Mine.archive = Garbled \/ (Mine.archive \in Good /\ Mine.archive = store[command.object])
    /\ pc \in {"stop", "volume", "import", "start"} => store[command.object] \in Good
    /\ pc \in {"stop", "volume"} => Mine.volume = store[command.object].volume
    /\ pc \in {"volume", "import", "start"} => app = "stopped"
    /\ pc \in {"import", "start"} => volume = store[command.object].volume
    /\ pc = "start" /\ command.db # "none" /\ command.named /\ driver = "mysql"
        => database = store[command.object].sql
    /\ pc = "start" /\ database = Broken =>
        \/ driver = "pgsql" \/ command.db = "none"
        \/ \E o \in Objects : store[o].sql = Broken

BInv ==
    /\ TypeOK /\ StoreInv /\ DoneIsStored /\ DirInv
    /\ BackupInv /\ RestoreInv /\ HalfRestoredIsNotServed

-----------------------------------------------------------------------------
\* Versions, and what stands for no version, are told apart.
LEMMA Contents ==
    /\ Data \subseteq Content /\ Absent \in Content /\ Partial \in Content
    /\ Absent \notin Data /\ Partial \notin Data /\ Absent # Partial /\ Broken \in Data
    /\ Absent # Broken
    /\ \A w \in 0..MaxWrites : w \in Data /\ w \in Versions
  BY BackupsAssumption DEF BackupsAssumption, Data, Content, Versions, Absent, Partial, Broken

\* Good archives are archives, and neither none nor garbled.
LEMMA Archives ==
    /\ NoArchive \in Archive /\ Garbled \in Archive /\ NoArchive.sql = Absent
    /\ NoFiles \in Files /\ NoFiles.sql = Absent
    /\ \A a \in Good : /\ a \in Archive /\ a # NoArchive /\ a # Garbled /\ Whole(a)
                       /\ a.volume \in Data /\ a.sql \in Data \union {Absent}
    /\ Garbled # NoArchive
  <1>1. NoArchive \in Archive /\ Garbled \in Archive /\ NoArchive.sql = Absent
        /\ NoArchive.volume = Absent /\ Garbled.volume = Partial
    BY Contents DEF NoArchive, Garbled, Archive
  <1>2. NoFiles \in Files /\ NoFiles.sql = Absent
    BY <1>1, Contents DEF NoFiles, Files
  <1>3. ASSUME NEW a \in Good
        PROVE  /\ a \in Archive /\ a.volume \in Data /\ a.sql \in Data \union {Absent}
               /\ Whole(a)
    BY Contents DEF Good, Archive, Whole
  <1> QED
    BY <1>1, <1>2, <1>3, Contents

\* The directory of a command, and which of the two roots it is in.
LEMMA Directories ==
    ASSUME command \in Command
    PROVE  /\ Here \in Dirs
           /\ command.type = "backup" => \A k : Here # <<"restore", k>>
           /\ command.type = "restore" =>
                /\ \E k \in Objects \union {"run"} : Here = <<"restore", k>>
                /\ \A o \in Objects : Here = <<"restore", o>> => o = command.object
                /\ command.named => Here = <<"restore", command.object>>
           /\ command.type \in {"backup", "restore"} /\ command.object \in Objects
           /\ command.db \in {"none", "good", "bad"}
           /\ command # NoCommand
  <1>1. /\ command.type \in {"backup", "restore"} /\ command.object \in Objects
        /\ command.db \in {"none", "good", "bad"}
    BY DEF Command
  <1>2. NoCommand.type = "none"
    BY DEF NoCommand
  <1> QED
    BY <1>1, <1>2, BackupsAssumption DEF Here, Dirs, BackupsAssumption

\* The directories of restores are among them.
LEMMA RestoreDirs == \A k \in Objects \union {"run"} : <<"restore", k>> \in Dirs
  BY DEF Dirs

\* A program writes to the directory of the command.
LEMMA Leaving ==
    ASSUME files \in [Dirs -> Files], Here \in Dirs, NEW new \in Files, Leaves(new)
    PROVE  /\ files' \in [Dirs -> Files]
           /\ files'[Here] = new
           /\ \A d \in Dirs : d # Here => files'[d] = files[d]
  BY DEF Leaves

-----------------------------------------------------------------------------
\* Nothing has happened yet.
LEMMA InitInv == Init => BInv
  <1> SUFFICES ASSUME Init PROVE BInv
    OBVIOUS
  <1>1. 0 \in Versions
    BY BackupsAssumption DEF BackupsAssumption, Versions
  <1>2. files \in [Dirs -> Files] /\ store \in [Objects -> Archive]
    BY Archives DEF Init
  <1>3. TypeOK
    BY <1>1, <1>2, BackupsAssumption DEF Init, TypeOK, BackupsAssumption
  <1>4. StoreInv /\ DoneIsStored /\ DirInv
    BY Archives, RestoreDirs, Contents DEF Init, StoreInv, DoneIsStored, DirInv
  <1>5. BackupInv /\ RestoreInv
    BY DEF Init, BackupInv, RestoreInv, BackupSteps, RestoreSteps
  <1>6. HalfRestoredIsNotServed
    BY BackupsAssumption DEF Init, HalfRestoredIsNotServed, Broken
  <1> QED
    BY <1>3, <1>4, <1>5, <1>6 DEF BInv

\* Between two commands nothing is said of the steps.
LEMMA IdleInv == pc' = "idle" => BackupInv' /\ RestoreInv'
  BY DEF BackupInv, RestoreInv, BackupSteps, RestoreSteps

\* What is stored stays as good, and what was reported stays stored.
LEMMA StorageKept ==
    ASSUME BInv, UNCHANGED storage
    PROVE  /\ StoreInv' /\ DoneIsStored'
           /\ store' \in [Objects -> Archive]
           /\ refused' \in SUBSET Objects /\ done' \in SUBSET Objects
  BY DEF BInv, TypeOK, storage, StoreInv, DoneIsStored

\* What the directories of restores hold stays.
LEMMA DirsKept ==
    ASSUME BInv, UNCHANGED <<store, files>>
    PROVE  DirInv' /\ files' \in [Dirs -> Files]
  BY DEF BInv, TypeOK, DirInv

\* A backup does not write where restores do.
LEMMA BackupWrites ==
    ASSUME BInv, command \in Command, command.type = "backup", UNCHANGED store,
           NEW new \in Files, Leaves(new)
    PROVE  DirInv' /\ files' \in [Dirs -> Files] /\ files'[Here] = new
  <1>1. /\ files' \in [Dirs -> Files] /\ files'[Here] = new
        /\ \A d \in Dirs : d # Here => files'[d] = files[d]
    BY Leaving, Directories DEF BInv, TypeOK
  <1>2. \A k \in Objects \union {"run"} : files'[<<"restore", k>>] = files[<<"restore", k>>]
    BY <1>1, Directories, RestoreDirs
  <1> QED
    BY <1>1, <1>2 DEF BInv, DirInv

\* A restore leaves the dump that was there, or the one that is stored.
LEMMA RestoreWrites ==
    ASSUME BInv, command \in Command, command.type = "restore", UNCHANGED store,
           NEW new \in Files, Leaves(new),
           \/ new.sql = Mine.sql
           \/ new.sql \in Data /\ new.sql = store[command.object].sql
    PROVE  DirInv' /\ files' \in [Dirs -> Files] /\ files'[Here] = new
  <1>1. /\ files' \in [Dirs -> Files] /\ files'[Here] = new
        /\ \A d \in Dirs : d # Here => files'[d] = files[d]
    BY Leaving, Directories DEF BInv, TypeOK
  <1>2. Mine = files[Here]
    BY DEF Mine
  <1>3. ASSUME NEW k \in Objects \union {"run"}
        PROVE  files'[<<"restore", k>>].sql \in Data \union {Absent}
    <2>1. files[<<"restore", k>>].sql \in Data \union {Absent}
      BY DEF BInv, DirInv
    <2>2. CASE Here = <<"restore", k>>
      BY <1>1, <1>2, <2>1, <2>2
    <2>3. CASE Here # <<"restore", k>>
      BY <1>1, <2>1, <2>3, RestoreDirs
    <2> QED
      BY <2>2, <2>3
  <1>4. ASSUME NEW o \in Objects
        PROVE  files'[<<"restore", o>>].sql \in {Absent, store'[o].sql}
    <2>1. files[<<"restore", o>>].sql \in {Absent, store[o].sql}
      BY DEF BInv, DirInv
    <2>2. CASE Here = <<"restore", o>>
      <3>1. o = command.object
        BY <2>2, Directories
      <3> QED
        BY <1>1, <1>2, <2>1, <2>2, <3>1
    <2>3. CASE Here # <<"restore", o>>
      BY <1>1, <2>1, <2>3, RestoreDirs
    <2> QED
      BY <2>2, <2>3
  <1>5. ASSUME NEW k \in Objects \union {"run"}, files'[<<"restore", k>>].sql = Broken
        PROVE  \E o \in Objects : store'[o].sql = Broken
    <2>1. files[<<"restore", k>>].sql = Broken => \E o \in Objects : store[o].sql = Broken
      BY DEF BInv, DirInv
    <2>2. CASE Here = <<"restore", k>>
      BY <1>1, <1>2, <1>5, <2>1, <2>2, Directories
    <2>3. CASE Here # <<"restore", k>>
      BY <1>1, <1>5, <2>1, <2>3, RestoreDirs
    <2> QED
      BY <2>2, <2>3
  <1> QED
    BY <1>1, <1>3, <1>4, <1>5 DEF DirInv

\* A step that leaves the volume and the storage alone and starts nothing.
LEMMA ServedKept ==
    ASSUME BInv, UNCHANGED <<volume, store>>, app' \in {app, "stopped"}
    PROVE  HalfRestoredIsNotServed'
  BY DEF BInv, HalfRestoredIsNotServed

\* A step of a command is taken in one.
LEMMA InCommand == TypeOK /\ pc # "idle" => command \in Command
  BY DEF TypeOK

\* The directory of a command is its own all through.
LEMMA SameCommand == command' = command => Here' = Here /\ Mine' = files'[Here]
  BY DEF Here, Mine

-----------------------------------------------------------------------------
(* The actions                                                             *)

\* The application writes.
LEMMA WriteKeeps == BInv /\ Write => BInv'
  <1> SUFFICES ASSUME BInv, Write PROVE BInv'
    OBVIOUS
  <1>1. /\ volume' \in Versions /\ database' \in Versions /\ writes' \in 0..MaxWrites
        /\ app = "running"
        /\ UNCHANGED <<driver, app, files, store, refused, done, command, pc, commands, faults>>
    BY BackupsAssumption DEF Write, BInv, TypeOK, storage, Versions, BackupsAssumption
  <1>2. TypeOK'
    BY <1>1 DEF BInv, TypeOK
  <1>3. StoreInv' /\ DoneIsStored' /\ DirInv'
    BY <1>1, StorageKept, DirsKept DEF storage
  <1>4. BackupInv'
    BY <1>1, SameCommand DEF BInv, BackupInv, Mine
  <1>5. RestoreInv'
    BY <1>1, SameCommand DEF BInv, RestoreInv, Mine
  <1>6. volume' # Broken
    BY <1>1, BackupsAssumption DEF Versions, Broken
  <1>7. HalfRestoredIsNotServed'
    BY <1>6 DEF HalfRestoredIsNotServed
  <1> QED
    BY <1>2, <1>3, <1>4, <1>5, <1>7 DEF BInv

\* A command begins.
LEMMA BeginKeeps == BInv /\ Begin => BInv'
  <1> SUFFICES ASSUME BInv, Begin PROVE BInv'
    OBVIOUS
  <1>1. /\ command' \in Command /\ pc' = "mkdir" /\ commands' \in 0..MaxCommands
        /\ command'.type = "backup" => store[command'.object] = NoArchive
        /\ UNCHANGED <<volume, database, driver, app, files, store, refused, done, writes, faults>>
    BY BackupsAssumption DEF Begin, BInv, TypeOK, storage, data, BackupsAssumption
  <1>2. command' # NoCommand
    BY <1>1 DEF Command, NoCommand
  <1>3. TypeOK'
    BY <1>1, <1>2 DEF BInv, TypeOK
  <1>4. StoreInv' /\ DoneIsStored' /\ DirInv' /\ HalfRestoredIsNotServed'
    BY <1>1, StorageKept, DirsKept, ServedKept DEF storage
  <1>5. BackupInv'
    BY <1>1 DEF BackupInv, BackupSteps
  <1>6. RestoreInv'
    BY <1>1 DEF RestoreInv, RestoreSteps
  <1> QED
    BY <1>3, <1>4, <1>5, <1>6 DEF BInv

\* The command is given up, or refused, before it changes anything that lasts.
LEMMA RefusedKeeps == BInv /\ (Refuse \/ DatabaseRefused \/ StatFails \/ StopOrStartFails) => BInv'
  <1> SUFFICES ASSUME BInv, Refuse \/ DatabaseRefused \/ StatFails \/ StopOrStartFails PROVE BInv'
    OBVIOUS
  <1>1. /\ command' = NoCommand /\ pc' = "idle" /\ faults' \in 0..MaxFaults
        /\ UNCHANGED <<volume, database, driver, app, files, store, refused, done, writes, commands>>
    BY BackupsAssumption
    DEF Refuse, DatabaseRefused, StatFails, StopOrStartFails, Fails, Fault, Returns, AfterCommand,
        BInv, TypeOK, storage, data, BackupsAssumption
  <1>2. TypeOK'
    BY <1>1 DEF BInv, TypeOK
  <1>3. StoreInv' /\ DoneIsStored' /\ DirInv' /\ HalfRestoredIsNotServed'
    BY <1>1, StorageKept, DirsKept, ServedKept DEF storage
  <1> QED
    BY <1>1, <1>2, <1>3, IdleInv DEF BInv

\* A program that writes to the directory fails.
LEMMA CutOffKeeps ==
    BInv /\ (TarVolumeFails \/ DumpFails \/ TarFails \/ DownloadFails \/ ExtractFails) => BInv'
  <1> SUFFICES ASSUME BInv,
                      TarVolumeFails \/ DumpFails \/ TarFails \/ DownloadFails \/ ExtractFails
               PROVE  BInv'
    OBVIOUS
  <1>1. /\ command' = NoCommand /\ pc' = "idle" /\ faults' \in 0..MaxFaults
        /\ UNCHANGED <<volume, database, driver, app, store, refused, done, writes, commands>>
    <2>1. faults \in 0..MaxFaults /\ MaxFaults \in Nat
      BY BackupsAssumption DEF BInv, TypeOK, BackupsAssumption
    <2>2. Fault => faults' \in 0..MaxFaults
      BY <2>1 DEF Fault
    <2>3. (Fault \/ UNCHANGED faults) /\ Returns
      BY DEF TarVolumeFails, DumpFails, TarFails, DownloadFails, ExtractFails, Fails
    <2>4. UNCHANGED <<volume, database, app, store, refused, done>>
      BY DEF TarVolumeFails, DumpFails, TarFails, DownloadFails, ExtractFails, storage, data
    <2> QED
      BY <2>1, <2>2, <2>3, <2>4 DEF Returns, AfterCommand
  <1>2. pc # "idle"
    BY DEF TarVolumeFails, DumpFails, TarFails, DownloadFails, ExtractFails, Fails
  <1>3. command \in Command /\ Here \in Dirs
    BY <1>2, InCommand, Directories DEF BInv
  <1>4. Mine \in Files
    BY <1>3 DEF BInv, TypeOK, Mine
  <1>5. DirInv' /\ files' \in [Dirs -> Files]
    <2>1. CASE TarVolumeFails \/ DumpFails \/ TarFails
      <3>1. command.type = "backup"
        BY <2>1 DEF BInv, BackupInv, TarVolumeFails, DumpFails, TarFails, Fails, BackupSteps
      <3>2. \E new \in Files : Leaves(new)
        BY <1>4, <2>1, Contents, Archives DEF TarVolumeFails, DumpFails, TarFails, Files
      <3> QED
        BY <1>1, <1>3, <3>1, <3>2, BackupWrites
    <2>2. CASE DownloadFails \/ ExtractFails
      <3>1. command.type = "restore"
        BY <2>2 DEF BInv, RestoreInv, DownloadFails, ExtractFails, Fails, RestoreSteps
      <3>2. \E new \in Files : Leaves(new) /\ new.sql = Mine.sql
        <4>1. CASE DownloadFails
          BY <1>4, <4>1, Archives DEF DownloadFails, Files
        <4>2. CASE ExtractFails
          <5>1. PICK left \in {Mine.volume, Partial} : Leaves([Mine EXCEPT !.volume = left])
            BY <4>2 DEF ExtractFails
          <5>2. [Mine EXCEPT !.volume = left] \in Files /\ [Mine EXCEPT !.volume = left].sql = Mine.sql
            BY <1>4, Contents DEF Files
          <5> QED
            BY <5>1, <5>2
        <4> QED
          BY <2>2, <4>1, <4>2
      <3> QED
        BY <1>1, <1>3, <3>1, <3>2, RestoreWrites
    <2> QED
      BY <2>1, <2>2
  <1>6. TypeOK'
    BY <1>1, <1>5 DEF BInv, TypeOK
  <1>7. StoreInv' /\ DoneIsStored' /\ HalfRestoredIsNotServed'
    BY <1>1, StorageKept, ServedKept DEF storage
  <1> QED
    BY <1>1, <1>5, <1>6, <1>7, IdleInv DEF BInv

\* The steps of a command that go on to the next change neither the command
\* nor the bounds.
LEMMA ThenKeeps ==
    ASSUME BInv, pc # "idle", pc' # "idle", UNCHANGED <<driver, command, bounds>>
    PROVE  /\ command \in Command /\ Mine \in Files /\ Mine' = files'[Here]
           /\ files' \in [Dirs -> Files] /\ store' \in [Objects -> Archive]
              /\ volume' \in Data /\ database' \in Data /\ app' \in {"running", "stopped"}
              /\ refused' \in SUBSET Objects /\ done' \in SUBSET Objects
              /\ pc' \in {"mkdir"} \union BackupSteps \union RestoreSteps
              => TypeOK'
  <1>1. command \in Command
    BY InCommand DEF BInv
  <1>2. command # NoCommand /\ Mine' = files'[Here] /\ Here \in Dirs
    BY <1>1, Directories, SameCommand
  <1>3. Mine \in Files
    BY <1>2 DEF BInv, TypeOK, Mine
  <1>4. /\ driver \in {"mysql", "pgsql"} /\ writes \in 0..MaxWrites
        /\ commands \in 0..MaxCommands /\ faults \in 0..MaxFaults
    BY DEF BInv, TypeOK
  <1> QED
    BY <1>1, <1>2, <1>3, <1>4 DEF TypeOK, Data, bounds

\* The directory of the command is made.
LEMMA MakeDirectoryKeeps == BInv /\ MakeDirectory => BInv'
  <1> SUFFICES ASSUME BInv, MakeDirectory PROVE BInv'
    OBVIOUS
  <1> DEFINE to == IF command.type = "backup" THEN "tar volume" ELSE "download"
  <1>1. Then("mkdir", to) /\ UNCHANGED <<volume, database, app, files, store, refused, done>>
    BY DEF MakeDirectory, data, storage
  <1>2. to \in {"tar volume", "download"}
    OBVIOUS
  <1>a. /\ pc = "mkdir" /\ pc' = to /\ UNCHANGED <<driver, command, writes, commands, faults>>
    BY <1>1 DEF Then, bounds
  <1>3. command \in Command
    BY <1>2, <1>a, InCommand DEF BInv
  <1>4. TypeOK'
    <2>1. pc' \in BackupSteps \union RestoreSteps /\ pc' # "idle" /\ pc # "idle"
      BY <1>2, <1>a DEF BackupSteps, RestoreSteps
    <2> QED
      BY <1>1, <1>a, <2>1 DEF BInv, TypeOK
  <1>5. StoreInv' /\ DoneIsStored' /\ DirInv' /\ HalfRestoredIsNotServed'
    BY <1>1, StorageKept, DirsKept, ServedKept DEF storage
  <1>6. command.type = "backup" \/ command.type = "restore"
    BY <1>3, Directories
  <1>7. BackupInv'
    BY <1>1, <1>a, <1>6 DEF BInv, BackupInv, BackupSteps
  <1>8. RestoreInv'
    BY <1>1, <1>a, <1>6 DEF RestoreInv, RestoreSteps
  <1> QED
    BY <1>4, <1>5, <1>7, <1>8 DEF BInv

\* The volume is read.
LEMMA TarVolumeKeeps == BInv /\ TarVolume => BInv'
  <1> SUFFICES ASSUME BInv, TarVolume PROVE BInv'
    OBVIOUS
  <1> DEFINE to == IF command.db = "none" THEN "tar" ELSE "dump"
             new == [Mine EXCEPT !.volume = volume]
  <1>1. /\ Then("tar volume", to) /\ Leaves(new)
        /\ UNCHANGED <<volume, database, app, store, refused, done>>
    BY DEF TarVolume, data, storage
  <1>2. to \in {"tar", "dump"} /\ (to = "tar" => command.db = "none")
    OBVIOUS
  <1> HIDE DEF to
  <1>b. pc = "tar volume" /\ pc' = to /\ UNCHANGED <<driver, command, bounds>>
    BY <1>1 DEF Then
  <1>3. /\ pc = "tar volume" /\ pc' = to /\ UNCHANGED <<driver, command>>
        /\ command \in Command /\ Mine \in Files /\ Mine' = files'[Here]
    BY <1>2, <1>b, ThenKeeps
  <1>4. command.type = "backup" /\ store[command.object] = NoArchive /\ volume \in Data
    BY <1>3 DEF BInv, TypeOK, BackupInv, BackupSteps, Data
  <1>5. new \in Files /\ new.volume = volume
    BY <1>3, <1>4, Contents DEF Files
  <1>6. DirInv' /\ files' \in [Dirs -> Files] /\ Mine' = new
    BY <1>1, <1>3, <1>4, <1>5, BackupWrites
  <1>7. StoreInv' /\ DoneIsStored' /\ HalfRestoredIsNotServed'
    BY <1>1, StorageKept, ServedKept DEF storage
  <1>8. TypeOK'
    <2>1. pc' # "idle" /\ pc' \in {"mkdir"} \union BackupSteps \union RestoreSteps
      BY <1>2, <1>b DEF BackupSteps
    <2>2. database' \in Data /\ volume' \in Data /\ app' \in {"running", "stopped"}
          /\ store' \in [Objects -> Archive]
          /\ refused' \in SUBSET Objects /\ done' \in SUBSET Objects
      BY <1>1 DEF BInv, TypeOK, Data
    <2> QED
      BY <1>b, <1>6, <2>1, <2>2, ThenKeeps
  <1>9. BackupInv'
    BY <1>1, <1>2, <1>3, <1>4, <1>5, <1>6 DEF BackupInv, BackupSteps
  <1>10. RestoreInv'
    BY <1>2, <1>3 DEF RestoreInv, RestoreSteps
  <1> QED
    BY <1>6, <1>7, <1>8, <1>9, <1>10 DEF BInv

\* The database is dumped.
LEMMA DumpKeeps == BInv /\ Dump => BInv'
  <1> SUFFICES ASSUME BInv, Dump PROVE BInv'
    OBVIOUS
  <1> DEFINE new == [Mine EXCEPT !.sql = database]
  <1>1. /\ Then("dump", "tar") /\ Leaves(new)
        /\ UNCHANGED <<volume, database, app, store, refused, done>>
    BY DEF Dump, data, storage
  <1>b. pc = "dump" /\ pc' = "tar" /\ UNCHANGED <<driver, command, bounds>>
    BY <1>1 DEF Then
  <1>3. /\ pc = "dump" /\ pc' = "tar" /\ UNCHANGED <<driver, command>>
        /\ command \in Command /\ Mine \in Files /\ Mine' = files'[Here]
    BY <1>b, ThenKeeps
  <1>4. /\ command.type = "backup" /\ store[command.object] = NoArchive
        /\ database \in Data /\ Mine.volume \in Data
    BY <1>3 DEF BInv, TypeOK, BackupInv, BackupSteps, Data
  <1>5. new \in Files /\ new.sql = database /\ new.volume = Mine.volume
    BY <1>3, <1>4, Contents DEF Files
  <1>6. DirInv' /\ files' \in [Dirs -> Files] /\ Mine' = new
    BY <1>1, <1>3, <1>4, <1>5, BackupWrites
  <1>7. StoreInv' /\ DoneIsStored' /\ HalfRestoredIsNotServed'
    BY <1>1, StorageKept, ServedKept DEF storage
  <1>8. TypeOK'
    <2>1. pc' \in {"mkdir"} \union BackupSteps \union RestoreSteps
      BY <1>b DEF BackupSteps
    <2>2. database' \in Data /\ volume' \in Data /\ app' \in {"running", "stopped"}
          /\ store' \in [Objects -> Archive]
          /\ refused' \in SUBSET Objects /\ done' \in SUBSET Objects
      BY <1>1 DEF BInv, TypeOK, Data
    <2> QED
      BY <1>b, <1>6, <2>1, <2>2, ThenKeeps
  <1>9. BackupInv'
    BY <1>1, <1>3, <1>4, <1>5, <1>6 DEF BackupInv, BackupSteps
  <1>10. RestoreInv'
    BY <1>3 DEF RestoreInv, RestoreSteps
  <1> QED
    BY <1>6, <1>7, <1>8, <1>9, <1>10 DEF BInv

\* The archive is packed.
LEMMA TarKeeps == BInv /\ Tar => BInv'
  <1> SUFFICES ASSUME BInv, Tar PROVE BInv'
    OBVIOUS
  <1> DEFINE packed == [volume |-> Mine.volume,
                        sql |-> IF command.db = "none" THEN Absent ELSE Mine.sql]
             new == [Mine EXCEPT !.archive = packed]
  <1>1. /\ Then("tar", "upload") /\ Leaves(new)
        /\ UNCHANGED <<volume, database, app, store, refused, done>>
    BY DEF Tar, data, storage
  <1>b. pc = "tar" /\ pc' = "upload" /\ UNCHANGED <<driver, command, bounds>>
    BY <1>1 DEF Then
  <1>3. /\ pc = "tar" /\ pc' = "upload" /\ UNCHANGED <<driver, command>>
        /\ command \in Command /\ Mine \in Files /\ Mine' = files'[Here]
    BY <1>b, ThenKeeps
  <1>4. /\ command.type = "backup" /\ store[command.object] = NoArchive
        /\ Mine.volume \in Data /\ (command.db = "none" \/ Mine.sql \in Data)
    BY <1>3 DEF BInv, BackupInv, BackupSteps
  <1>5. packed \in Good /\ packed \in Archive
    BY <1>4, Archives DEF Good
  <1> HIDE DEF packed
  <1>a. new \in Files /\ new.archive = packed
    BY <1>3, <1>5 DEF Files
  <1>6. DirInv' /\ files' \in [Dirs -> Files] /\ Mine' = new
    BY <1>1, <1>3, <1>4, <1>a, BackupWrites
  <1>7. StoreInv' /\ DoneIsStored' /\ HalfRestoredIsNotServed'
    BY <1>1, StorageKept, ServedKept DEF storage
  <1>8. TypeOK'
    <2>1. pc' \in {"mkdir"} \union BackupSteps \union RestoreSteps
      BY <1>b DEF BackupSteps
    <2>2. database' \in Data /\ volume' \in Data /\ app' \in {"running", "stopped"}
          /\ store' \in [Objects -> Archive]
          /\ refused' \in SUBSET Objects /\ done' \in SUBSET Objects
      BY <1>1 DEF BInv, TypeOK, Data
    <2> QED
      BY <1>b, <1>6, <2>1, <2>2, ThenKeeps
  <1>9. BackupInv'
    BY <1>1, <1>3, <1>4, <1>5, <1>a, <1>6 DEF BackupInv, BackupSteps
  <1>10. RestoreInv'
    BY <1>3 DEF RestoreInv, RestoreSteps
  <1> QED
    BY <1>6, <1>7, <1>8, <1>9, <1>10 DEF BInv

\* Whatever becomes of an upload, what is stored is good.
LEMMA UploadStores ==
    ASSUME BInv, pc = "upload", store' \in {store, Stored}, done' = done, refused \subseteq refused',
           UNCHANGED <<volume, app>>
    PROVE  /\ StoreInv' /\ DoneIsStored' /\ HalfRestoredIsNotServed'
           /\ files' = files => DirInv'
           /\ store' \in [Objects -> Archive]
           /\ store' = Stored => store'[command.object] # NoArchive
  <1>1. /\ command \in Command /\ command.object \in Objects /\ command.type = "backup"
    BY InCommand, Directories DEF BInv, BackupInv, BackupSteps
  <1>2. /\ store \in [Objects -> Archive] /\ Mine.archive \in Good
        /\ store[command.object] = NoArchive
    BY <1>1 DEF BInv, TypeOK, BackupInv
  <1>3. CASE store' = store
    <2>1. StoreInv' /\ DoneIsStored' /\ HalfRestoredIsNotServed'
      BY <1>3 DEF BInv, StoreInv, DoneIsStored, HalfRestoredIsNotServed
    <2>2. files' = files => DirInv'
      BY <1>3, DirsKept
    <2>3. Stored[command.object] = Mine.archive
      BY <1>1, <1>2 DEF Stored
    <2>4. Mine.archive # NoArchive
      BY <1>2, Archives
    <2> QED
      BY <1>2, <1>3, <2>1, <2>2, <2>3, <2>4
  <1>4. CASE store' = Stored
    <2>1. /\ store'[command.object] = Mine.archive
          /\ \A o \in Objects : o # command.object => store'[o] = store[o]
          /\ store' \in [Objects -> Archive]
      BY <1>1, <1>2, <1>4, Archives DEF Stored
    <2>2. StoreInv'
      BY <1>2, <2>1 DEF BInv, StoreInv
    <2>3. DoneIsStored'
      BY <1>2, <2>1, Archives DEF BInv, TypeOK, DoneIsStored
    <2>4. NoArchive.sql = Absent /\ NoArchive.volume # Broken
      BY Contents DEF NoArchive
    <2>5. ASSUME files' = files PROVE DirInv'
      <3>1. \A o \in Objects : store[o].sql = Broken => store'[o].sql = Broken
        BY <1>2, <2>1, <2>4, Contents
      <3>2. \A k \in Objects \union {"run"} :
              files'[<<"restore", k>>].sql = Broken => \E o \in Objects : store'[o].sql = Broken
        BY <2>5, <3>1 DEF BInv, DirInv
      <3> QED
        BY <1>2, <2>1, <2>4, <2>5, <3>2 DEF BInv, DirInv
    <2>6. HalfRestoredIsNotServed'
      <3> SUFFICES ASSUME app' = "running", volume' = Broken
                   PROVE  \E o \in Objects : store'[o].volume = Broken
        BY DEF HalfRestoredIsNotServed
      <3>1. PICK o \in Objects : store[o].volume = Broken
        BY DEF BInv, HalfRestoredIsNotServed
      <3>2. o # command.object
        BY <1>2, <2>4, <3>1
      <3> QED
        BY <2>1, <3>1, <3>2
    <2> QED
      BY <1>2, <2>1, <2>2, <2>3, <2>5, <2>6, Archives
  <1> QED
    BY <1>3, <1>4

\* The archive is uploaded, or refused.
LEMMA UploadKeeps == BInv /\ Upload => BInv'
  <1> SUFFICES ASSUME BInv, Upload PROVE BInv'
    OBVIOUS
  <1>1. /\ pc = "upload" /\ pc' = "stat" /\ UNCHANGED <<driver, command, bounds>>
        /\ UNCHANGED <<volume, database, app, files, done>>
    BY DEF Upload, Then, data
  <1>2. command \in Command /\ command.object \in Objects /\ command.type = "backup"
    BY <1>1, InCommand, Directories DEF BInv, BackupInv, BackupSteps
  <1>3. \/ store' = Stored /\ refused' = refused
        \/ refused' = refused \union {command.object} /\ store' = store
    BY DEF Upload
  <1>4. /\ StoreInv' /\ DoneIsStored' /\ HalfRestoredIsNotServed' /\ DirInv'
        /\ store' \in [Objects -> Archive]
        /\ store' = Stored => store'[command.object] # NoArchive
    BY <1>1, <1>3, UploadStores
  <1>5. TypeOK'
    <2>1. refused' \in SUBSET Objects
      BY <1>2, <1>3 DEF BInv, TypeOK
    <2>2. /\ files' \in [Dirs -> Files] /\ volume' \in Data /\ database' \in Data
          /\ app' \in {"running", "stopped"} /\ done' \in SUBSET Objects
      BY <1>1 DEF BInv, TypeOK, Data
    <2>3. pc # "idle" /\ pc' # "idle" /\ pc' \in {"mkdir"} \union BackupSteps \union RestoreSteps
      BY <1>1 DEF BackupSteps
    <2> QED
      BY <1>1, <1>4, <2>1, <2>2, <2>3, ThenKeeps
  <1>6. BackupInv'
    BY <1>1, <1>2, <1>3, <1>4 DEF BackupInv, BackupSteps
  <1>7. RestoreInv'
    BY <1>1 DEF RestoreInv, RestoreSteps
  <1> QED
    BY <1>4, <1>5, <1>6, <1>7 DEF BInv

\* The upload fails, having stored the archive or not.
LEMMA UploadFailsKeeps == BInv /\ UploadFails => BInv'
  <1> SUFFICES ASSUME BInv, UploadFails PROVE BInv'
    OBVIOUS
  <1>1. /\ pc = "upload" /\ pc' = "idle" /\ command' = NoCommand /\ store' \in {store, Stored}
        /\ UNCHANGED <<volume, database, driver, app, files, refused, done, writes, commands>>
    BY DEF UploadFails, Fails, Returns, AfterCommand, data
  <1>2. faults' \in 0..MaxFaults
    BY BackupsAssumption DEF UploadFails, Fails, Fault, BInv, TypeOK, BackupsAssumption
  <1>3. /\ StoreInv' /\ DoneIsStored' /\ HalfRestoredIsNotServed' /\ DirInv'
        /\ store' \in [Objects -> Archive]
    BY <1>1, UploadStores
  <1>4. TypeOK'
    BY <1>1, <1>2, <1>3 DEF BInv, TypeOK
  <1> QED
    BY <1>1, <1>3, <1>4, IdleInv DEF BInv

\* The backup is reported as done.
LEMMA StatKeeps == BInv /\ Stat => BInv'
  <1> SUFFICES ASSUME BInv, Stat PROVE BInv'
    OBVIOUS
  <1>1. /\ pc = "stat" /\ pc' = "idle" /\ command' = NoCommand
        /\ done' = done \union {command.object}
        /\ UNCHANGED <<volume, database, driver, app, files, store, refused, writes, commands, faults>>
    BY DEF Stat, Returns, AfterCommand, data
  <1>2. command.object \in Objects
    BY <1>1, InCommand, Directories DEF BInv
  <1>3. TypeOK'
    BY <1>1, <1>2 DEF BInv, TypeOK
  <1>4. StoreInv' /\ DirInv' /\ HalfRestoredIsNotServed'
    BY <1>1, DirsKept, ServedKept DEF BInv, StoreInv
  <1>5. DoneIsStored'
    BY <1>1 DEF BInv, BackupInv, DoneIsStored
  <1> QED
    BY <1>1, <1>3, <1>4, <1>5, IdleInv DEF BInv

\* The archive is downloaded, or the page of an error.
LEMMA DownloadKeeps == BInv /\ Download => BInv'
  <1> SUFFICES ASSUME BInv, Download PROVE BInv'
    OBVIOUS
  <1>1. /\ pc = "download" /\ pc' = "extract" /\ UNCHANGED <<driver, command, bounds>>
        /\ UNCHANGED <<volume, database, app, store, refused, done>>
    BY DEF Download, Then, data, storage
  <1>2. /\ command \in Command /\ command.object \in Objects /\ command.type = "restore"
        /\ Mine \in Files /\ Mine' = files'[Here]
    BY <1>1, ThenKeeps, Directories DEF BInv, RestoreInv, RestoreSteps
  <1>3. PICK got \in {store[command.object], Garbled} \ {NoArchive} :
            Leaves([Mine EXCEPT !.archive = got])
    BY DEF Download
  <1> DEFINE new == [Mine EXCEPT !.archive = got]
  <1>4. got = Garbled \/ (got \in Good /\ got = store[command.object])
    BY <1>2, <1>3 DEF BInv, StoreInv
  <1>5. got \in Archive
    BY <1>4, Archives
  <1>6. new \in Files /\ new.archive = got /\ new.sql = Mine.sql
    BY <1>2, <1>5 DEF Files
  <1> HIDE DEF new
  <1>7. DirInv' /\ files' \in [Dirs -> Files] /\ Mine' = new
    BY <1>1, <1>2, <1>3, <1>6, RestoreWrites DEF new
  <1>8. StoreInv' /\ DoneIsStored' /\ HalfRestoredIsNotServed'
    BY <1>1, StorageKept, ServedKept DEF storage
  <1>9. TypeOK'
    <2>1. pc # "idle" /\ pc' # "idle" /\ pc' \in {"mkdir"} \union BackupSteps \union RestoreSteps
      BY <1>1 DEF RestoreSteps
    <2>2. database' \in Data /\ volume' \in Data /\ app' \in {"running", "stopped"}
          /\ store' \in [Objects -> Archive]
          /\ refused' \in SUBSET Objects /\ done' \in SUBSET Objects
      BY <1>1 DEF BInv, TypeOK, Data
    <2> QED
      BY <1>1, <1>7, <2>1, <2>2, ThenKeeps
  <1>10. BackupInv'
    BY <1>1 DEF BackupInv, BackupSteps
  <1>11. RestoreInv'
    BY <1>1, <1>2, <1>4, <1>6, <1>7 DEF RestoreInv, RestoreSteps
  <1> QED
    BY <1>7, <1>8, <1>9, <1>10, <1>11 DEF BInv

\* The archive is extracted.
LEMMA ExtractKeeps == BInv /\ Extract => BInv'
  <1> SUFFICES ASSUME BInv, Extract PROVE BInv'
    OBVIOUS
  <1> DEFINE got == Mine.archive
             new == [Mine EXCEPT !.volume = got.volume,
                                 !.sql = IF got.sql = Absent THEN @ ELSE got.sql]
  <1>1. /\ pc = "extract" /\ pc' = "stop" /\ UNCHANGED <<driver, command, bounds>>
        /\ UNCHANGED <<volume, database, app, store, refused, done>>
        /\ Leaves(new) /\ got # Garbled
    BY DEF Extract, Then, data, storage
  <1>2. /\ command \in Command /\ command.object \in Objects /\ command.type = "restore"
        /\ Mine \in Files /\ Mine' = files'[Here]
    BY <1>1, ThenKeeps, Directories DEF BInv, RestoreInv, RestoreSteps
  <1>3. got \in Good /\ got = store[command.object]
    BY <1>1 DEF BInv, RestoreInv
  <1>4. got.volume \in Data /\ got.sql \in Data \union {Absent}
    BY <1>3, Archives
  <1> HIDE DEF got
  <1>6. /\ new \in Files /\ new.volume = got.volume
        /\ new.sql = IF got.sql = Absent THEN Mine.sql ELSE got.sql
    BY <1>2, <1>4, Contents DEF Files
  <1> HIDE DEF new
  <1>7. DirInv' /\ files' \in [Dirs -> Files] /\ Mine' = new
    BY <1>1, <1>2, <1>3, <1>4, <1>6, RestoreWrites
  <1>8. StoreInv' /\ DoneIsStored' /\ HalfRestoredIsNotServed'
    BY <1>1, StorageKept, ServedKept DEF storage
  <1>9. TypeOK'
    <2>1. pc # "idle" /\ pc' # "idle" /\ pc' \in {"mkdir"} \union BackupSteps \union RestoreSteps
      BY <1>1 DEF RestoreSteps
    <2>2. database' \in Data /\ volume' \in Data /\ app' \in {"running", "stopped"}
          /\ store' \in [Objects -> Archive]
          /\ refused' \in SUBSET Objects /\ done' \in SUBSET Objects
      BY <1>1 DEF BInv, TypeOK, Data
    <2> QED
      BY <1>1, <1>7, <2>1, <2>2, ThenKeeps
  <1>10. BackupInv'
    BY <1>1 DEF BackupInv, BackupSteps
  <1>11. RestoreInv'
    BY <1>1, <1>2, <1>3, <1>6, <1>7 DEF RestoreInv, RestoreSteps
  <1> QED
    BY <1>7, <1>8, <1>9, <1>10, <1>11 DEF BInv

\* The application is stopped.
LEMMA StopKeeps == BInv /\ Stop => BInv'
  <1> SUFFICES ASSUME BInv, Stop PROVE BInv'
    OBVIOUS
  <1>1. /\ pc = "stop" /\ pc' = "volume" /\ UNCHANGED <<driver, command, bounds>>
        /\ app' = "stopped" /\ UNCHANGED <<volume, database, files, store, refused, done>>
    BY DEF Stop, Then, data, storage
  <1>2. command \in Command /\ command.type = "restore" /\ Mine' = files'[Here]
    BY <1>1, ThenKeeps, Directories DEF BInv, RestoreInv, RestoreSteps
  <1>3. StoreInv' /\ DoneIsStored' /\ DirInv' /\ HalfRestoredIsNotServed'
    BY <1>1, StorageKept, DirsKept, ServedKept DEF storage
  <1>4. TypeOK'
    <2>1. pc # "idle" /\ pc' # "idle" /\ pc' \in {"mkdir"} \union BackupSteps \union RestoreSteps
      BY <1>1 DEF RestoreSteps
    <2>2. database' \in Data /\ volume' \in Data /\ app' \in {"running", "stopped"}
          /\ store' \in [Objects -> Archive] /\ files' \in [Dirs -> Files]
          /\ refused' \in SUBSET Objects /\ done' \in SUBSET Objects
      BY <1>1 DEF BInv, TypeOK, Data
    <2> QED
      BY <1>1, <2>1, <2>2, ThenKeeps
  <1>5. BackupInv'
    BY <1>1 DEF BackupInv, BackupSteps
  <1>6. RestoreInv'
    BY <1>1, <1>2 DEF BInv, RestoreInv, RestoreSteps, Mine
  <1> QED
    BY <1>3, <1>4, <1>5, <1>6 DEF BInv

\* The volume is replaced.
LEMMA RestoreVolumeKeeps == BInv /\ RestoreVolume => BInv'
  <1> SUFFICES ASSUME BInv, RestoreVolume PROVE BInv'
    OBVIOUS
  <1>1. /\ pc = "volume" /\ UNCHANGED <<driver, command, bounds>>
        /\ \/ command.db = "none" /\ pc' = "start"
           \/ command.db # "none" /\ pc' = "import"
        /\ volume' = Mine.volume /\ UNCHANGED <<database, app, files, store, refused, done>>
    BY DEF RestoreVolume, Then, storage
  <1>2. /\ command \in Command /\ command.type = "restore" /\ app = "stopped"
        /\ Mine.volume = store[command.object].volume /\ store[command.object] \in Good
    BY <1>1, InCommand DEF BInv, RestoreInv, RestoreSteps
  <1>3. volume' \in Data
    BY <1>1, <1>2, Archives
  <1>4. StoreInv' /\ DoneIsStored' /\ DirInv'
    BY <1>1, StorageKept, DirsKept DEF storage
  <1>5. HalfRestoredIsNotServed'
    BY <1>1, <1>2 DEF HalfRestoredIsNotServed
  <1>6. TypeOK'
    <2>1. pc # "idle" /\ pc' # "idle" /\ pc' \in {"mkdir"} \union BackupSteps \union RestoreSteps
      BY <1>1 DEF RestoreSteps
    <2>2. database' \in Data /\ app' \in {"running", "stopped"}
          /\ store' \in [Objects -> Archive] /\ files' \in [Dirs -> Files]
          /\ refused' \in SUBSET Objects /\ done' \in SUBSET Objects
      BY <1>1 DEF BInv, TypeOK, Data
    <2> QED
      BY <1>1, <1>3, <2>1, <2>2, ThenKeeps
  <1>7. BackupInv'
    BY <1>1 DEF BackupInv, BackupSteps
  <1>8. RestoreInv'
    BY <1>1, <1>2 DEF RestoreInv, RestoreSteps
  <1> QED
    BY <1>4, <1>5, <1>6, <1>7, <1>8 DEF BInv

\* A restore fails while it replaces the data: the application stays stopped.
LEMMA HalfRestoredKeeps == BInv /\ (RestoreVolumeFails \/ ImportFails) => BInv'
  <1> SUFFICES ASSUME BInv, RestoreVolumeFails \/ ImportFails PROVE BInv'
    OBVIOUS
  <1>1. /\ pc \in {"volume", "import"} /\ pc' = "idle" /\ command' = NoCommand
        /\ UNCHANGED <<driver, app, files, store, refused, done, writes, commands>>
    BY DEF RestoreVolumeFails, ImportFails, Fails, Returns, AfterCommand, storage
  <1>2. volume' \in {volume, Broken} /\ database' \in {database, Broken}
    BY DEF RestoreVolumeFails, ImportFails, data
  <1>3. faults' \in 0..MaxFaults
    <2>1. faults \in 0..MaxFaults /\ MaxFaults \in Nat
      BY BackupsAssumption DEF BInv, TypeOK, BackupsAssumption
    <2>2. Fault \/ UNCHANGED faults
      BY DEF RestoreVolumeFails, ImportFails, Fails
    <2> QED
      BY <2>1, <2>2 DEF Fault
  <1>4. app = "stopped"
    BY <1>1 DEF BInv, RestoreInv
  <1>5. StoreInv' /\ DoneIsStored' /\ DirInv'
    BY <1>1, StorageKept, DirsKept DEF storage
  <1>6. HalfRestoredIsNotServed'
    BY <1>1, <1>4 DEF HalfRestoredIsNotServed
  <1>7. TypeOK'
    BY <1>1, <1>2, <1>3 DEF BInv, TypeOK
  <1> QED
    BY <1>1, <1>5, <1>6, <1>7, IdleInv DEF BInv

\* The database is replaced.
LEMMA ImportKeeps == BInv /\ Import => BInv'
  <1> SUFFICES ASSUME BInv, Import PROVE BInv'
    OBVIOUS
  <1>1. /\ pc = "import" /\ pc' = "start" /\ UNCHANGED <<driver, command, bounds>>
        /\ UNCHANGED <<volume, app, files, store, refused, done>>
        /\ Mine.sql # Absent
        /\ database' = Mine.sql \/ (driver = "pgsql" /\ database' = Broken)
    BY DEF Import, Then, storage
  <1>2. /\ command \in Command /\ command.object \in Objects /\ command.type = "restore"
        /\ store[command.object] \in Good
    BY <1>1, InCommand, Directories DEF BInv, RestoreInv, RestoreSteps
  <1>3. Mine.sql \in Data
    <2>1. PICK k \in Objects \union {"run"} : Here = <<"restore", k>>
      BY <1>2, Directories
    <2>2. files[<<"restore", k>>].sql \in Data \union {Absent}
      BY DEF BInv, DirInv
    <2> QED
      BY <1>1, <2>1, <2>2 DEF Mine
  <1>4. command.named => Mine.sql = store[command.object].sql
    <2>1. command.named => Here = <<"restore", command.object>>
      BY <1>2, Directories
    <2>2. files[<<"restore", command.object>>].sql \in {Absent, store[command.object].sql}
      BY <1>2 DEF BInv, DirInv
    <2> QED
      BY <1>1, <2>1, <2>2 DEF Mine
  <1>5. /\ database' \in Data
        /\ database' = Broken =>
            \/ driver' = "pgsql"
            \/ \E o \in Objects : store'[o].sql = Broken
    <2>1. PICK k \in Objects \union {"run"} : Here = <<"restore", k>>
      BY <1>2, Directories
    <2>2. Mine.sql = Broken => \E o \in Objects : store[o].sql = Broken
      BY <2>1 DEF BInv, DirInv, Mine
    <2> QED
      BY <1>1, <1>3, <2>2, Contents
  <1>6. StoreInv' /\ DoneIsStored' /\ DirInv' /\ HalfRestoredIsNotServed'
    BY <1>1, StorageKept, DirsKept, ServedKept DEF storage
  <1>7. TypeOK'
    <2>1. pc # "idle" /\ pc' # "idle" /\ pc' \in {"mkdir"} \union BackupSteps \union RestoreSteps
      BY <1>1 DEF RestoreSteps
    <2>2. volume' \in Data /\ app' \in {"running", "stopped"}
          /\ store' \in [Objects -> Archive] /\ files' \in [Dirs -> Files]
          /\ refused' \in SUBSET Objects /\ done' \in SUBSET Objects
      BY <1>1 DEF BInv, TypeOK, Data
    <2> QED
      BY <1>1, <1>5, <2>1, <2>2, ThenKeeps
  <1>8. BackupInv'
    BY <1>1 DEF BackupInv, BackupSteps
  <1>9. RestoreInv'
    BY <1>1, <1>2, <1>4, <1>5 DEF BInv, RestoreInv, RestoreSteps
  <1> QED
    BY <1>6, <1>7, <1>8, <1>9 DEF BInv

\* The application is started again.
LEMMA StartKeeps == BInv /\ Start => BInv'
  <1> SUFFICES ASSUME BInv, Start PROVE BInv'
    OBVIOUS
  <1>1. /\ pc = "start" /\ pc' = "idle" /\ command' = NoCommand /\ app' = "running"
        /\ UNCHANGED <<volume, database, driver, files, store, refused, done, writes, commands, faults>>
    BY DEF Start, Returns, AfterCommand, data, storage
  <1>2. command.object \in Objects /\ volume = store[command.object].volume
    BY <1>1, InCommand, Directories DEF BInv, RestoreInv
  <1>3. TypeOK'
    BY <1>1 DEF BInv, TypeOK
  <1>4. StoreInv' /\ DoneIsStored' /\ DirInv'
    BY <1>1, StorageKept, DirsKept DEF storage
  <1>5. HalfRestoredIsNotServed'
    BY <1>1, <1>2 DEF HalfRestoredIsNotServed
  <1> QED
    BY <1>1, <1>3, <1>4, <1>5, IdleInv DEF BInv

\* The agent is killed, at whatever step.
LEMMA KillKeeps == BInv /\ Kill => BInv'
  <1> SUFFICES ASSUME BInv, Kill PROVE BInv'
    OBVIOUS
  <1>1. /\ pc' = "idle" /\ command' = NoCommand /\ files' = [d \in Dirs |-> NoFiles]
        /\ UNCHANGED <<driver, refused, done, writes, commands>>
        /\ volume' = volume \/ (pc = "volume" /\ volume' = Broken)
        /\ database' \in {database, Broken}
        /\ store' = store \/ (pc = "upload" /\ store' = Stored)
    BY DEF Kill, Returns, AfterCommand
  <1>2. faults' \in 0..MaxFaults
    BY BackupsAssumption DEF Kill, Fault, BInv, TypeOK, BackupsAssumption
  <1>3. app' = app \/ (pc = "stop" /\ app' = "stopped") \/ (pc = "start" /\ app' = "running")
    BY DEF Kill
  <1>4. DirInv' /\ files' \in [Dirs -> Files]
    BY <1>1, Archives, RestoreDirs, Contents DEF DirInv
  <1>5. StoreInv' /\ DoneIsStored' /\ HalfRestoredIsNotServed' /\ store' \in [Objects -> Archive]
    <2>1. CASE pc = "upload"
      BY <1>1, <1>3, <2>1, UploadStores
    <2>2. CASE pc # "upload"
      <3>1. store' = store /\ StoreInv' /\ DoneIsStored' /\ store' \in [Objects -> Archive]
        BY <1>1, <2>2, StorageKept DEF storage
      <3>2. pc = "volume" => app' = "stopped"
        BY <1>3 DEF BInv, RestoreInv
      <3>3. pc = "start" => command.object \in Objects /\ volume = store[command.object].volume
        BY InCommand, Directories DEF BInv, RestoreInv
      <3>4. HalfRestoredIsNotServed'
        BY <1>1, <1>3, <3>1, <3>2, <3>3 DEF BInv, HalfRestoredIsNotServed
      <3> QED
        BY <3>1, <3>4
    <2> QED
      BY <2>1, <2>2
  <1>6. TypeOK'
    BY <1>1, <1>2, <1>3, <1>4, <1>5 DEF BInv, TypeOK
  <1> QED
    BY <1>1, <1>4, <1>5, <1>6, IdleInv DEF BInv

-----------------------------------------------------------------------------
(* The theorems                                                            *)

\* The strengthening is an invariant: the rest is read off from it.
THEOREM Invariance == Spec => []BInv
  <1>1. BInv /\ [Next]_vars => BInv'
    <2> SUFFICES ASSUME BInv, [Next]_vars PROVE BInv'
      OBVIOUS
    <2>1. CASE Write \/ Begin \/ Refuse \/ DatabaseRefused \/ StatFails \/ StopOrStartFails
      BY <2>1, WriteKeeps, BeginKeeps, RefusedKeeps
    <2>2. CASE TarVolumeFails \/ DumpFails \/ TarFails \/ DownloadFails \/ ExtractFails
      BY <2>2, CutOffKeeps
    <2>3. CASE MakeDirectory \/ TarVolume \/ Dump \/ Tar \/ Upload \/ UploadFails \/ Stat
      BY <2>3, MakeDirectoryKeeps, TarVolumeKeeps, DumpKeeps, TarKeeps, UploadKeeps,
         UploadFailsKeeps, StatKeeps
    <2>4. CASE Download \/ Extract \/ Stop \/ RestoreVolume \/ RestoreVolumeFails
               \/ Import \/ ImportFails \/ Start \/ Kill
      BY <2>4, DownloadKeeps, ExtractKeeps, StopKeeps, RestoreVolumeKeeps, HalfRestoredKeeps,
         ImportKeeps, StartKeeps, KillKeeps
    <2>5. CASE UNCHANGED vars
      <3> USE <2>5 DEF vars
      <3>1. TypeOK' /\ StoreInv' /\ DoneIsStored' /\ DirInv'
        BY DEF BInv, TypeOK, StoreInv, DoneIsStored, DirInv
      <3>2. BackupInv' /\ RestoreInv'
        <4>1. Mine' = Mine /\ BackupInv /\ RestoreInv
          BY SameCommand DEF Mine, BInv
        <4>2. BackupInv'
          BY <4>1 DEF BackupInv
        <4>3. RestoreInv'
          BY <4>1 DEF RestoreInv
        <4> QED
          BY <4>2, <4>3
      <3>3. HalfRestoredIsNotServed'
        BY DEF BInv, HalfRestoredIsNotServed
      <3> QED
        BY <3>1, <3>2, <3>3 DEF BInv
    <2> QED
      BY <2>1, <2>2, <2>3, <2>4, <2>5 DEF Next
  <1> QED
    BY <1>1, InitInv, PTL DEF Spec

\* The variables keep their types: no restore puts into a volume or a database
\* what no application has written.
THEOREM TypeCorrect == Spec => []TypeOK
  <1>1. BInv => TypeOK
    BY DEF BInv
  <1> QED
    BY <1>1, Invariance, PTL

\* Nothing that was cut off is stored, and what was reported as done is stored or
\* was refused by the storage.
THEOREM GoodBackups == Spec => []BackupsAreGood
  <1>1. BInv => BackupsAreGood
    BY Archives DEF BInv, StoreInv, BackupsAreGood, StoredIsWhole
  <1> QED
    BY <1>1, Invariance, PTL

\* The application is started again on what is stored.
THEOREM RestoredFaithfully == Spec => []RestoredIsStored
  <1>1. BInv => RestoredIsStored
    BY DEF BInv, RestoreInv, RestoredIsStored
  <1> QED
    BY <1>1, Invariance, PTL

\* Whatever cuts a restore off, the application does not run on half a volume,
\* nor is it started on half of a database that mysql filled for this restore.
THEOREM SafeRestores == Spec => []RestoresAreSafe
  <1>1. BInv => WipesForReplacement
    BY Archives DEF BInv, RestoreInv, WipesForReplacement
  <1>2. BInv => HalfImportedIsNotStarted
    BY DEF BInv, RestoreInv, HalfImportedIsNotStarted
  <1>3. BInv => RestoresAreSafe
    BY <1>1, <1>2 DEF BInv, RestoresAreSafe
  <1> QED
    BY <1>3, Invariance, PTL
=============================================================================
