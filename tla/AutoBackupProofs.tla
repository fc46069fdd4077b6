---------------------------- MODULE AutoBackupProofs ----------------------------
(***************************************************************************)
(* Theorems about AutoBackup for any interval, retention, retry schedule,  *)
(* number of mishaps and corrections of the clock.                         *)
(***************************************************************************)
EXTENDS AutoBackup, TLAPS

\* No date lies further in the future than the clock was set back.
Floor == -SetBack * setBacks

Settings(lo) ==
  [auto : BOOLEAN, usb : BOOLEAN, device : BOOLEAN, last : lo..Stale, err : BOOLEAN,
   usbLast : lo..Stale, usbErr : BOOLEAN, stage : 0..3, retry : 0..None]
Jobs(lo) ==
  [pc : {"idle", "lock", "backup", "record", "copy", "finalize", "catchUp", "stamp", "prune"},
   auto : BOOLEAN, retry : BOOLEAN, usb : BOOLEAN, file : lo..Old, lost : BOOLEAN]

FilesInv == local \subseteq Floor..Old /\ usb \subseteq Floor..Old /\ unsent \subseteq local
SetInv   == set \in Settings(Floor)
JobInv   == job \in Jobs(Floor)
LockInv  == /\ lock \in {"free", "auto", "manual", "restore"}
            /\ lock = "auto" <=> job.pc \notin {"idle", "lock"}
RestInv  == /\ plugged \in {"registered", "other", "none"}
            /\ wake \in BOOLEAN /\ strayed \in BOOLEAN /\ cut \in BOOLEAN
            /\ setBacks \in 0..MaxSetBacks /\ mishaps \in 0..MaxMishaps

TypeInv == FilesInv /\ SetInv /\ JobInv /\ LockInv /\ RestInv

\* A fresh date in the settings has a backup behind it that is no older.
DateIsTrue == set.last <= Fresh /\ local # {} => \E a \in local : a <= set.last

\* What a run has read, and made, still stands: time does not pass during it.
RunKnows ==
  /\ job.auto /\ job.pc \in {"lock", "backup"} => set.last >= Interval
  /\ job.auto /\ job.pc \in {"record", "copy", "finalize", "catchUp"} => job.file = 0
  /\ job.pc \in {"backup", "record"} => job.auto
  /\ job.pc = "record" => 0 \in local
  /\ job.auto /\ ~set.auto /\ job.pc \in {"backup", "record", "copy", "finalize"} => strayed
  /\ ~job.auto /\ set.auto /\ ~strayed /\ job.pc = "lock" => set.last < Interval

\* Backups go on, or the last one made is fresh still.
Current == set.auto \/ set.last <= Fresh

\* A file that was not yet due for renewal, or is the last one that was made.
Recent(f) == f < Interval \/ (~set.auto /\ f <= set.last)

\* A run copies a recent file, and until it dates the copy the device has one.
RunCopies ==
  ~strayed /\ Current =>
    /\ job.pc \in {"copy", "finalize"} => Recent(job.file)
    /\ job.pc = "catchUp" => Recent(job.file) /\ job.file \in usb
    /\ job.pc = "stamp" => \E a \in usb : Recent(a)

\* The date of the device belongs to a file that was recent when it was copied.
DeviceDateIsTrue ==
  ~strayed /\ set.usbLast <= Fresh /\ Current =>
    \E a \in usb : a < set.usbLast + Interval \/ (~set.auto /\ a <= set.last)

ProtectInv == TypeInv /\ DateIsTrue /\ RunKnows /\ RunCopies /\ DeviceDateIsTrue

\* After a catch-up that ran to its end, only backups made since are unsent.
MissingInv ==
  /\ TypeInv
  /\ ~cut /\ job.pc = "stamp" => unsent = {}
  /\ ~cut /\ set.usbLast <= Fresh /\ setBacks = 0 => \A a \in unsent : a <= set.usbLast

\* The clock is never wrong by as much as the time between two backups.
ClockNearlyRight == SetBack * MaxSetBacks < Interval

-----------------------------------------------------------------------------
(* Types. *)

\* The clock's total error is what its corrections add up to.
LEMMA FloorFacts ==
  ASSUME setBacks \in 0..MaxSetBacks
  PROVE  /\ Floor \in Int /\ Floor <= 0 /\ -SetBack * MaxSetBacks <= Floor
         /\ setBacks = 0 => Floor = 0
         /\ setBacks' = setBacks => Floor' = Floor
         /\ setBacks' = setBacks + 1 => Floor' = Floor - SetBack
<1>1. SetBack \in Nat /\ MaxSetBacks \in Nat /\ setBacks \in Nat
  BY TimesOK
<1>2. PICK d \in Nat : MaxSetBacks = setBacks + d
  <2>1. MaxSetBacks - setBacks \in Nat /\ MaxSetBacks = setBacks + (MaxSetBacks - setBacks)
    BY <1>1
  <2> QED
    BY <2>1
<1>3. SetBack * MaxSetBacks = SetBack * setBacks + SetBack * d
  BY <1>1, <1>2
<1>4. SetBack * setBacks \in Nat /\ SetBack * d \in Nat /\ SetBack * MaxSetBacks \in Nat
  BY <1>1, <1>2
<1>5. SetBack * (setBacks + 1) = SetBack * setBacks + SetBack
  BY <1>1
<1>6. setBacks = 0 => SetBack * setBacks = 0
  BY <1>1
<1> QED
  BY <1>1, <1>3, <1>4, <1>5, <1>6 DEF Floor

\* The bounds of the model as integers.
LEMMA Bounds ==
  /\ Interval \in Nat /\ Interval > 0 /\ Fresh \in Nat /\ Retention \in Nat /\ SetBack \in Nat
  /\ Interval <= Fresh /\ Fresh + Interval <= Old /\ Old \in Nat /\ Old = Retention + 1
  /\ Stale = Fresh + 1 /\ Stale <= Old /\ None = Interval + 1 /\ None \in Nat
  /\ \A s \in 1..3 : Delay[s] \in 0..None
  BY TimesOK DEF Old, Stale, None

\* Ageing and correcting keep a date within the bounds.
LEMMA DateTypes ==
  ASSUME setBacks \in 0..MaxSetBacks, NEW most \in Nat, NEW a \in Floor..most
  PROVE  /\ Older(a, most) \in Floor..most
         /\ Younger(a, most) \in (Floor - SetBack)..most
  BY FloorFacts, Bounds DEF Older, Younger

\* Only a correction of the clock moves the bound.
LEMMA FloorStep ==
  ASSUME setBacks \in 0..MaxSetBacks, [Next]_vars
  PROVE  \/ setBacks' = setBacks /\ Floor' = Floor
         \/ ClockSetBack /\ Floor' = Floor - SetBack
<1>1. setBacks' = setBacks \/ (ClockSetBack /\ setBacks' = setBacks + 1)
  BY DEF Next, Run, Look, Lock, Backup, Record, Copy, Finalize, CatchUp, Stamp, Prune, UsbFails,
     BackupFails, Tick, ClockSetBack, User, Plug, ConfigureUsb, DisableUsb, SwitchAuto,
     ChangeDirectory, OtherTakes, OtherLeaves, Restart, vars
<1> QED
  BY <1>1, FloorFacts

\* The program starts with no backup and no date.
LEMMA TypeInit == Init => TypeInv
<1> SUFFICES ASSUME Init
             PROVE  TypeInv
  OBVIOUS
<1>1. setBacks \in 0..MaxSetBacks /\ mishaps \in 0..MaxMishaps
  BY TimesOK DEF Init
<1>2. Floor \in Int /\ Floor <= 0
  BY <1>1, FloorFacts
<1>3. SetInv
  BY <1>2, Bounds DEF Init, SetInv, Settings
<1>4. JobInv
  BY <1>2, Bounds DEF Init, JobInv, Jobs, Idle
<1> QED
  BY <1>1, <1>3, <1>4 DEF Init, TypeInv, FilesInv, LockInv, RestInv, Idle

\* The backups.
LEMMA FilesStep ==
  ASSUME TypeInv, [Next]_vars
  PROVE  FilesInv'
<1>0. /\ Floor \in Int /\ Floor <= 0 /\ setBacks \in 0..MaxSetBacks
      /\ local \subseteq Floor..Old /\ usb \subseteq Floor..Old /\ unsent \subseteq local
      /\ job.file \in Floor..Old /\ 0 \in Floor..Old
  BY FloorFacts, Bounds DEF TypeInv, RestInv, FilesInv, JobInv, Jobs
<1>1. CASE ClockSetBack
  <2>1. Floor' = Floor - SetBack
    BY <1>0, <1>1, FloorFacts DEF ClockSetBack
  <2>2. \A a \in Floor..Old : Younger(a, Old) \in Floor'..Old
    BY <1>0, <2>1, Bounds, DateTypes
  <2> QED
    BY <1>0, <1>1, <2>2 DEF ClockSetBack, FilesInv
<1> SUFFICES ASSUME ~ClockSetBack, Floor' = Floor
             PROVE  FilesInv'
  BY <1>0, <1>1, FloorStep
<1>2. CASE UNCHANGED <<local, usb, unsent>>
  BY <1>0, <1>2 DEF FilesInv
<1>3. CASE Backup
  BY <1>0, <1>3 DEF Backup, FilesInv
<1>4. CASE Finalize
  BY <1>0, <1>2, <1>4 DEF Finalize, UsbFails, FilesInv
<1>5. CASE CatchUp
  <2>1. local' = local /\ unsent' \subseteq unsent
    BY <1>5 DEF CatchUp
  <2>2. usb' \subseteq usb \cup local
    BY <1>5 DEF CatchUp, Kept
  <2> QED
    BY <1>0, <2>1, <2>2 DEF FilesInv
<1>6. CASE Prune
  BY <1>0, <1>6 DEF Prune, Kept, FilesInv
<1>7. CASE Tick
  <2>1. \A a \in Floor..Old : Older(a, Old) \in Floor..Old
    BY <1>0, Bounds, DateTypes
  <2> QED
    BY <1>0, <1>7, <2>1 DEF Tick, FilesInv
<1>8. CASE ConfigureUsb
  BY <1>0, <1>8 DEF ConfigureUsb, FilesInv
<1>9. CASE ChangeDirectory
  BY <1>0, <1>9 DEF ChangeDirectory, FilesInv
<1> QED
  BY <1>2, <1>3, <1>4, <1>5, <1>6, <1>7, <1>8, <1>9 DEF Next, Run, Look, Lock, Record, Copy,
     Stamp, UsbFails, BackupFails, User, Plug, DisableUsb, SwitchAuto, OtherTakes, OtherLeaves,
     Restart, vars

\* The settings.
LEMMA SetStep ==
  ASSUME TypeInv, [Next]_vars
  PROVE  SetInv'
<1>0. /\ Floor \in Int /\ Floor <= 0 /\ setBacks \in 0..MaxSetBacks /\ set \in Settings(Floor)
      /\ Stale \in Nat /\ 0 \in Floor..Stale /\ 0 \in 0..3 /\ None \in 0..None
  BY FloorFacts, Bounds DEF TypeInv, RestInv, SetInv
<1>1. CASE ClockSetBack
  <2>1. Floor' = Floor - SetBack
    BY <1>0, <1>1, FloorFacts DEF ClockSetBack
  <2>2. /\ Younger(set.last, Stale) \in Floor'..Stale
        /\ Younger(set.usbLast, Stale) \in Floor'..Stale
    BY <1>0, <2>1, DateTypes DEF Settings
  <2>3. (IF set.retry = None THEN None
         ELSE IF set.retry + SetBack > Interval THEN Interval ELSE set.retry + SetBack) \in 0..None
    BY <1>0, Bounds DEF Settings
  <2> QED
    BY <1>0, <1>1, <2>2, <2>3 DEF ClockSetBack, SetInv, Settings
<1> SUFFICES ASSUME ~ClockSetBack, Floor' = Floor
             PROVE  SetInv'
  BY <1>0, <1>1, FloorStep
<1>2. CASE set' = set
  BY <1>0, <1>2 DEF SetInv
<1>3. CASE BackupFails \/ DisableUsb \/ SwitchAuto \/ ConfigureUsb
  <2>1. CASE BackupFails
    BY <1>0, <2>1 DEF BackupFails, SetInv, Settings
  <2>2. CASE DisableUsb
    BY <1>0, <2>2 DEF DisableUsb, SetInv, Settings
  <2>3. CASE SwitchAuto
    BY <1>0, <2>3 DEF SwitchAuto, SetInv, Settings
  <2>4. CASE ConfigureUsb
    BY <1>0, <2>4 DEF ConfigureUsb, SetInv, Settings
  <2> QED
    BY <1>3, <2>1, <2>2, <2>3, <2>4
<1>4. CASE Record
  BY <1>0, <1>4 DEF Record, SetInv, Settings
<1>5. CASE UsbFails
  <2>1. PICK st \in 1..3 :
          set' = [set EXCEPT !.stage = st, !.usbErr = TRUE, !.retry = Delay[st]]
    <3>1. (IF set.stage >= 3 THEN 1 ELSE set.stage + 1) \in 1..3
      BY <1>0 DEF Settings
    <3> QED
      BY <1>5, <3>1 DEF UsbFails, AfterUsbFailure
  <2>2. st \in 0..3 /\ Delay[st] \in 0..None
    BY Bounds
  <2> QED
    BY <1>0, <2>1, <2>2 DEF SetInv, Settings
<1>6. CASE Stamp
  BY <1>0, <1>6 DEF Stamp, AfterUsbSuccess, SetInv, Settings
<1>7. CASE Tick
  <2>1. Older(set.last, Stale) \in Floor..Stale /\ Older(set.usbLast, Stale) \in Floor..Stale
    BY <1>0, DateTypes DEF Settings
  <2>2. (IF set.retry \in {None, 0} THEN set.retry ELSE set.retry - 1) \in 0..None
    BY <1>0, Bounds DEF Settings
  <2> QED
    BY <1>0, <1>7, <2>1, <2>2 DEF Tick, Later, SetInv, Settings
<1> QED
  BY <1>2, <1>3, <1>4, <1>5, <1>6, <1>7 DEF Next, Run, Look, Lock, Backup, Copy, Finalize,
     CatchUp, Prune, User, Plug, ChangeDirectory, OtherTakes, OtherLeaves, Restart, vars

\* The run, and whose the lock is.
LEMMA JobStep ==
  ASSUME TypeInv, [Next]_vars
  PROVE  JobInv' /\ LockInv'
<1>0. /\ Floor \in Int /\ Floor <= 0 /\ setBacks \in 0..MaxSetBacks /\ job \in Jobs(Floor)
      /\ 0 \in Floor..Old /\ LockInv /\ local \subseteq Floor..Old /\ Old \in Nat
      /\ set.auto \in BOOLEAN /\ set.usb \in BOOLEAN
  BY FloorFacts, Bounds DEF TypeInv, RestInv, JobInv, FilesInv, SetInv, Settings
<1> USE DEF At, Goto, Leave
<1>01. Idle \in Jobs(Floor) /\ Idle.pc = "idle"
  BY <1>0 DEF Jobs, Idle
<1>1. CASE ClockSetBack
  <2>1. Floor' = Floor - SetBack /\ UNCHANGED <<job, lock>>
    BY <1>0, <1>1, FloorFacts DEF ClockSetBack
  <2>2. Floor..Old \subseteq Floor'..Old
    BY <1>0, <2>1, Bounds
  <2> QED
    BY <1>0, <2>1, <2>2 DEF JobInv, Jobs, LockInv
<1> SUFFICES ASSUME ~ClockSetBack, Floor' = Floor
             PROVE  JobInv' /\ LockInv'
  BY <1>0, <1>1, FloorStep
<1>2. CASE UNCHANGED <<job, lock>>
  BY <1>0, <1>2 DEF JobInv, LockInv
<1>3. CASE Leave
  BY <1>0, <1>01, <1>3 DEF JobInv, LockInv
<1>4. CASE Look
  BY <1>0, <1>4 DEF Look, Idle, AutoDue, RetryDue, JobInv, Jobs, LockInv
<1>5. CASE Lock
  <2>1. CASE lock # "free"
    BY <1>0, <1>01, <1>5, <2>1 DEF Lock, JobInv, LockInv
  <2>2. CASE lock = "free"
    <3>1. \/ job' = Idle /\ lock' = lock
          \/ job' = [job EXCEPT !.pc = "backup", !.usb = set.usb] /\ lock' = "auto"
          \/ \E a \in local : job' = [job EXCEPT !.pc = "copy", !.file = a] /\ lock' = "auto"
      BY <1>5, <2>2 DEF Lock
    <3>2. CASE job' = Idle /\ lock' = lock
      BY <1>0, <1>01, <2>2, <3>2 DEF JobInv, LockInv
    <3>3. CASE job' = [job EXCEPT !.pc = "backup", !.usb = set.usb] /\ lock' = "auto"
      BY <1>0, <3>3 DEF JobInv, Jobs, LockInv
    <3>4. ASSUME NEW a \in local, job' = [job EXCEPT !.pc = "copy", !.file = a], lock' = "auto"
          PROVE  JobInv' /\ LockInv'
      BY <1>0, <3>4 DEF JobInv, Jobs, LockInv
    <3> QED
      BY <3>1, <3>2, <3>3, <3>4
  <2> QED
    BY <2>1, <2>2
<1>6. CASE Backup \/ Record
  BY <1>0, <1>6 DEF Backup, Record, JobInv, Jobs, LockInv
<1>7. ASSUME NEW p \in {"finalize", "catchUp", "stamp", "prune"}, job.pc \notin {"idle", "lock"},
             Goto(p), lock' = lock
      PROVE  JobInv' /\ LockInv'
  BY <1>0, <1>7 DEF JobInv, Jobs, LockInv
<1>8. CASE Copy \/ Finalize \/ CatchUp \/ Stamp
  <2>1. \/ Leave
        \/ \E p \in {"finalize", "catchUp", "stamp", "prune"} : Goto(p) /\ lock' = lock
    BY <1>8 DEF Copy, Finalize, CatchUp, Stamp, UsbFails, AfterUsb
  <2>2. job.pc \notin {"idle", "lock"}
    BY <1>8 DEF Copy, Finalize, CatchUp, Stamp
  <2> QED
    BY <1>3, <1>7, <2>1, <2>2
<1>9. CASE Prune \/ BackupFails \/ Restart
  BY <1>3, <1>9 DEF Prune, BackupFails, Restart
<1>10. CASE ConfigureUsb
  BY <1>0, <1>10 DEF ConfigureUsb, JobInv, Jobs, LockInv
<1>11. CASE OtherTakes \/ OtherLeaves
  BY <1>0, <1>11 DEF OtherTakes, OtherLeaves, JobInv, Jobs, LockInv
<1> QED
  BY <1>2, <1>4, <1>5, <1>6, <1>8, <1>9, <1>10, <1>11 DEF Next, Run, Tick, User, Plug,
     DisableUsb, SwitchAuto, ChangeDirectory, vars

\* The device, the histories and the bounds.
LEMMA RestStep ==
  ASSUME TypeInv, [Next]_vars
  PROVE  RestInv'
<1>0. RestInv /\ job.auto \in BOOLEAN /\ MaxSetBacks \in Nat /\ MaxMishaps \in Nat
  BY TimesOK DEF TypeInv, JobInv, Jobs
<1>1. mishaps' \in 0..MaxMishaps /\ setBacks' \in 0..MaxSetBacks
  <2>1. mishaps' = mishaps \/ Mishap
    BY DEF Next, Run, Look, Lock, Backup, Record, Copy, Finalize, CatchUp, Stamp, Prune, UsbFails,
       BackupFails, Tick, ClockSetBack, User, Plug, ConfigureUsb, DisableUsb, SwitchAuto,
       ChangeDirectory, OtherTakes, OtherLeaves, Restart, vars
  <2>2. setBacks' = setBacks \/ ClockSetBack
    BY FloorStep, <1>0 DEF RestInv
  <2> QED
    BY <1>0, <2>1, <2>2 DEF Mishap, ClockSetBack, RestInv
<1>2. strayed' \in BOOLEAN /\ wake' \in BOOLEAN
  BY <1>0 DEF Next, Run, Look, Lock, Backup, Record, Copy, Finalize, CatchUp, Stamp, Prune, UsbFails,
     BackupFails, Tick, ClockSetBack, User, Plug, ConfigureUsb, DisableUsb, SwitchAuto,
     ChangeDirectory, OtherTakes, OtherLeaves, Restart, vars, RestInv
<1>3. cut' \in BOOLEAN /\ plugged' \in {"registered", "other", "none"}
  BY <1>0 DEF Next, Run, Look, Lock, Backup, Record, Copy, Finalize, CatchUp, Stamp, Prune, UsbFails,
     BackupFails, Tick, ClockSetBack, User, Plug, ConfigureUsb, DisableUsb, SwitchAuto,
     ChangeDirectory, OtherTakes, OtherLeaves, Restart, vars, RestInv
<1> QED
  BY <1>1, <1>2, <1>3 DEF RestInv

\* Every step keeps the types.
LEMMA TypeStep == TypeInv /\ [Next]_vars => TypeInv'
  BY FilesStep, SetStep, JobStep, RestStep DEF TypeInv

\* Every variable keeps its type; the lock belongs to the scheduler exactly while
\* its run is past the lock.
THEOREM BackupTypes == Spec => []AutoTypeOK
<1>1. TypeInv => AutoTypeOK
  <2> SUFFICES ASSUME TypeInv
               PROVE  AutoTypeOK
    OBVIOUS
  <2>1. Floor \in Int /\ -SetBack * MaxSetBacks <= Floor /\ -SetBack * MaxSetBacks \in Int
    BY FloorFacts, TimesOK DEF TypeInv, RestInv
  <2>2. Floor..Old \subseteq Ages /\ Floor..Stale \subseteq Times
    BY <2>1, Bounds DEF Ages, Times
  <2>3. set \in Settings(Floor) /\ job \in Jobs(Floor)
    BY DEF TypeInv, SetInv, JobInv
  <2> QED
    BY <2>2, <2>3 DEF TypeInv, FilesInv, LockInv, RestInv, Settings, Jobs, AutoTypeOK
<1> QED
  BY <1>1, TypeInit, TypeStep, PTL DEF Spec

-----------------------------------------------------------------------------
(* What "Protected" promises. *)

\* Dates are integers.
LEMMA DatesAreInts ==
  ASSUME TypeInv
  PROVE  /\ set.last \in Int /\ set.last <= Stale /\ set.usbLast \in Int /\ set.usbLast <= Stale
         /\ Floor <= set.usbLast /\ Floor \in Int
         /\ set.auto \in BOOLEAN /\ job.auto \in BOOLEAN /\ strayed \in BOOLEAN /\ cut \in BOOLEAN
         /\ job.file \in Int
         /\ \A a \in local \cup usb : a \in Int /\ a <= Old
  BY FloorFacts, Bounds DEF TypeInv, FilesInv, SetInv, JobInv, RestInv, Settings, Jobs

\* What pruning leaves.
LEMMA KeptFacts ==
  ASSUME NEW files
  PROVE  /\ Kept(files) \subseteq files
         /\ \A a \in files : a # Old => a \in Kept(files)
  BY DEF Kept

\* Time ages a fresh date like the files, or makes it stale.
LEMMA TickDates ==
  ASSUME TypeInv, Tick
  PROVE  /\ set'.last = Older(set.last, Stale) /\ set'.usbLast = Older(set.usbLast, Stale)
         /\ set'.auto = set.auto /\ job' = job /\ strayed' = strayed /\ cut' = cut
         /\ job.pc = "idle" /\ setBacks' = setBacks
  BY DEF Tick, Later, TypeInv, SetInv, Settings, At

\* A correction of the clock moves a fresh date like the files.
LEMMA CorrectedDates ==
  ASSUME TypeInv, ClockSetBack
  PROVE  /\ set'.last = Younger(set.last, Stale) /\ set'.usbLast = Younger(set.usbLast, Stale)
         /\ set'.auto = set.auto /\ job' = job /\ strayed' = strayed /\ cut' = cut
         /\ job.pc = "idle"
  BY DEF ClockSetBack, TypeInv, SetInv, Settings, At

\* Which steps date the last backup.
LEMMA LastSteps ==
  ASSUME TypeInv, [Next]_vars
  PROVE  \/ set'.last = set.last
         \/ Record /\ set'.last = 0
         \/ Tick \/ ClockSetBack
<1>0. set \in Settings(Floor)
  BY DEF TypeInv, SetInv
<1> QED
  BY <1>0 DEF Settings, Next, Run, Look, Lock, Backup, Record, Copy, Finalize, CatchUp, Stamp,
     Prune, UsbFails, AfterUsbFailure, AfterUsbSuccess, BackupFails, User, Plug, ConfigureUsb,
     DisableUsb, SwitchAuto, ChangeDirectory, OtherTakes, OtherLeaves, Restart, vars

\* Which steps date the copy on the device.
LEMMA UsbLastSteps ==
  ASSUME TypeInv, [Next]_vars
  PROVE  \/ set'.usbLast = set.usbLast
         \/ Stamp /\ set'.usbLast = 0
         \/ Tick \/ ClockSetBack
<1>0. set \in Settings(Floor)
  BY DEF TypeInv, SetInv
<1> QED
  BY <1>0 DEF Settings, Next, Run, Look, Lock, Backup, Record, Copy, Finalize, CatchUp, Stamp,
     Prune, UsbFails, AfterUsbFailure, AfterUsbSuccess, BackupFails, User, Plug, ConfigureUsb,
     DisableUsb, SwitchAuto, ChangeDirectory, OtherTakes, OtherLeaves, Restart, vars

\* The schedule is switched by the user alone, and that is remembered.
LEMMA AutoSteps ==
  ASSUME TypeInv, [Next]_vars
  PROVE  /\ set'.auto = set.auto \/ strayed'
         /\ strayed /\ ~strayed' => Finalize /\ job.auto /\ job.pc = "finalize" /\ set' = set
<1>0. set \in Settings(Floor) /\ job.auto \in BOOLEAN /\ strayed \in BOOLEAN
  BY DEF TypeInv, SetInv, JobInv, Jobs, RestInv
<1>1. set'.auto = set.auto \/ strayed'
  BY <1>0 DEF Settings, Next, Run, Look, Lock, Backup, Record, Copy, Finalize, CatchUp, Stamp,
     Prune, UsbFails, AfterUsbFailure, AfterUsbSuccess, BackupFails, Tick, ClockSetBack, Later,
     User, Plug, ConfigureUsb, DisableUsb, SwitchAuto, ChangeDirectory, OtherTakes,
     OtherLeaves, Restart, vars
<1>2. strayed /\ ~strayed' => Finalize /\ job.auto /\ job.pc = "finalize" /\ set' = set
  BY <1>0 DEF Next, Run, Look, Lock, Backup, Record, Copy, Finalize, CatchUp, Stamp, At,
     Prune, UsbFails, BackupFails, Tick, ClockSetBack, User, Plug, ConfigureUsb, DisableUsb,
     SwitchAuto, ChangeDirectory, OtherTakes, OtherLeaves, Restart, vars
<1> QED
  BY <1>1, <1>2

\* The date in the settings stays true.
LEMMA DateStep ==
  ASSUME TypeInv, DateIsTrue, RunKnows, [Next]_vars
  PROVE  DateIsTrue'
<1>0. /\ set.last \in Int /\ set.last <= Stale /\ (\A a \in local : a \in Int /\ a <= Old)
      /\ Stale = Fresh + 1 /\ Fresh \in Nat /\ Stale <= Old /\ Old \in Nat
      /\ Interval \in Nat /\ SetBack \in Nat
  BY DatesAreInts, Bounds
<1>1. CASE Tick
  <2> SUFFICES ASSUME set'.last <= Fresh, local' # {}
               PROVE  \E a \in local' : a <= set'.last
    BY DEF DateIsTrue
  <2>1. set'.last = set.last + 1 /\ set.last <= Fresh
    BY <1>0, <1>1, TickDates DEF Older
  <2>2. local' = {Older(a, Old) : a \in local}
    BY <1>1 DEF Tick
  <2>3. PICK a \in local : a <= set.last
    BY <2>1, <2>2 DEF DateIsTrue
  <2>4. Older(a, Old) <= set'.last
    BY <1>0, <2>1, <2>3 DEF Older
  <2> QED
    BY <2>2, <2>4
<1>2. CASE ClockSetBack
  <2> SUFFICES ASSUME set'.last <= Fresh, local' # {}
               PROVE  \E a \in local' : a <= set'.last
    BY DEF DateIsTrue
  <2>1. set'.last = set.last - SetBack /\ set.last <= Fresh
    BY <1>0, <1>2, CorrectedDates DEF Younger
  <2>2. local' = {Younger(a, Old) : a \in local}
    BY <1>2 DEF ClockSetBack
  <2>3. PICK a \in local : a <= set.last
    BY <2>1, <2>2 DEF DateIsTrue
  <2>4. Younger(a, Old) <= set'.last
    BY <1>0, <2>1, <2>3 DEF Younger
  <2> QED
    BY <2>2, <2>4
<1>3. CASE Record /\ set'.last = 0
  BY <1>3 DEF Record, RunKnows, DateIsTrue, At
<1> SUFFICES ASSUME set'.last = set.last
             PROVE  DateIsTrue'
  BY <1>1, <1>2, <1>3, LastSteps
<1>4. CASE local' = local \/ local' = {}
  BY <1>4 DEF DateIsTrue
<1>5. CASE Backup
  BY <1>0, <1>5 DEF Backup, At, RunKnows, DateIsTrue
<1>6. CASE Prune
  BY <1>0, <1>6, KeptFacts DEF Prune, DateIsTrue
<1> QED
  BY <1>1, <1>2, <1>4, <1>5, <1>6 DEF Next, Run, Look, Lock, Record, Copy, Finalize, CatchUp,
     Stamp, UsbFails, BackupFails, User, Plug, ConfigureUsb, DisableUsb, SwitchAuto,
     ChangeDirectory, OtherTakes, OtherLeaves, Restart, vars

\* What a run knows stays so.
LEMMA KnowsStep ==
  ASSUME TypeInv, RunKnows, [Next]_vars
  PROVE  RunKnows'
<1>0. /\ set.last \in Int /\ set.auto \in BOOLEAN /\ job.auto \in BOOLEAN
      /\ strayed \in BOOLEAN /\ job \in Jobs(Floor) /\ Interval \in Nat
  BY DatesAreInts, Bounds DEF TypeInv, JobInv
<1>1. CASE job'.pc = "idle"
  BY <1>1 DEF RunKnows
<1>2. CASE Look
  <2>1. job'.pc \in {"idle", "lock"} /\ set' = set
    BY <1>2 DEF Look, Idle
  <2>2. CASE job'.pc = "lock"
    <3>1. job'.auto = AutoDue(set)
      BY <1>2, <2>2 DEF Look, Idle
    <3>2. /\ job'.auto => set.last >= Interval
          /\ ~job'.auto /\ set.auto => set.last < Interval
      <4>1. CASE AutoDue(set)
        BY <3>1, <4>1 DEF AutoDue
      <4>2. CASE ~AutoDue(set)
        <5>1. ~job'.auto
          BY <3>1, <4>2
        <5>2. set.auto => ~(set.last >= Interval)
          BY <4>2 DEF AutoDue
        <5> QED
          BY <1>0, <5>1, <5>2
      <4> QED
        BY <4>1, <4>2
    <3>3. set'.last = set.last /\ set'.auto = set.auto
      BY <2>1
    <3> QED
      BY <2>2, <3>2, <3>3 DEF RunKnows
  <2> QED
    BY <1>1, <2>1, <2>2
<1>3. CASE Lock
  <2>1. set' = set /\ strayed' = strayed /\ job.pc = "lock"
    BY <1>3 DEF Lock, At
  <2>2. CASE job.auto /\ set.auto /\ job' = [job EXCEPT !.pc = "backup", !.usb = set.usb]
    <3>1. job'.pc = "backup" /\ job'.auto = job.auto
      BY <1>0, <2>2 DEF Jobs
    <3> QED
      BY <2>1, <2>2, <3>1 DEF RunKnows
  <2>3. CASE ~job.auto /\ \E a \in local : job' = [job EXCEPT !.pc = "copy", !.file = a]
    <3>1. job'.pc = "copy" /\ job'.auto = job.auto
      BY <1>0, <2>3 DEF Jobs
    <3> QED
      BY <2>3, <3>1 DEF RunKnows
  <2>4. CASE job' = Idle
    BY <1>1, <2>4 DEF Idle
  <2> QED
    BY <1>3, <2>2, <2>3, <2>4 DEF Lock
<1>4. CASE Backup
  BY <1>0, <1>4 DEF Backup, At, RunKnows, Jobs
<1>5. CASE Record
  <2>1. set'.auto = set.auto /\ strayed' = strayed /\ job.pc = "record"
    BY <1>5 DEF Record, At, TypeInv, SetInv, Settings
  <2>2. /\ job'.pc \in {"copy", "prune"} /\ job'.auto = job.auto /\ job'.file = job.file
    BY <1>0, <1>5 DEF Record, Jobs
  <2> QED
    BY <1>0, <2>1, <2>2 DEF RunKnows
<1>6. ASSUME NEW p \in {"finalize", "catchUp", "stamp", "prune"}, Goto(p),
             p = "finalize" => job.pc = "copy" /\ set' = set /\ strayed' = strayed,
             job.pc \in {"copy", "finalize", "catchUp", "stamp"},
             p = "catchUp" => job.pc = "finalize"
      PROVE  RunKnows'
  <2>1. job'.pc = p /\ job'.auto = job.auto /\ job'.file = job.file
    BY <1>0, <1>6 DEF Goto, Jobs
  <2> QED
    BY <1>0, <1>6, <2>1 DEF RunKnows
<1>7. CASE UsbFails /\ job.pc \in {"copy", "finalize"}
  <2>1. Goto("prune") \/ job'.pc = "idle"
    BY <1>7 DEF UsbFails, AfterUsb, Leave, Idle
  <2> QED
    BY <1>1, <1>6, <1>7, <2>1
<1>8. CASE Copy
  BY <1>6, <1>7, <1>8 DEF Copy, At
<1>9. CASE Finalize
  BY <1>6, <1>7, <1>9 DEF Finalize, At
<1>10. CASE CatchUp
  BY <1>6, <1>10 DEF CatchUp, At
<1>11. CASE Stamp
  <2>1. Goto("prune") \/ job'.pc = "idle"
    BY <1>11 DEF Stamp, AfterUsb, Leave, Idle
  <2> QED
    BY <1>1, <1>6, <1>11, <2>1 DEF Stamp, At
<1>12. CASE Prune \/ BackupFails \/ Restart \/ Tick \/ ClockSetBack
  BY <1>1, <1>12, TickDates, CorrectedDates DEF Prune, BackupFails, Restart, Leave, Idle
<1>13. CASE User
  <2>1. /\ job'.pc = job.pc /\ job'.auto = job.auto /\ job'.file = job.file
        /\ local' = local \/ job.pc \in {"idle", "lock"}
    BY <1>0, <1>13 DEF User, Plug, ConfigureUsb, DisableUsb, SwitchAuto, ChangeDirectory, At, Jobs
  <2>2. set'.last = set.last /\ (strayed' \/ (set'.auto = set.auto /\ ~strayed))
    BY <1>0, <1>13 DEF User, Plug, ConfigureUsb, DisableUsb, SwitchAuto, ChangeDirectory,
       TypeInv, SetInv, Settings
  <2> QED
    BY <1>0, <2>1, <2>2 DEF RunKnows
<1>14. CASE OtherTakes \/ OtherLeaves \/ UNCHANGED vars
  BY <1>14 DEF OtherTakes, OtherLeaves, vars, RunKnows
<1> QED
  BY <1>2, <1>3, <1>4, <1>5, <1>8, <1>9, <1>10, <1>11, <1>12, <1>13, <1>14 DEF Next, Run

\* Recent files are not past retention.
LEMMA RecentIsNotOld ==
  ASSUME TypeInv, Current
  PROVE  /\ \A f \in Int : Recent(f) => f < Old
         /\ \A f \in Int : set.usbLast <= Fresh /\ (f < set.usbLast + Interval
                                                \/ (~set.auto /\ f <= set.last)) => f < Old
  BY DatesAreInts, Bounds DEF Current, Recent

\* A step that leaves the device trusted found it trusted, except the copy of a
\* new backup; and what was current before is so after it.
LEMMA StillTrusted ==
  ASSUME TypeInv, RunKnows, [Next]_vars, ~strayed', Current'
  PROVE  /\ set'.auto = set.auto
         /\ \/ ~strayed /\ Current
            \/ strayed /\ Finalize /\ job.auto /\ job.pc = "finalize" /\ set' = set
<1>0. /\ set.last \in Int /\ set.last <= Stale /\ Stale = Fresh + 1 /\ Fresh \in Nat
      /\ SetBack \in Nat
  BY DatesAreInts, Bounds
<1>1. set'.auto = set.auto
  BY AutoSteps
<1>2. CASE strayed
  BY <1>1, <1>2, AutoSteps
<1>3. ASSUME ~strayed
      PROVE  Current
  <2>1. CASE set.auto
    BY <2>1 DEF Current
  <2>2. CASE ~set.auto
    <3>1. set'.last <= Fresh
      BY <1>1, <2>2 DEF Current
    <3>2. ~Record
      BY <1>3, <2>2 DEF Record, At, RunKnows
    <3>3. set'.last = set.last \/ Tick \/ ClockSetBack
      BY <3>2, LastSteps
    <3>4. set.last <= Fresh
      BY <1>0, <3>1, <3>3, TickDates, CorrectedDates DEF Older, Younger
    <3> QED
      BY <3>4 DEF Current
  <2> QED
    BY <2>1, <2>2
<1> QED
  BY <1>1, <1>2, <1>3

\* The steps that take a backup from the device.
LEMMA DeviceSteps ==
  ASSUME TypeInv, [Next]_vars
  PROVE  \/ \A a \in usb : a # Old => a \in usb'
         \/ strayed'
         \/ Tick \/ ClockSetBack
<1>1. CASE Finalize
  BY <1>1 DEF Finalize, UsbFails
<1>2. CASE CatchUp
  BY <1>2, KeptFacts DEF CatchUp
<1>3. CASE ConfigureUsb
  BY <1>3 DEF ConfigureUsb
<1> QED
  BY <1>1, <1>2, <1>3 DEF Next, Run, Look, Lock, Backup, Record, Copy, Stamp, Prune, UsbFails,
     BackupFails, User, Plug, DisableUsb, SwitchAuto, ChangeDirectory, OtherTakes, OtherLeaves,
     Restart, vars

\* A run goes on copying what is recent.
LEMMA CopiesStep ==
  ASSUME TypeInv, DateIsTrue, RunKnows, RunCopies, [Next]_vars
  PROVE  RunCopies'
<1> DEFINE Rec(f) == f < Interval \/ (~set'.auto /\ f <= set'.last)
<1> SUFFICES ASSUME ~strayed', Current'
             PROVE  /\ job'.pc \in {"copy", "finalize"} => Rec(job'.file)
                    /\ job'.pc = "catchUp" => Rec(job'.file) /\ job'.file \in usb'
                    /\ job'.pc = "stamp" => \E a \in usb' : Rec(a)
  BY DEF RunCopies, Recent
<1>0. /\ job \in Jobs(Floor) /\ job.file \in Int /\ job.auto \in BOOLEAN /\ set.auto \in BOOLEAN
      /\ set.last \in Int /\ Interval \in Nat /\ Interval > 0 /\ Fresh \in Nat /\ Interval <= Fresh
      /\ set'.auto = set.auto
  BY DatesAreInts, Bounds, StillTrusted DEF TypeInv, JobInv
<1>1. CASE job'.pc \in {"idle", "lock", "backup", "record", "prune"}
  BY <1>1
<1>2. ASSUME Goto("catchUp"), usb' = usb \cup {job.file}, Rec(job.file)
      PROVE  job'.pc = "catchUp" /\ Rec(job'.file) /\ job'.file \in usb'
  BY <1>0, <1>2 DEF Goto, Jobs
<1>3. CASE Finalize /\ job.auto /\ job.pc = "finalize" /\ set' = set
  <2>1. job.file = 0 /\ Rec(job.file)
    BY <1>0, <1>3 DEF RunKnows
  <2>2. CASE Goto("catchUp") /\ usb' = usb \cup {job.file}
    BY <1>2, <2>1, <2>2
  <2>3. CASE UsbFails
    BY <1>1, <1>0, <1>3, <2>3 DEF UsbFails, AfterUsb, Goto, Leave, Idle, Jobs
  <2> QED
    BY <1>3, <2>2, <2>3 DEF Finalize
<1> SUFFICES ASSUME ~strayed, Current
             PROVE  /\ job'.pc \in {"copy", "finalize"} => Rec(job'.file)
                    /\ job'.pc = "catchUp" => Rec(job'.file) /\ job'.file \in usb'
                    /\ job'.pc = "stamp" => \E a \in usb' : Rec(a)
  BY <1>3, StillTrusted
<1>4. /\ job.pc \in {"copy", "finalize"} => Recent(job.file)
      /\ job.pc = "catchUp" => Recent(job.file) /\ job.file \in usb
      /\ job.pc = "stamp" => \E a \in usb : Recent(a)
  BY DEF RunCopies
<1>5. CASE Record
  <2>1. job'.file = 0 /\ job'.pc \in {"copy", "prune"}
    BY <1>0, <1>5 DEF Record, At, RunKnows, Jobs
  <2> QED
    BY <1>0, <2>1
<1>6. CASE Tick \/ ClockSetBack
  BY <1>1, <1>6, TickDates, CorrectedDates
<1> SUFFICES ASSUME ~Record, ~Tick, ~ClockSetBack, set'.last = set.last
             PROVE  /\ job'.pc \in {"copy", "finalize"} => Rec(job'.file)
                    /\ job'.pc = "catchUp" => Rec(job'.file) /\ job'.file \in usb'
                    /\ job'.pc = "stamp" => \E a \in usb' : Rec(a)
  BY <1>5, <1>6, LastSteps
<1>7. \A f : Recent(f) <=> Rec(f)
  BY <1>0 DEF Recent
<1>8. ASSUME job'.pc = job.pc, job'.file = job.file
      PROVE  /\ job'.pc \in {"copy", "finalize"} => Rec(job'.file)
             /\ job'.pc = "catchUp" => Rec(job'.file) /\ job'.file \in usb'
             /\ job'.pc = "stamp" => \E a \in usb' : Rec(a)
  <2>1. ASSUME NEW a \in usb, Recent(a)
        PROVE  a \in usb'
    BY <2>1, DatesAreInts, RecentIsNotOld, DeviceSteps, Bounds
  <2> QED
    BY <1>4, <1>7, <1>8, <2>1
<1>9. CASE Look \/ Backup \/ Prune \/ BackupFails \/ Restart
  <2>1. CASE Look
    BY <1>1, <2>1 DEF Look, Idle
  <2>2. CASE Backup
    BY <1>0, <1>1, <2>2 DEF Backup, Jobs
  <2>3. CASE Leave \/ job' = Idle
    BY <1>1, <2>3 DEF Leave, Idle
  <2> QED
    BY <1>9, <2>1, <2>2, <2>3 DEF Prune, BackupFails, Restart
<1>10. CASE Lock
  <2>1. ASSUME NEW a \in local, Newest(a), ~job.auto, job' = [job EXCEPT !.pc = "copy", !.file = a]
        PROVE  job'.pc = "copy" /\ Rec(job'.file)
    <3>0. set.auto => set.last < Interval
      BY <1>10, <2>1 DEF Lock, At, RunKnows
    <3>1. set.last <= Fresh
      BY <1>0, <3>0 DEF Current
    <3>2. PICK b \in local : b <= set.last
      BY <3>1 DEF DateIsTrue
    <3>3. a <= b /\ a \in Int /\ b \in Int
      BY <2>1, DatesAreInts DEF Newest
    <3>4. job'.pc = "copy" /\ job'.file = a
      BY <1>0, <2>1 DEF Jobs
    <3> QED
      BY <1>0, <3>0, <3>1, <3>2, <3>3, <3>4
  <2>2. CASE job' = Idle
    BY <1>1, <2>2 DEF Idle
  <2>3. CASE job' = [job EXCEPT !.pc = "backup", !.usb = set.usb]
    BY <1>0, <1>1, <2>3 DEF Jobs
  <2> QED
    BY <1>10, <2>1, <2>2, <2>3 DEF Lock
<1>11. CASE UsbFails \/ Stamp
  BY <1>0, <1>1, <1>11 DEF UsbFails, Stamp, AfterUsb, Goto, Leave, Idle, Jobs
<1>12. CASE Copy
  <2>1. CASE At("copy") /\ Goto("finalize")
    <3>1. job.pc = "copy" /\ job'.pc = "finalize" /\ job'.file = job.file
      BY <1>0, <2>1 DEF At, Goto, Jobs
    <3> QED
      BY <1>4, <1>7, <3>1
  <2> QED
    BY <1>11, <1>12, <2>1 DEF Copy
<1>13. CASE Finalize
  <2>1. CASE Goto("catchUp") /\ usb' = usb \cup {job.file}
    BY <1>2, <1>4, <1>7, <1>13, <2>1 DEF Finalize, At
  <2> QED
    BY <1>11, <1>13, <2>1 DEF Finalize
<1>14. CASE CatchUp
  <2>1. job.pc = "catchUp" /\ job'.pc = "stamp"
    BY <1>0, <1>14 DEF CatchUp, At, Goto, Jobs
  <2>2. job.file < Old /\ Recent(job.file) /\ job.file \in usb
    BY <1>0, <1>4, <2>1, RecentIsNotOld
  <2>3. job.file \in usb'
    BY <1>0, <2>2, Bounds, DeviceSteps
  <2> QED
    BY <1>7, <2>1, <2>2, <2>3
<1>15. CASE User
  BY <1>0, <1>8, <1>15 DEF User, Plug, ConfigureUsb, DisableUsb, SwitchAuto, ChangeDirectory, Jobs
<1>16. CASE OtherTakes \/ OtherLeaves \/ UNCHANGED vars
  BY <1>8, <1>16 DEF OtherTakes, OtherLeaves, vars
<1> QED
  BY <1>9, <1>10, <1>11, <1>12, <1>13, <1>14, <1>15, <1>16 DEF Next, Run

\* The date of the device stays true.
LEMMA DeviceStep ==
  ASSUME TypeInv, RunKnows, RunCopies, DeviceDateIsTrue, ClockNearlyRight, [Next]_vars
  PROVE  DeviceDateIsTrue'
<1> DEFINE Dated(a) == a < set'.usbLast + Interval \/ (~set'.auto /\ a <= set'.last)
<1> SUFFICES ASSUME ~strayed', set'.usbLast <= Fresh, Current'
             PROVE  \E a \in usb' : Dated(a)
  BY DEF DeviceDateIsTrue
<1>0. /\ set.last \in Int /\ set.usbLast \in Int /\ set.auto \in BOOLEAN /\ set'.auto = set.auto
      /\ set.usbLast <= Stale /\ set.last <= Stale /\ Stale = Fresh + 1 /\ Stale <= Old
      /\ Interval \in Nat /\ Interval > 0 /\ Fresh \in Nat /\ SetBack \in Nat /\ Old \in Nat
      /\ Fresh + Interval <= Old
  BY DatesAreInts, Bounds, StillTrusted
<1>1. \A a \in usb : a \in Int /\ a <= Old
  BY DatesAreInts
<1>2. CASE strayed /\ Finalize /\ job.auto /\ job.pc = "finalize" /\ set' = set
  <2>1. job.file = 0
    BY <1>2 DEF RunKnows
  <2>2. -Interval < set.usbLast
    <3>1. SetBack * MaxSetBacks \in Nat /\ -SetBack * MaxSetBacks = -(SetBack * MaxSetBacks)
      BY TimesOK
    <3>2. -SetBack * MaxSetBacks <= Floor /\ Floor <= set.usbLast /\ Floor \in Int
      BY FloorFacts, DatesAreInts DEF TypeInv, RestInv
    <3> QED
      BY <1>0, <3>1, <3>2 DEF ClockNearlyRight
  <2>3. CASE usb' = usb \cup {job.file}
    <3>1. 0 \in usb' /\ Dated(0)
      BY <1>0, <1>2, <2>1, <2>2, <2>3
    <3> QED
      BY <3>1
  <2>4. CASE UsbFails
    BY <1>2, <2>4 DEF UsbFails
  <2> QED
    BY <1>2, <2>3, <2>4 DEF Finalize
<1> SUFFICES ASSUME ~strayed, Current
             PROVE  \E a \in usb' : Dated(a)
  BY <1>2, StillTrusted
<1>3. CASE Tick
  <2>1. /\ set.usbLast <= Fresh /\ set'.usbLast = set.usbLast + 1
        /\ ~set.auto => set.last <= Fresh /\ set'.last = set.last + 1
    BY <1>0, <1>3, TickDates DEF Older, Current
  <2>2. PICK a \in usb : a < set.usbLast + Interval \/ (~set.auto /\ a <= set.last)
    BY <2>1 DEF DeviceDateIsTrue
  <2>3. a \in Int /\ a <= Old /\ Older(a, Old) \in Int /\ Older(a, Old) <= a + 1
    BY <1>0, <1>1 DEF Older
  <2>4. Older(a, Old) \in usb'
    BY <1>3 DEF Tick
  <2>5. Dated(Older(a, Old))
    BY <1>0, <2>1, <2>2, <2>3
  <2> QED
    BY <2>4, <2>5
<1>4. CASE ClockSetBack
  <2>1. /\ set.usbLast <= Fresh /\ set'.usbLast = set.usbLast - SetBack
        /\ ~set.auto => set.last <= Fresh /\ set'.last = set.last - SetBack
    BY <1>0, <1>4, CorrectedDates DEF Younger, Current
  <2>2. PICK a \in usb : a < set.usbLast + Interval \/ (~set.auto /\ a <= set.last)
    BY <2>1 DEF DeviceDateIsTrue
  <2>3. a \in Int /\ a < Old
    BY <1>0, <1>1, <2>1, <2>2
  <2>4. Younger(a, Old) = a - SetBack /\ Younger(a, Old) \in usb'
    BY <1>0, <1>4, <2>3 DEF Younger, ClockSetBack
  <2>5. Dated(Younger(a, Old))
    BY <1>0, <2>1, <2>2, <2>3, <2>4
  <2> QED
    BY <2>4, <2>5
<1> SUFFICES ASSUME ~Tick, ~ClockSetBack
             PROVE  \E a \in usb' : Dated(a)
  BY <1>3, <1>4
<1>5. \A a \in usb : a < Old => a \in usb'
  BY <1>0, <1>1, DeviceSteps
<1>6. ~set.auto => set'.last = set.last
  BY LastSteps DEF Record, At, RunKnows
<1>7. CASE Stamp /\ set'.usbLast = 0
  <2>1. PICK a \in usb : Recent(a)
    BY <1>7 DEF Stamp, At, RunCopies
  <2>2. a \in Int /\ a < Old
    BY <1>1, <2>1, RecentIsNotOld
  <2>3. Dated(a)
    BY <1>0, <1>6, <1>7, <2>1, <2>2 DEF Recent
  <2> QED
    BY <1>5, <2>2, <2>3
<1>8. CASE set'.usbLast = set.usbLast
  <2>1. PICK a \in usb : a < set.usbLast + Interval \/ (~set.auto /\ a <= set.last)
    BY <1>8 DEF DeviceDateIsTrue
  <2>2. a \in Int /\ a < Old
    BY <1>1, <1>8, <2>1, RecentIsNotOld
  <2>3. Dated(a)
    BY <1>0, <1>6, <1>8, <2>1
  <2> QED
    BY <1>5, <2>2, <2>3
<1> QED
  BY <1>7, <1>8, UsbLastSteps

\* Before the first backup nothing is fresh.
LEMMA ProtectInit == Init => ProtectInv
<1> SUFFICES ASSUME Init
             PROVE  ProtectInv
  OBVIOUS
<1>1. set.last = Stale /\ set.usbLast = Stale /\ job.pc = "idle" /\ Stale = Fresh + 1 /\ Fresh \in Nat
  BY Bounds DEF Init, Idle
<1> QED
  BY <1>1, TypeInit DEF ProtectInv, DateIsTrue, RunKnows, RunCopies, DeviceDateIsTrue

\* Whatever fails, is unplugged, swapped or retried: when the protection status
\* says "Protected" and neither a new device nor a paused schedule is the reason,
\* a fresh backup is in the directory, and one on the registered device that was
\* not yet due when it was copied there.  The computer's clock may be corrected,
\* but by less than the time between two backups.
THEOREM ProtectedMeansProtected == ClockNearlyRight /\ Spec => []ProtectedIsTrue
<1>1. ProtectInv => ProtectedIsTrue
  <2> SUFFICES ASSUME ProtectInv, Protected, ~strayed
               PROVE  (\E a \in local : a <= Fresh) /\ (\E a \in usb : a < Fresh + Interval)
    BY DEF ProtectedIsTrue
  <2>0. /\ set.last \in Int /\ set.usbLast \in Int /\ Interval \in Nat /\ Interval > 0 /\ Fresh \in Nat
        /\ set.last <= Fresh /\ set.usbLast <= Fresh /\ local # {}
    BY DatesAreInts, Bounds DEF ProtectInv, Protected
  <2>1. PICK a \in local : a <= set.last
    BY <2>0 DEF ProtectInv, DateIsTrue
  <2>2. PICK b \in usb : b < set.usbLast + Interval \/ (~set.auto /\ b <= set.last)
    BY <2>0 DEF ProtectInv, DeviceDateIsTrue, Current
  <2>3. a \in Int /\ b \in Int
    BY DatesAreInts DEF ProtectInv
  <2> QED
    BY <2>0, <2>1, <2>2, <2>3
<1>2. CASE ClockNearlyRight
  <2>1. ProtectInv /\ [Next]_vars => ProtectInv'
    BY <1>2, TypeStep, DateStep, KnowsStep, CopiesStep, DeviceStep DEF ProtectInv
  <2> QED
    BY <1>1, <2>1, ProtectInit, PTL DEF Spec
<1>3. CASE ~ClockNearlyRight
  BY <1>3
<1> QED
  BY <1>2, <1>3

-----------------------------------------------------------------------------
(* What the USB status promises. *)

\* After a catch-up only backups made since are unsent, step by step.
LEMMA MissingStep ==
  ASSUME MissingInv, [Next]_vars
  PROVE  MissingInv'
<1>0. /\ set.usbLast \in Int /\ set.usbLast <= Stale /\ Stale = Fresh + 1 /\ Fresh \in Nat
      /\ Stale <= Old /\ Old \in Nat /\ SetBack \in Nat /\ setBacks \in 0..MaxSetBacks
      /\ MaxSetBacks \in Nat /\ job \in Jobs(Floor) /\ cut \in BOOLEAN
      /\ \A a \in unsent : a \in local /\ a \in Int /\ a <= Old
      /\ setBacks = 0 => 0 <= set.usbLast
  BY DatesAreInts, FloorFacts, Bounds, TimesOK DEF MissingInv, TypeInv, RestInv, JobInv, FilesInv
<1>00. /\ TypeInv /\ TypeInv'
       /\ ~cut /\ job.pc = "stamp" => unsent = {}
       /\ ~cut /\ set.usbLast <= Fresh /\ setBacks = 0 => \A a \in unsent : a <= set.usbLast
  BY TypeStep DEF MissingInv
<1>1. CASE Tick
  <2>1. /\ cut' = cut /\ job' = job /\ setBacks' = setBacks /\ job.pc = "idle"
        /\ set'.usbLast = Older(set.usbLast, Stale) /\ unsent' = {Older(a, Old) : a \in unsent}
    BY <1>00, <1>1, TickDates DEF Tick
  <2>2. ASSUME ~cut, set'.usbLast <= Fresh, setBacks = 0, NEW a \in unsent
        PROVE  Older(a, Old) <= set'.usbLast
    BY <1>0, <1>00, <2>1, <2>2 DEF Older
  <2> QED
    BY <1>00, <2>1, <2>2 DEF MissingInv
<1>2. CASE ClockSetBack
  <2>1. job'.pc = "idle" /\ setBacks' # 0
    BY <1>0, <1>00, <1>2, CorrectedDates DEF ClockSetBack
  <2> QED
    BY <1>00, <2>1 DEF MissingInv
<1>3. CASE Stamp
  <2>1. job.pc = "stamp" /\ job'.pc \in {"idle", "prune"} /\ cut' = cut /\ unsent' = unsent
    BY <1>0, <1>3 DEF Stamp, At, AfterUsb, Goto, Leave, Idle, Jobs
  <2> QED
    BY <1>00, <2>1 DEF MissingInv
<1> SUFFICES ASSUME set'.usbLast = set.usbLast, ~Tick, ~ClockSetBack, ~Stamp, setBacks' = setBacks
             PROVE  MissingInv'
  BY <1>0, <1>00, <1>1, <1>2, <1>3, UsbLastSteps, FloorStep
<1>4. CASE CatchUp
  <2>1. cut' \/ unsent' = {}
    BY <1>4 DEF CatchUp
  <2> QED
    BY <1>00, <2>1 DEF MissingInv
<1>5. CASE Backup
  <2>1. job'.pc = "record" /\ unsent' = unsent \cup {0} /\ cut' = cut
    BY <1>0, <1>5 DEF Backup, Jobs
  <2> QED
    BY <1>0, <1>00, <1>5, <2>1 DEF MissingInv
<1>6. ASSUME cut' \/ (cut' = cut /\ unsent' \subseteq unsent), job'.pc # "stamp" \/ job'.pc = job.pc
      PROVE  MissingInv'
  BY <1>00, <1>6 DEF MissingInv
<1>7. CASE Finalize
  <2>1. job'.pc # "stamp" /\ cut' = cut /\ unsent' \subseteq unsent
    BY <1>0, <1>7 DEF Finalize, UsbFails, AfterUsb, Goto, Leave, Idle, Jobs
  <2> QED
    BY <1>6, <2>1
<1>8. CASE ConfigureUsb
  BY <1>0, <1>6, <1>8 DEF ConfigureUsb, Jobs
<1>9. CASE Copy \/ Record \/ Look \/ Lock
  <2>1. cut' = cut /\ unsent' = unsent
    BY <1>9 DEF Copy, UsbFails, Record, Look, Lock
  <2>2. job'.pc # "stamp"
    <3>1. CASE Copy
      BY <1>0, <3>1 DEF Copy, UsbFails, AfterUsb, Goto, Leave, Idle, Jobs
    <3>2. CASE Record
      BY <1>0, <3>2 DEF Record, Jobs
    <3>3. CASE Look
      BY <3>3 DEF Look, Idle
    <3>4. CASE Lock
      <4>1. \/ job' = Idle \/ job' = [job EXCEPT !.pc = "backup", !.usb = set.usb]
            \/ \E a \in local : job' = [job EXCEPT !.pc = "copy", !.file = a]
        BY <3>4 DEF Lock
      <4>2. Idle.pc = "idle"
        BY DEF Idle
      <4>3. ASSUME NEW a, job' = [job EXCEPT !.pc = "copy", !.file = a]
            PROVE  job'.pc = "copy"
        BY <1>0, <4>3 DEF Jobs
      <4>4. CASE job' = [job EXCEPT !.pc = "backup", !.usb = set.usb]
        BY <1>0, <4>4 DEF Jobs
      <4> QED
        BY <4>1, <4>2, <4>3, <4>4
    <3> QED
      BY <1>9, <3>1, <3>2, <3>3, <3>4
  <2> QED
    BY <1>6, <2>1, <2>2
<1>10. CASE Prune \/ BackupFails \/ Restart
  <2>1. job' = Idle /\ cut' = cut /\ unsent' \subseteq unsent
    BY <1>10 DEF Prune, BackupFails, Restart, Leave
  <2> QED
    BY <1>6, <2>1 DEF Idle
<1>11. CASE UNCHANGED <<job, cut>> /\ unsent' \subseteq unsent
  BY <1>6, <1>11
<1> QED
  BY <1>4, <1>5, <1>7, <1>8, <1>9, <1>10, <1>11 DEF Next, Run, User, Plug, DisableUsb,
     SwitchAuto, ChangeDirectory, OtherTakes, OtherLeaves, vars

\* The USB status tells what is missing on the device: after a success, every
\* backup older than its date has reached the device, unless a catch-up was cut
\* short or the computer's clock was set back.
THEOREM StatusTellsMissing == Spec => []NothingMissing
<1>1. Init => MissingInv
  BY TypeInit, Bounds DEF Init, Idle, MissingInv
<1>2. MissingInv /\ [Next]_vars => MissingInv'
  BY MissingStep
<1>3. MissingInv => NothingMissing
  BY DEF MissingInv, NothingMissing
<1> QED
  BY <1>1, <1>2, <1>3, PTL DEF Spec
=============================================================================
