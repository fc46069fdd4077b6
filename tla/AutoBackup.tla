------------------------------ MODULE AutoBackup ------------------------------
(***************************************************************************)
(* The automatic backup: the scheduler that wakes every 15 minutes, the    *)
(* local copy it makes when one is due, its independent copy on a          *)
(* registered USB device with retries, the pruning of both places, and the *)
(* protection status shown to the user.                                    *)
(*                                                                         *)
(* Time is counted in wakes of the scheduler and kept relative: everything *)
(* that carries a date is held by its age, which Tick lets grow.  Backups  *)
(* are at least Interval apart, so that a backup is its age; all that are  *)
(* past retention have the age Old.                                        *)
(***************************************************************************)
EXTENDS Integers, FiniteSets

CONSTANTS
  Interval,    \* AUTO_BACKUP_INTERVAL_HOURS, in wakes
  Fresh,       \* greatest age that compute_protection_status calls fresh
  Retention,   \* AUTO_BACKUP_RETENTION_DAYS, in wakes
  Delay,       \* Delay[s]: wakes until the next try of the USB copy at stage s
  SetBack,     \* wakes by which the computer's clock is set back
  MaxSetBacks, \* bound: times it is
  MaxMishaps   \* bound: failing steps, crashes and jobs that take the lock

ASSUME TimesOK ==
  /\ Interval \in Nat \ {0} /\ Fresh \in Nat /\ Retention \in Nat /\ SetBack \in Nat
  /\ Interval <= Fresh /\ Fresh + Interval <= Retention + 1
  /\ Delay \in [1..3 -> 1..Interval]
  /\ MaxSetBacks \in Nat /\ MaxMishaps \in Nat

VARIABLES
  local,     \* automatic backups in the backup directory
  usb,       \* automatic backups on the registered device
  plugged,   \* the device at the USB path: "registered", "other" or "none"
  set,       \* the backup settings in app_settings
  lock,      \* BACKUP_IN_PROGRESS: "free", "auto", "manual" or "restore"
  job,       \* the run of run_auto_backup_if_due
  wake,      \* a tick of the scheduler's interval is waiting
  strayed,   \* history: the device was replaced, or the schedule paused, and no new
             \* backup has reached the device since
  unsent,    \* history: local backups that no registered device ever received
  cut,       \* history: the device was replaced, or a catch-up failed, and none has
             \* run to its end since
  setBacks, mishaps

vars == <<local, usb, plugged, set, lock, job, wake, strayed, unsent, cut, setBacks, mishaps>>

Old   == Retention + 1
Ages  == (-SetBack * MaxSetBacks) .. Old
Stale == Fresh + 1      \* the age of a date that is not fresh, or was never set
None  == Interval + 1   \* no retry is planned

\* A date's age one wake later, and the clock's error applied to it.
Older(a, most)   == IF a < most THEN a + 1 ELSE most
Younger(a, most) == IF a = most THEN a ELSE a - SetBack

\* The file that a repeated USB copy takes: the greatest name, which holds the date
\* the file was made on by the local clock, as its age here does.
Newest(a) == a \in local /\ \A b \in local : a <= b

Idle == [pc |-> "idle", auto |-> FALSE, retry |-> FALSE, usb |-> FALSE, file |-> 0, lost |-> FALSE]

At(pc)   == job.pc = pc
Goto(pc) == job' = [job EXCEPT !.pc = pc]

\* Returning drops the guard of the lock.
Leave == job' = Idle /\ lock' = "free"

Mishap == mishaps < MaxMishaps /\ mishaps' = mishaps + 1

Init ==
  /\ local = {} /\ usb = {} /\ plugged = "none"
  /\ set = [auto |-> FALSE, usb |-> FALSE, device |-> FALSE, last |-> Stale, err |-> FALSE,
            usbLast |-> Stale, usbErr |-> FALSE, stage |-> 0, retry |-> None]
  /\ lock = "free" /\ job = Idle /\ wake = TRUE /\ strayed = FALSE /\ unsent = {} /\ cut = FALSE
  /\ setBacks = 0 /\ mishaps = 0

-----------------------------------------------------------------------------
(* What is due. *)

\* is_auto_backup_due_at: a date that was never set counts as overdue.
AutoDue(s) == s.auto /\ s.last >= Interval

\* is_usb_retry_due.
RetryDue(s) == s.usb /\ s.retry <= 0

\* record_usb_sync_failure_with_conn: 15 minutes, 1 hour, 3 hours, and again.
AfterUsbFailure(s) ==
  LET stage == IF s.stage >= 3 THEN 1 ELSE s.stage + 1
  IN [s EXCEPT !.stage = stage, !.usbErr = TRUE, !.retry = Delay[stage]]

AfterUsbSuccess(s) == [s EXCEPT !.usbLast = 0, !.usbErr = FALSE, !.stage = 0, !.retry = None]

\* prune_auto_backups_by_age: what is past retention goes, but never the last file.
Kept(files) == IF files = {Old} THEN files ELSE files \ {Old}

-----------------------------------------------------------------------------
(* run_auto_backup_if_due, step by step. *)

\* What is due is read before the lock is taken; a running restore makes the
\* connection fail.
Look ==
  /\ wake /\ At("idle")
  /\ wake' = FALSE
  /\ job' = IF lock # "restore" /\ (AutoDue(set) \/ RetryDue(set))
            THEN [Idle EXCEPT !.pc = "lock", !.auto = AutoDue(set), !.retry = RetryDue(set)]
            ELSE Idle
  /\ UNCHANGED <<local, usb, plugged, set, lock, strayed, unsent, cut, setBacks, mishaps>>

\* Another job holds the lock: this wake is skipped.  Otherwise the settings are
\* read again and the backup, or the repeated USB copy of the newest file, begins.
Lock ==
  /\ At("lock")
  /\ IF lock # "free" THEN job' = Idle /\ UNCHANGED lock
     ELSE \/ /\ job.auto /\ set.auto
             /\ lock' = "auto" /\ job' = [job EXCEPT !.pc = "backup", !.usb = set.usb]
          \/ /\ ~job.auto /\ set.usb
             /\ \E a \in local : Newest(a) /\ job' = [job EXCEPT !.pc = "copy", !.file = a]
             /\ lock' = "auto"
          \/ /\ IF job.auto THEN ~set.auto ELSE ~set.usb \/ local = {}
             /\ job' = Idle /\ UNCHANGED lock
  /\ UNCHANGED <<local, usb, plugged, set, wake, strayed, unsent, cut, setBacks, mishaps>>

\* run_backup: a temporary file, verified, then renamed.
Backup ==
  /\ At("backup")
  /\ local' = local \cup {0} /\ unsent' = unsent \cup {0}
  /\ job' = [job EXCEPT !.pc = "record", !.file = 0]
  /\ UNCHANGED <<usb, plugged, set, lock, wake, strayed, cut, setBacks, mishaps>>

\* Mutant: the lock survives a backup that failed.
BackupFailsLocked ==
  /\ At("backup") /\ Mishap
  /\ set' = [set EXCEPT !.err = TRUE] /\ job' = Idle
  /\ UNCHANGED <<local, usb, plugged, lock, wake, strayed, unsent, cut, setBacks>>

BackupFails ==
  /\ At("backup") /\ Mishap
  /\ set' = [set EXCEPT !.err = TRUE] /\ Leave
  /\ UNCHANGED <<local, usb, plugged, wake, strayed, unsent, cut, setBacks>>

Record ==
  /\ At("record")
  /\ set' = [set EXCEPT !.last = 0, !.err = FALSE]
  /\ job' = [job EXCEPT !.pc = IF job.usb THEN "copy" ELSE "prune"]
  /\ UNCHANGED <<local, usb, plugged, lock, wake, strayed, unsent, cut, setBacks, mishaps>>

AfterUsb == IF job.auto THEN Goto("prune") /\ UNCHANGED lock ELSE Leave

UsbFails ==
  /\ set' = AfterUsbFailure(set)
  /\ AfterUsb
  /\ UNCHANGED <<local, usb, plugged, wake, strayed, unsent, cut, setBacks>>

\* Mutant: whatever device is plugged in receives the copy.
CopyAnywhere ==
  /\ At("copy")
  /\ \/ /\ set.usb /\ plugged # "none"
        /\ Goto(IF plugged = "registered" THEN "finalize" ELSE "stamp")
        /\ UNCHANGED <<local, usb, plugged, set, lock, wake, strayed, unsent, cut, setBacks, mishaps>>
     \/ (~set.usb \/ plugged = "none") /\ UsbFails /\ UNCHANGED mishaps
     \/ Mishap /\ UsbFails

\* The settings are read once more; the volume's serial number is compared and
\* the copy begins.
Copy ==
  /\ At("copy")
  /\ \/ /\ set.usb /\ plugged = "registered" /\ Goto("finalize")
        /\ UNCHANGED <<local, usb, plugged, set, lock, wake, strayed, unsent, cut, setBacks, mishaps>>
     \/ (~set.usb \/ plugged # "registered") /\ UsbFails /\ UNCHANGED mishaps
     \/ Mishap /\ UsbFails

\* The copy is verified and renamed, which fails if the device it went to is gone.
Finalize ==
  /\ At("finalize")
  /\ \/ /\ plugged = "registered" /\ ~job.lost
        /\ usb' = usb \cup {job.file} /\ Goto("catchUp")
        /\ strayed' = (strayed /\ ~job.auto) /\ unsent' = unsent \ {job.file}
        /\ UNCHANGED <<local, plugged, set, lock, wake, cut, setBacks, mishaps>>
     \/ (plugged # "registered" \/ job.lost) /\ UsbFails /\ UNCHANGED mishaps
     \/ Mishap /\ UsbFails

\* Mutant: only the new backup goes to the device.
CatchUpNothing ==
  /\ At("catchUp")
  /\ usb' = IF plugged = "registered" THEN Kept(usb) ELSE usb
  /\ cut' = (plugged # "registered")
  /\ Goto("stamp")
  /\ UNCHANGED <<local, plugged, set, lock, wake, strayed, unsent, setBacks, mishaps>>

\* catch_up_missing_usb_backups and the pruning of the device; the errors of both
\* are ignored.
CatchUp ==
  /\ At("catchUp")
  /\ \/ /\ plugged = "registered"
        /\ usb' = Kept(usb \cup local) /\ unsent' = {} /\ cut' = FALSE
        /\ UNCHANGED mishaps
     \/ plugged # "registered" /\ cut' = TRUE /\ UNCHANGED <<usb, unsent, mishaps>>
     \/ /\ plugged = "registered" /\ cut' = TRUE /\ Mishap
        /\ \E some \in SUBSET local : /\ usb' \in {usb \cup some, Kept(usb \cup some)}
                                      /\ unsent' = unsent \ some
  /\ Goto("stamp")
  /\ UNCHANGED <<local, plugged, set, lock, wake, strayed, setBacks>>

\* The success is dated by the run, whatever the age of the file.
Stamp ==
  /\ At("stamp")
  /\ set' = AfterUsbSuccess(set)
  /\ AfterUsb
  /\ UNCHANGED <<local, usb, plugged, wake, strayed, unsent, cut, setBacks, mishaps>>

Prune ==
  /\ At("prune")
  /\ local' = Kept(local) /\ unsent' = unsent \cap local'
  /\ Leave
  /\ UNCHANGED <<usb, plugged, set, wake, strayed, cut, setBacks, mishaps>>

Run == \/ Look \/ Lock \/ Backup \/ Record \/ Copy \/ Finalize \/ CatchUp \/ Stamp \/ Prune

-----------------------------------------------------------------------------
(* Time, the user, other jobs. *)

Later(s) ==
  [s EXCEPT !.last = Older(@, Stale), !.usbLast = Older(@, Stale),
            !.retry = IF @ \in {None, 0} THEN @ ELSE @ - 1]

\* 15 minutes pass and the scheduler's interval ticks; a run takes less.
Tick ==
  /\ ~wake /\ At("idle")
  /\ wake' = TRUE
  /\ local' = {Older(a, Old) : a \in local} /\ usb' = {Older(a, Old) : a \in usb}
  /\ unsent' = {Older(a, Old) : a \in unsent}
  /\ set' = Later(set)
  /\ UNCHANGED <<plugged, lock, job, strayed, cut, setBacks, mishaps>>

\* The computer's clock is corrected while no backup runs.  Dates before it were
\* written under the old time.
ClockSetBack ==
  /\ setBacks < MaxSetBacks /\ At("idle")
  /\ setBacks' = setBacks + 1
  /\ local' = {Younger(a, Old) : a \in local} /\ usb' = {Younger(a, Old) : a \in usb}
  /\ unsent' = {Younger(a, Old) : a \in unsent}
  /\ set' = [set EXCEPT !.last = Younger(@, Stale), !.usbLast = Younger(@, Stale),
                        !.retry = IF @ = None THEN None
                                  ELSE IF @ + SetBack > Interval THEN Interval ELSE @ + SetBack]
  /\ UNCHANGED <<plugged, lock, job, wake, strayed, cut, mishaps>>

Plug ==
  /\ \E p \in {"registered", "other", "none"} \ {plugged} :
       /\ p = "registered" => set.device
       /\ plugged' = p
  /\ UNCHANGED <<local, usb, set, lock, job, wake, strayed, unsent, cut, setBacks, mishaps>>

\* configure_usb_backup_destination: the device plugged in is validated and
\* registered, and the schedule of retries is cleared.  A new one holds no backup.
ConfigureUsb ==
  /\ plugged # "none"
  /\ set' = [set EXCEPT !.usb = TRUE, !.device = TRUE, !.stage = 0, !.retry = None]
  /\ plugged' = "registered"
  /\ usb' = IF plugged = "other" THEN {} ELSE usb
  /\ strayed' = (strayed \/ plugged = "other") /\ cut' = (cut \/ plugged = "other")
  /\ unsent' = IF plugged = "other" THEN local ELSE unsent
  /\ job' = IF At("finalize") /\ plugged = "other" THEN [job EXCEPT !.lost = TRUE] ELSE job
  /\ UNCHANGED <<local, lock, wake, setBacks, mishaps>>

DisableUsb ==
  /\ set.usb
  /\ set' = [set EXCEPT !.usb = FALSE, !.stage = 0, !.retry = None]
  /\ UNCHANGED <<local, usb, plugged, lock, job, wake, strayed, unsent, cut, setBacks, mishaps>>

SwitchAuto ==
  /\ set' = [set EXCEPT !.auto = ~@]
  /\ strayed' = TRUE
  /\ UNCHANGED <<local, usb, plugged, lock, job, wake, unsent, cut, setBacks, mishaps>>

\* update_backup_settings names a new directory, which holds no backup yet.  A
\* run in progress keeps the directory it has read.
ChangeDirectory ==
  /\ At("idle") \/ At("lock")
  /\ local # {} /\ local' = {} /\ unsent' = {}
  /\ UNCHANGED <<usb, plugged, set, lock, job, wake, strayed, cut, setBacks, mishaps>>

\* backup_database_now, or a restore or move, holds the lock for a while.
OtherTakes ==
  /\ lock = "free" /\ Mishap
  /\ lock' \in {"manual", "restore"}
  /\ UNCHANGED <<local, usb, plugged, set, job, wake, strayed, unsent, cut, setBacks>>

OtherLeaves ==
  /\ lock \in {"manual", "restore"}
  /\ lock' = "free"
  /\ UNCHANGED <<local, usb, plugged, set, job, wake, strayed, unsent, cut, setBacks, mishaps>>

\* The program stops and is started again; its first check comes at once.
Restart ==
  /\ Mishap
  /\ job' = Idle /\ lock' = "free" /\ wake' = TRUE
  /\ UNCHANGED <<local, usb, plugged, set, strayed, unsent, cut, setBacks>>

User == Plug \/ ConfigureUsb \/ DisableUsb \/ SwitchAuto \/ ChangeDirectory

Next == Run \/ BackupFails \/ Tick \/ ClockSetBack \/ User \/ OtherTakes \/ OtherLeaves \/ Restart

\* Time passes, the scheduler's task runs, and no job holds the lock for ever.
Spec == /\ Init /\ [][Next]_vars
        /\ WF_vars(Tick) /\ WF_vars(Run) /\ WF_vars(OtherLeaves)

-----------------------------------------------------------------------------
Times == (-SetBack * MaxSetBacks) .. Stale

\* Every variable has its type, and the lock is the scheduler's exactly while its
\* run is past the lock.
AutoTypeOK ==
  /\ local \subseteq Ages /\ usb \subseteq Ages /\ unsent \subseteq local
  /\ plugged \in {"registered", "other", "none"}
  /\ set \in [auto : BOOLEAN, usb : BOOLEAN, device : BOOLEAN, last : Times, err : BOOLEAN,
              usbLast : Times, usbErr : BOOLEAN, stage : 0..3, retry : 0..None]
  /\ lock \in {"free", "auto", "manual", "restore"}
  /\ job \in [pc : {"idle", "lock", "backup", "record", "copy", "finalize", "catchUp",
                    "stamp", "prune"},
              auto : BOOLEAN, retry : BOOLEAN, usb : BOOLEAN, file : Ages, lost : BOOLEAN]
  /\ wake \in BOOLEAN /\ strayed \in BOOLEAN /\ cut \in BOOLEAN
  /\ setBacks \in 0..MaxSetBacks /\ mishaps \in 0..MaxMishaps
  /\ lock = "auto" <=> job.pc \notin {"idle", "lock"}

\* compute_protection_status.
Protected ==
  /\ ~set.err /\ set.last <= Fresh /\ local # {}
  /\ set.usb /\ set.device /\ ~set.usbErr /\ set.usbLast <= Fresh
  /\ plugged = "registered"

\* "Protected" is true: whatever failed, was unplugged, swapped or retried before,
\* a fresh backup is in the directory, and on the registered device one that was
\* not yet due for renewal when it was copied there, less than Fresh ago.
ProtectedIsTrue ==
  Protected /\ ~strayed => /\ \E a \in local : a <= Fresh
                           /\ \E a \in usb : a < Fresh + Interval

\* While automatic backups stay switched on, a new one is made again and again:
\* no failure, skipped wake, stop or correction of the clock ends the schedule.
BackupsGoOn == <>[](set.auto) => []<>(set.auto /\ set.last = 0)

\* The USB status tells what is missing: after a success every backup in the
\* directory that is older than its date has reached the device, those included
\* that were made while it was away, unless a catch-up was cut short.
NothingMissing ==
  ~set.usbErr /\ set.usbLast <= Fresh /\ ~cut /\ setBacks = 0 =>
    \A a \in unsent : a <= set.usbLast
=============================================================================
