------------------------------- MODULE Startup -------------------------------
(***************************************************************************)
(* Waiting for a machine to start: up reads /var/log/hermit.log over ssh   *)
(* until it says that the container's sshd listens, or something fatal.    *)
(* Every boot of the machine appends to the log; the log goes only with    *)
(* the instance.  One session suffices: waiting changes nothing.           *)
(***************************************************************************)
EXTENDS BootScript, FiniteSets

CONSTANTS
  MaxRetries,  \* retries_on_timeout of the ssh that reads the log
  MaxBoots,    \* bound on the boots of one instance
  MaxSsds,     \* the most local SSDs of a machine
  MaxBroken    \* bound on the commands of one boot that fail without reason

ASSUME BoundsAssumption ==
  MaxRetries \in Nat /\ MaxBoots \in Nat \ {0} /\ MaxSsds \in Nat /\ MaxBroken \in Nat

VARIABLES
  vm,      \* the status of the instance, or NONE
  stage,   \* how far this boot has come
  ran,     \* how many commands of its bootcmd are over
  broken,  \* how many of them failed without reason
  fs,      \* the file systems of this boot (BootScript.tla)
  log,     \* what lines the log has
  boots,   \* boots of this instance
  image,   \* whether the container image has an sshd
  ssds,    \* local_ssd_count of the config
  pc,      \* in up: "look", "read", "pause" between readings; or "idle"
  tries,   \* attempts of the current reading that timed out
  late,    \* whether the time up waits (an hour) is over
  result   \* how the last up ended

boot == <<stage, ran, broken, fs>>
machine == <<vm, boot, log, boots, image, ssds>>
up == <<pc, tries, late, result>>
vars == <<machine, up>>

Stages == {"off", "booting", "bootcmd", "set up", "listening", "looping"}
Lines == {"started", "checking", "superblock could not be read", "checked",
          "downloaded", "no sshd", "Server listening"}
Fatal == {"superblock could not be read", "no sshd"}

\* A machine that is off, or has not come to its bootcmd.
NotBooted(at) == stage' = at /\ ran' = 0 /\ broken' = 0 /\ fs' = Unmounted(TRUE)

Init ==
  /\ vm = "NONE" /\ stage = "off" /\ ran = 0 /\ broken = 0 /\ fs = Unmounted(TRUE)
  /\ log = {} /\ boots = 0 /\ image \in {"sshd", "bare"} /\ ssds \in 0 .. MaxSsds
  /\ pc = "idle" /\ tries = 0 /\ late = FALSE /\ result = "none"

----------------------------------------------------------------------------
(* The machine.  The commands of bootcmd go on after one that failed.      *)

Logs(lines) == log' = log \union lines

PowersOn == vm' = "RUNNING" /\ boots' = boots + 1 /\ NotBooted("booting")

\* A stage of the boot is over, and these lines are in the log.
Reaches(from, to, lines) ==
  /\ vm = "RUNNING" /\ stage = from
  /\ stage' = to
  /\ Logs(lines)
  /\ UNCHANGED <<vm, ran, broken, boots, image, ssds, up>>

\* Mutant: the log begins anew at every boot.
StartBootAnew ==
  /\ vm = "RUNNING" /\ stage = "booting"
  /\ stage' = "bootcmd"
  /\ log' = {"started"}
  /\ \E formatted \in BOOLEAN : fs' = Unmounted(formatted)
  /\ UNCHANGED <<vm, ran, broken, boots, image, ssds, up>>

\* The disk of the home has a file system or has not.
StartBoot ==
  /\ Reaches("booting", "bootcmd", {"started"})
  /\ \E formatted \in BOOLEAN : fs' = Unmounted(formatted)

Booted == ran = Len(Bootcmd(ssds))

\* What the echos around fsck and fsck itself write.
Writes(c) ==
  IF c # <<"fsck", "pd">> THEN {}
  ELSE {"checking", "checked"} \union
         IF "pd" \in fs.ext4 THEN {} ELSE {"superblock could not be read"}

\* One command after the other.  That one breaks is news only if it could succeed.
RunCommand(c, breaks) ==
  /\ vm = "RUNNING" /\ stage = "bootcmd" /\ ~Booted
  /\ c = Bootcmd(ssds)[ran + 1]
  /\ breaks => broken < MaxBroken /\ Can(fs, c)
  /\ ran' = ran + 1 /\ broken' = broken + (IF breaks THEN 1 ELSE 0)
  /\ fs' = Step(fs, c, breaks)
  /\ Logs(Writes(c))
  /\ UNCHANGED <<vm, stage, boots, image, ssds, up>>

RunBootcmd == \E c \in Commands(ssds), breaks \in BOOLEAN : RunCommand(c, breaks)

\* hermit-setup.sh starts the service, which pulls the image if it has to.  It
\* runs under set -e: where a command of it fails, nothing more happens.
StartSshd ==
  /\ Booted
  /\ \E lines \in SUBSET {"downloaded"} : Reaches("bootcmd", "set up", lines)
  /\ UNCHANGED fs

\* Restart=always: without an sshd in the image, docker fails again and again.
RunSshd ==
  /\ IF image = "sshd" THEN Reaches("set up", "listening", {"Server listening"})
                       ELSE Reaches("set up", "looping", {"no sshd"})
  /\ UNCHANGED fs

Advance == StartBoot \/ RunBootcmd \/ StartSshd \/ RunSshd

\* The idle suspend, and what the user may do on the machine.
Suspend ==
  /\ vm = "RUNNING"
  /\ vm' = "SUSPENDED"
  /\ UNCHANGED <<boot, log, boots, image, ssds, up>>

PowerOff ==
  /\ vm = "RUNNING" /\ boots < MaxBoots
  /\ vm' = "TERMINATED" /\ NotBooted("off")
  /\ UNCHANGED <<log, boots, image, ssds, up>>

Reboot ==
  /\ vm = "RUNNING" /\ boots < MaxBoots
  /\ PowersOn
  /\ UNCHANGED <<log, image, ssds, up>>

\* With the instance goes its log, and the config may name another image.
Down ==
  /\ vm # "NONE" /\ pc = "idle"
  /\ vm' = "NONE" /\ NotBooted("off") /\ log' = {} /\ boots' = 0
  /\ image' \in {"sshd", "bare"} /\ ssds' \in 0 .. MaxSsds
  /\ UNCHANGED up

----------------------------------------------------------------------------
(* hermit up.                                                              *)

BeginUp ==
  /\ pc = "idle"
  /\ pc' = "look" /\ result' = "none" /\ late' = FALSE
  /\ UNCHANGED <<machine, tries>>

\* The status of the instance decides how it is started.
Look(status) ==
  /\ pc = "look" /\ vm = status
  /\ pc' = "read"
  /\ UNCHANGED <<log, image, ssds, tries, late, result>>

CreateInstance == Look("NONE") /\ PowersOn
StartInstance == Look("TERMINATED") /\ PowersOn
ResumeInstance == Look("SUSPENDED") /\ vm' = "RUNNING" /\ UNCHANGED <<boot, boots>>
AlreadyRunning == Look("RUNNING") /\ UNCHANGED <<vm, boot, boots>>

Goes(to) == pc' = to /\ tries' = 0 /\ UNCHANGED <<machine, late>>
Ends(how) == Goes("idle") /\ result' = how

\* Mutant: listening comes first.
StatusEager ==
  IF "Server listening" \in log THEN "ready"
  ELSE IF Fatal \intersect log # {} THEN "failed" ELSE "wait"

\* get_status_from_log: what is fatal comes first.  The lines of the progress
\* it reports make no difference to the wait.
Status ==
  IF Fatal \intersect log # {} THEN "failed"
  ELSE IF "Server listening" \in log THEN "ready" ELSE "wait"

\* The ssh returns, with the log.
ReadLog ==
  /\ pc = "read" /\ vm = "RUNNING"
  /\ IF Status = "wait" THEN Goes("pause") /\ UNCHANGED result ELSE Ends(Status)

\* The host cannot be reached, or it has no log yet: ssh fails, and so be it.
ReadNothing ==
  /\ pc = "read"
  /\ Goes("pause") /\ UNCHANGED result

\* Mutant: a reading that timed out is tried again without end.
ReadTimesOutAgain ==
  /\ pc = "read"
  /\ tries' = IF tries = MaxRetries THEN 0 ELSE tries + 1
  /\ UNCHANGED <<machine, pc, late, result>>

\* Ten seconds without an answer: another attempt, or TimeoutExpired.
ReadTimesOut ==
  /\ pc = "read"
  /\ IF tries >= MaxRetries THEN Ends("failed")
     ELSE tries' = tries + 1 /\ UNCHANGED <<machine, pc, late, result>>

\* The deadline is looked at between two readings only.
Pause ==
  /\ pc = "pause"
  /\ IF late THEN Ends("failed") ELSE Goes("read") /\ UNCHANGED result

HourOver ==
  /\ pc # "idle" /\ ~late
  /\ late' = TRUE
  /\ UNCHANGED <<machine, pc, tries, result>>

----------------------------------------------------------------------------
Starts == CreateInstance \/ StartInstance \/ ResumeInstance \/ AlreadyRunning
Up == Starts \/ ReadLog \/ ReadNothing \/ ReadTimesOut \/ Pause

Next ==
  \/ BeginUp \/ Up \/ HourOver
  \/ Advance \/ Suspend \/ PowerOff \/ Reboot \/ Down

Spec == Init /\ [][Next]_vars

\* up goes on, and so does time.  Nothing makes the machine boot to the end,
\* or keeps its user from restarting it.
FairSpec == Spec /\ WF_vars(Up) /\ WF_vars(HourOver)

----------------------------------------------------------------------------
(* What is to hold.                                                        *)

TypeOK ==
  /\ vm \in {"NONE", "RUNNING", "SUSPENDED", "TERMINATED"}
  /\ stage \in Stages /\ log \subseteq Lines
  /\ boots \in 0 .. MaxBoots /\ image \in {"sshd", "bare"} /\ ssds \in 0 .. MaxSsds
  /\ ran \in 0 .. Len(Bootcmd(ssds)) /\ broken \in 0 .. MaxBroken
  /\ fs.failed \subseteq Commands(ssds) /\ fs.array \in {0, ssds}
  /\ pc \in {"idle", "look", "read", "pause"}
  /\ tries \in 0 .. MaxRetries /\ late \in BOOLEAN
  /\ result \in {"none", "ready", "failed"}

\* The wait is over, because sshd is said to be ready.
FoundReady == pc = "read" /\ pc' = "idle" /\ result' = "ready"

\* On an instance that has booted once, ready means that its sshd listens, and
\* that its disk has the file system of the home, not a container with an empty
\* directory in its place.
FirstBootReady ==
  [][FoundReady /\ boots = 1 => stage = "listening" /\ "pd" \in fs.ext4]_vars

\* get_status_from_log: "return a tuple of (ssh_ready:bool, ...)".  Ready means
\* that sshd listens, at any boot.
ReadyMeansListening == [][FoundReady => stage = "listening"]_vars

\* A fatal line is final: up fails on this instance from then on, whatever a
\* later boot achieves, until down deletes it.
FatalUntilDown ==
  [][Fatal \intersect log # {} =>
       ~FoundReady /\ (Fatal \intersect log' # {} \/ vm' = "NONE")]_vars

\* The commands of this boot are over.
Settled == stage \notin {"off", "booting"} /\ Booted

\* The home is mounted and ready for the key of the user whatever happened to
\* the SSDs before.
HomeMounted ==
  Settled /\ fs.failed \intersect ToSet(Home) = {} =>
    fs.mount["home"] = "pd" /\ <<".ssh", "pd">> \in fs.dirs

\* "if we have a single ssd drive format it and mount it", "if we have more
\* than one turn them into a single volume": /tmp is on all the SSDs.
TmpOnSsds ==
  Settled /\ ssds > 0 /\ fs.failed \intersect ToSet(Tmp(ssds)) = {} =>
    IF ssds = 1 THEN fs.mount["/tmp"] = "ssd"
                ELSE fs.mount["/tmp"] = "md0" /\ fs.array = ssds

\* "if we have no local ssd drives, use /var/tmp for /tmp".
TmpOnVarTmp ==
  Settled /\ ssds = 0 /\ <<"bind", "/var/tmp">> \notin fs.failed =>
    fs.mount["/tmp"] = "/var/tmp"

\* Every up ends its wait, whether the machine boots, fails, restarts, goes to
\* sleep or never answers.
WaitEnds == pc # "idle" ~> pc = "idle"
=============================================================================
