------------------------------ MODULE Lifecycle ------------------------------
(***************************************************************************)
(* The four commands that change what exists: create, up, down, delete.    *)
(* A session is one run of the hermit executable: it executes one command  *)
(* as a sequence of gcloud calls and file operations, each of them a step  *)
(* here, against the config store (~/.hermit/instances) and the cloud      *)
(* (disks and VMs).  Sessions may interleave, die between any two steps,   *)
(* and leave behind a gcloud child whose request takes effect later.       *)
(*                                                                         *)
(* A session waiting to send a request has the request's name as its pc,   *)
(* so the session record is the request.                                   *)
(***************************************************************************)
EXTENDS Naturals, FiniteSets

CONSTANTS
  Names,      \* names of instances
  Disks,      \* names of persistent disks
  NoName, NoDisk,
  Sessions,   \* runs of the hermit executable that may be going on at once
  PdNames,    \* the <<name, --pd-name>> pairs users pass to create
  Overlap,    \* whether two sessions may be about one name, or one disk
  MaxFaults,  \* bound on the faults of one behaviour
  Linger      \* whether a dead session's gcloud child may still take effect

ASSUME NamesAssumption == NoName \notin Names /\ NoDisk \notin Disks
ASSUME PdNamesAssumption == PdNames \subseteq Names \X Disks
ASSUME FaultsAssumption ==
  MaxFaults \in Nat /\ Overlap \in BOOLEAN /\ Linger \in BOOLEAN

VARIABLES
  config,     \* config[n]: the pd_name in <n>.json, or NoDisk if no such file
  disk,       \* what each persistent disk holds
  vm,         \* vm[n]: the instance of that name, if there is one
  session,    \* where each run of hermit is, and the name and disk it is about
  lingering,  \* requests of dead sessions the cloud may still serve
  faults      \* faults so far

vars == <<config, disk, vm, session, lingering, faults>>

Contents == {"absent", "raw", "ext4", "data"}
Statuses == {"NONE", "STAGING", "RUNNING", "STOPPING", "TERMINATED",
             "SUSPENDING", "SUSPENDED"}
Roles == {"none", "formatter", "machine"}

Requests == {"make disk", "make formatter", "delete formatter", "create vm",
             "start vm", "resume vm", "shut down", "delete vm", "delete disk"}
Waits == {"wait for format", "wait for start", "wait for stop"}
Looks == {"find disk", "find vm", "look up", "look down", "look delete"}
Writes == {"write config", "forget config"}
Steps == {"idle"} \union Requests \union Waits \union Looks \union Writes

NoVm == [status |-> "NONE", role |-> "none", pd |-> NoDisk]
Idle == [pc |-> "idle", name |-> NoName, pd |-> NoDisk]

Vms == [status : Statuses \ {"NONE"}, role : Roles \ {"none"}, pd : Disks]
Commands == [pc : Steps \ {"idle"}, name : Names, pd : Disks]

Init ==
  /\ config = [n \in Names |-> NoDisk]
  /\ disk = [d \in Disks |-> "absent"]
  /\ vm = [n \in Names |-> NoVm]
  /\ session = [s \in Sessions |-> Idle]
  /\ lingering = {}
  /\ faults = 0

----------------------------------------------------------------------------
(* The cloud: what it accepts, and what an accepted request changes.       *)

Detached(d) == \A n \in Names : vm[n].pd # d

Accepts(r) ==
  \/ r.pc = "make disk" /\ disk[r.pd] = "absent"
  \/ /\ r.pc \in {"make formatter", "create vm"}
     /\ vm[r.name] = NoVm /\ disk[r.pd] # "absent" /\ Detached(r.pd)
  \/ r.pc = "start vm" /\ vm[r.name].status = "TERMINATED"
  \/ r.pc = "resume vm" /\ vm[r.name].status = "SUSPENDED"
  \/ r.pc = "shut down" /\ vm[r.name].status = "RUNNING"
  \/ r.pc \in {"delete formatter", "delete vm"} /\ vm[r.name] # NoVm
  \/ r.pc = "delete disk" /\ disk[r.pd] # "absent" /\ Detached(r.pd)

\* A new VM of that role on the request's disk.
Boots(r, role) ==
  vm' = [vm EXCEPT ![r.name] = [status |-> "STAGING", role |-> role, pd |-> r.pd]]

SetStatus(n, status) == vm' = [vm EXCEPT ![n].status = status]

\* gcloud compute disks create (create.py), disks delete (delete.py)
MakesDisk(r) == disk' = [disk EXCEPT ![r.pd] = "raw"] /\ UNCHANGED vm
DeletesDisk(r) == disk' = [disk EXCEPT ![r.pd] = "absent"] /\ UNCHANGED vm

\* Mutants: the disk stays attached; auto-delete=yes.
DeletesVmOnly(r) == SetStatus(r.name, "NONE") /\ UNCHANGED disk

DeletesVmAndDisk(r) ==
  /\ vm' = [vm EXCEPT ![r.name] = NoVm]
  /\ disk' = [disk EXCEPT ![vm[r.name].pd] = "absent"]

\* instances delete: --disk=...,auto-delete=no keeps the disk
DeletesVm(r) == vm' = [vm EXCEPT ![r.name] = NoVm] /\ UNCHANGED disk

Perform(r) ==
  /\ Accepts(r)
  /\ \/ r.pc = "make disk" /\ MakesDisk(r)
     \/ r.pc = "delete disk" /\ DeletesDisk(r)
     \/ r.pc = "make formatter" /\ Boots(r, "formatter") /\ UNCHANGED disk
     \/ r.pc = "create vm" /\ Boots(r, "machine") /\ UNCHANGED disk
     \/ r.pc \in {"start vm", "resume vm"} /\ SetStatus(r.name, "STAGING") /\ UNCHANGED disk
     \/ r.pc = "shut down" /\ SetStatus(r.name, "STOPPING") /\ UNCHANGED disk
     \/ r.pc \in {"delete formatter", "delete vm"} /\ DeletesVm(r)

----------------------------------------------------------------------------
(* Steps of a session.                                                     *)

At(s, pc) == session[s].pc = pc
Status(s) == vm[session[s].name].status

Goto(s, pc) ==
  session' = [session EXCEPT ![s] = IF pc = "idle" THEN Idle ELSE [@ EXCEPT !.pc = pc]]

\* hermit locks nothing: that sessions keep out of each other's way (Overlap
\* is FALSE) is up to its users.
Begin(s, pc, n, d) ==
  /\ At(s, "idle")
  /\ Overlap \/ \A t \in Sessions : session[t].name # n /\ session[t].pd # d
  /\ session' = [session EXCEPT ![s] = [pc |-> pc, name |-> n, pd |-> d]]
  /\ UNCHANGED <<config, disk, vm, lingering, faults>>

\* A step that only reads.
Look(s, pc) == Goto(s, pc) /\ UNCHANGED <<config, disk, vm, lingering, faults>>

\* A gcloud call that succeeds; the session goes on at pc.
Call(s, request, pc) ==
  /\ At(s, request)
  /\ Perform(session[s])
  /\ Goto(s, pc)
  /\ UNCHANGED <<config, lingering, faults>>

\* A gcloud call the cloud refuses: GCloudError, and the command is over.
Refused(s) ==
  /\ session[s].pc \in Requests
  /\ ~Accepts(session[s])
  /\ Look(s, "idle")

(* hermit create *)

\* Mutant: the name may have a config already.
BeginCreateAgain(s, n, d) == <<n, d>> \in PdNames /\ Begin(s, "find disk", n, d)

\* create() refuses a name that has a config and remembers nothing else of
\* the config store.
BeginCreate(s, n, d) ==
  /\ <<n, d>> \in PdNames
  /\ config[n] = NoDisk
  /\ Begin(s, "find disk", n, d)

\* Mutant: a disk that exists is used as it is found.
FindDiskReuses(s) ==
  /\ At(s, "find disk")
  /\ Look(s, IF disk[session[s].pd] = "absent" THEN "find vm" ELSE "make formatter")

FindDisk(s) ==
  /\ At(s, "find disk")
  /\ Look(s, IF disk[session[s].pd] = "absent" THEN "find vm" ELSE "idle")

FindVm(s) ==
  /\ At(s, "find vm")
  /\ Look(s, IF Status(s) = "NONE" THEN "make disk" ELSE "idle")

MakeDisk(s) == Call(s, "make disk", "make formatter")

\* Mutant: the wait for the end of mkfs is missing.
MakeFormatterUnwatched(s) == Call(s, "make formatter", "delete formatter")

MakeFormatter(s) == Call(s, "make formatter", "wait for format")

\* Polls until TERMINATED; one_or_none is not passed, so a VM that is gone
\* fails the assertion on the length of the list.
WaitForFormat(s) ==
  /\ At(s, "wait for format")
  /\ \/ Status(s) = "TERMINATED" /\ Look(s, "delete formatter")
     \/ Status(s) = "NONE" /\ Look(s, "idle")

DeleteFormatter(s) == Call(s, "delete formatter", "write config")

WriteConfig(s) ==
  /\ At(s, "write config")
  /\ config' = [config EXCEPT ![session[s].name] = session[s].pd]
  /\ Goto(s, "idle")
  /\ UNCHANGED <<disk, vm, lingering, faults>>

(* hermit up *)

\* Any command but create starts by reading the config, and only once.
BeginOn(s, pc, n) == config[n] # NoDisk /\ Begin(s, pc, n, config[n])

BeginUp(s, n) == BeginOn(s, "look up", n)

\* Mutants: a stopped machine is created anew; a new machine gets the
\* user-data of the formatter.
NextOfUpAnew(status) ==
  CASE status \in {"NONE", "TERMINATED"} -> "create vm"
    [] status = "RUNNING" -> "wait for start"
    [] status = "SUSPENDED" -> "resume vm"
    [] OTHER -> "idle"

NextOfUpFormats(status) ==
  CASE status = "TERMINATED" -> "start vm"
    [] status = "NONE" -> "make formatter"
    [] status = "RUNNING" -> "wait for start"
    [] status = "SUSPENDED" -> "resume vm"
    [] OTHER -> "idle"

NextOfUp(status) ==
  CASE status = "TERMINATED" -> "start vm"
    [] status = "NONE" -> "create vm"
    [] status = "RUNNING" -> "wait for start"
    [] status = "SUSPENDED" -> "resume vm"
    [] OTHER -> "idle"

LookUp(s) == At(s, "look up") /\ Look(s, NextOfUp(Status(s)))

CreateVm(s) == Call(s, "create vm", "wait for start")
StartVm(s) == Call(s, "start vm", "wait for start")
ResumeVm(s) == Call(s, "resume vm", "wait for start")

\* The log of a machine says "Server listening" or that there is no file
\* system; either way the wait is over.  A formatter has no such log.
WaitForStart(s) ==
  /\ At(s, "wait for start")
  /\ Status(s) = "RUNNING" /\ vm[session[s].name].role = "machine"
  /\ Look(s, "idle")

(* hermit down *)

BeginDown(s, n) == BeginOn(s, "look down", n)

LookDown(s) ==
  /\ At(s, "look down")
  /\ Look(s, CASE Status(s) = "NONE" -> "idle"
               [] Status(s) = "RUNNING" -> "shut down"
               [] OTHER -> "delete vm")

ShutDown(s) == Call(s, "shut down", "wait for stop")

\* The ssh that carries the shutdown times out: down goes on all the same.
ShutDownTimesOut(s) == At(s, "shut down") /\ Look(s, "wait for stop")

WaitForStop(s) ==
  /\ At(s, "wait for stop")
  /\ Status(s) = "TERMINATED"
  /\ Look(s, "delete vm")

DeleteVm(s) == Call(s, "delete vm", "idle")

(* hermit delete *)

BeginDelete(s, n) == BeginOn(s, "look delete", n)

\* Mutant: the config is deleted first, whether or not an instance exists.
LookDeleteLate(s) ==
  /\ At(s, "look delete")
  /\ config' = [config EXCEPT ![session[s].name] = NoDisk]
  /\ Goto(s, "delete disk")
  /\ UNCHANGED <<disk, vm, lingering, faults>>

\* Without --force the user may decline at the prompt.
LookDelete(s) ==
  /\ At(s, "look delete")
  /\ \/ Status(s) = "NONE" /\ Look(s, "delete disk")
     \/ Look(s, "idle")

DeleteDisk(s) == Call(s, "delete disk", "forget config")

\* A config that is gone already fails the assertion: nothing changes.
ForgetConfig(s) ==
  /\ At(s, "forget config")
  /\ config' = [config EXCEPT ![session[s].name] = NoDisk]
  /\ Goto(s, "idle")
  /\ UNCHANGED <<disk, vm, lingering, faults>>

----------------------------------------------------------------------------
(* Deadlines and faults.                                                   *)

Fault == faults < MaxFaults /\ faults' = faults + 1

\* The VM is on its way to another status without anybody's help.
Transient(n) ==
  \/ vm[n].status \in {"STAGING", "STOPPING", "SUSPENDING"}
  \/ vm[n].role = "formatter" /\ vm[n].status = "RUNNING"

\* Mutants: up and create wait forever; the deadlines are shorter than what
\* they wait for; the TimeoutError ends down.
DeadlineOfDown(s) == At(s, "wait for stop") /\ Look(s, "delete vm")

DeadlineTooShort(s) ==
  /\ session[s].pc \in Waits
  /\ Look(s, IF At(s, "wait for stop") THEN "delete vm" ELSE "idle")

DeadlineRaises(s) ==
  /\ session[s].pc \in Waits
  /\ ~(At(s, "wait for format") /\ Status(s) \in {"TERMINATED", "NONE"})
  /\ ~(At(s, "wait for stop") /\ Status(s) = "TERMINATED")
  /\ ~Transient(session[s].name)
  /\ Look(s, "idle")

\* create and up give up, down goes on to delete the VM.  The deadlines are
\* long (5 and 60 minutes): one that cuts a VM's transition is a fault.  A
\* machine may be RUNNING and never log what up waits for.
Deadline(s) ==
  /\ session[s].pc \in Waits
  /\ ~(At(s, "wait for format") /\ Status(s) \in {"TERMINATED", "NONE"})
  /\ ~(At(s, "wait for stop") /\ Status(s) = "TERMINATED")
  /\ IF Transient(session[s].name) THEN Fault ELSE UNCHANGED faults
  /\ Goto(s, IF At(s, "wait for stop") THEN "delete vm" ELSE "idle")
  /\ UNCHANGED <<config, disk, vm, lingering>>

\* Ctrl-C, a crash, a call that exceeds its timeout: the session ends where
\* it stands.  Nothing kills the gcloud child, so a request under way may
\* still be served.
Interrupt(s) ==
  /\ ~At(s, "idle")
  /\ Fault
  /\ Goto(s, "idle")
  /\ lingering' \in {lingering} \union
       IF Linger /\ session[s].pc \in Requests THEN {lingering \union {session[s]}} ELSE {}
  /\ UNCHANGED <<config, disk, vm>>

\* A request of a dead session reaches the cloud.
Served(r) ==
  /\ r \in lingering
  /\ IF Accepts(r) THEN Perform(r) ELSE UNCHANGED <<disk, vm>>
  /\ lingering' = lingering \ {r}
  /\ UNCHANGED <<config, session, faults>>

----------------------------------------------------------------------------
(* The VMs.                                                                *)

Changes(n, role, from, to) ==
  /\ vm[n].role \in role /\ vm[n].status = from
  /\ SetStatus(n, to)
  /\ UNCHANGED <<config, session, lingering>>

Quietly == UNCHANGED <<disk, faults>>

Boot(n) == Changes(n, Roles, "STAGING", "RUNNING") /\ Quietly
Halt(n) == Changes(n, Roles, "STOPPING", "TERMINATED") /\ Quietly

\* bootcmd of the temporary instance: mkfs /dev/sdb, then shutdown, at every
\* boot and whatever the disk holds.
Format(n) ==
  /\ Changes(n, {"formatter"}, "RUNNING", "STOPPING")
  /\ disk' = [disk EXCEPT ![vm[n].pd] = "ext4"]
  /\ UNCHANGED faults

\* mkfs fails: the shutdown follows all the same.
FormatFails(n) ==
  Changes(n, {"formatter"}, "RUNNING", "STOPPING") /\ Fault /\ UNCHANGED disk

\* suspend_on_idle.py suspends an idle machine, or shuts it down when
\* suspending has failed too often; its user may shut it down too.
Suspend(n) == Changes(n, {"machine"}, "RUNNING", "SUSPENDING") /\ Quietly
Suspended(n) == Changes(n, {"machine"}, "SUSPENDING", "SUSPENDED") /\ Quietly
PowerOff(n) == Changes(n, {"machine"}, "RUNNING", "STOPPING") /\ Quietly

\* The user's work, on a home that has a file system.
UserWrites(n) ==
  /\ vm[n].role = "machine" /\ vm[n].status = "RUNNING"
  /\ disk[vm[n].pd] = "ext4"
  /\ disk' = [disk EXCEPT ![vm[n].pd] = "data"]
  /\ UNCHANGED <<config, vm, session, lingering, faults>>

----------------------------------------------------------------------------
CreateSteps(s) ==
  \/ FindDisk(s) \/ FindVm(s) \/ MakeDisk(s) \/ MakeFormatter(s)
  \/ WaitForFormat(s) \/ DeleteFormatter(s) \/ WriteConfig(s)
UpSteps(s) ==
  LookUp(s) \/ CreateVm(s) \/ StartVm(s) \/ ResumeVm(s) \/ WaitForStart(s)
DownSteps(s) ==
  \/ LookDown(s) \/ ShutDown(s) \/ ShutDownTimesOut(s) \/ WaitForStop(s)
  \/ DeleteVm(s)
DeleteSteps(s) == LookDelete(s) \/ DeleteDisk(s) \/ ForgetConfig(s)

\* The command a session is in goes on.
Proceed(s) ==
  \/ CreateSteps(s) \/ UpSteps(s) \/ DownSteps(s) \/ DeleteSteps(s)
  \/ Refused(s) \/ Deadline(s)

\* A user starts a command.
Start(s) ==
  \E n \in Names :
    \/ \E d \in Disks : BeginCreate(s, n, d)
    \/ BeginUp(s, n) \/ BeginDown(s, n) \/ BeginDelete(s, n)

\* A VM completes the transition it is in.
Advance(n) == Boot(n) \/ Halt(n) \/ Format(n) \/ Suspended(n)

Next ==
  \/ \E s \in Sessions : Start(s) \/ Proceed(s) \/ Interrupt(s)
  \/ \E r \in lingering : Served(r)
  \/ \E n \in Names :
       Advance(n) \/ FormatFails(n) \/ Suspend(n) \/ PowerOff(n) \/ UserWrites(n)

Spec == Init /\ [][Next]_vars

\* hermit does not stop between two steps, and the cloud completes the
\* transitions it has begun; nobody has to start or interrupt anything.
FairSpec ==
  /\ Spec
  /\ \A s \in Sessions : WF_vars(Proceed(s))
  /\ \A n \in Names : WF_vars(Advance(n))

----------------------------------------------------------------------------
(* What is to hold.                                                        *)

\* Types, and with them that a VM always has a role and a disk, and that a
\* session inside a command always knows its name and a disk (a command but
\* create has found them in a config).
TypeOK ==
  /\ config \in [Names -> Disks \union {NoDisk}]
  /\ disk \in [Disks -> Contents]
  /\ vm \in [Names -> Vms \union {NoVm}]
  /\ session \in [Sessions -> Commands \union {Idle}]
  /\ lingering \subseteq {r \in Commands : r.pc \in Requests}
  /\ faults \in 0 .. MaxFaults

\* Every machine belongs to an environment: its name has a config, and the
\* config names the disk the machine runs on, so that "hermit down" can find
\* it and nobody pays for a machine hermit has forgotten.
MachinesAreManaged ==
  \A n \in Names : vm[n].role = "machine" => config[n] = vm[n].pd

\* The temporary instance that formats a disk never has the name of an
\* environment: "hermit up" would start it again (and format the disk again)
\* and wait an hour for an sshd it does not run.
FormattersAreUnmanaged ==
  \A n \in Names : vm[n].role = "formatter" => config[n] = NoDisk

\* What a user saved on a disk changes only when the disk is deleted: no
\* command ever formats it again.
HomesSurvive ==
  [][\A d \in Disks : disk[d] = "data" => disk'[d] \in {"data", "absent"}]_vars

\* A config is a promise that the environment can be brought up: its disk
\* has a file system, except while delete is between deleting the disk and
\* deleting the config.
ConfigsHaveHomes ==
  \A n \in Names :
    config[n] # NoDisk =>
      \/ disk[config[n]] \in {"ext4", "data"}
      \/ \E s \in Sessions : At(s, "forget config") /\ session[s].name = n

\* create() asserts that the name has no config stored: a config is deleted
\* before it is written anew.
CreateNeverOverwrites ==
  [][\A n \in Names : config[n] # NoDisk => config'[n] \in {config[n], NoDisk}]_vars

\* A disk nobody's config names and no session is about to use.
Orphan(d) ==
  /\ disk[d] # "absent"
  /\ \A n \in Names : config[n] # d
  /\ \A s \in Sessions : session[s].pd = d => session[s].pc \in {"idle", "find disk"}

\* A config whose disk an interrupted delete took away.
HalfDeleted(n) ==
  /\ config[n] # NoDisk
  /\ disk[config[n]] = "absent"
  /\ \A s \in Sessions : ~(At(s, "forget config") /\ session[s].name = n)

\* What an interrupted command leaves, no later one repairs.  The disk of a
\* create stays: create refuses it because it exists and no other command can
\* name it.  The config of a delete stays: delete fails on the missing disk
\* before it comes to the config, and create refuses the name; all that helps
\* is a create of another name that makes a disk of that name.
LeftoversStay ==
  [][/\ \A d \in Disks : Orphan(d) => Orphan(d)'
     /\ \A n \in Names :
          HalfDeleted(n) => \/ HalfDeleted(n)'
                            \/ \E s \in Sessions : At(s, "make disk") /\ session[s].pd = config[n]]_vars

\* The abstract promise: an environment is offline or online on its own
\* home, and its home goes away only when it is deleted.
Promise == INSTANCE Environment WITH
  known <- config,
  home <- [d \in Disks |-> CASE disk[d] = "absent" -> "none"
                             [] disk[d] = "data" -> "saved"
                             [] OTHER -> "blank"],
  online <- [n \in Names |-> IF vm[n].role = "machine" THEN vm[n].pd ELSE NoDisk]

KeepsPromise == Promise!Spec

\* Every command ends, whatever state it finds the cloud in.
CommandsEnd == \A s \in Sessions : []<>At(s, "idle")

\* create that has begun to make its disk leaves a config for it.
CreateDelivers ==
  \A s \in Sessions, n \in Names, d \in Disks :
    session[s] = [pc |-> "make disk", name |-> n, pd |-> d] ~> config[n] = d

\* up that has asked for a machine gets it running on the disk of its config.
UpDelivers ==
  \A s \in Sessions, n \in Names, d \in Disks :
    session[s] = [pc |-> "create vm", name |-> n, pd |-> d]
      ~> vm[n] = [status |-> "RUNNING", role |-> "machine", pd |-> d]

\* down that has got its shutdown through, or found nothing to shut down,
\* leaves no instance, even if the machine suspends itself meanwhile.
DownDelivers ==
  \A s \in Sessions, n \in Names :
    session[s].name = n /\ session[s].pc \in {"wait for stop", "delete vm"}
      ~> vm[n] = NoVm
=============================================================================
