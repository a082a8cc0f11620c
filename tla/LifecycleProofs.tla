--------------------------- MODULE LifecycleProofs ---------------------------
(***************************************************************************)
(* Proofs about Lifecycle, for any names, disks, sessions, disk naming and *)
(* number of faults.                                                       *)
(***************************************************************************)
EXTENDS Lifecycle, TLAPS

----------------------------------------------------------------------------
(* Type correctness.  It is inductive as it stands, whatever the sessions  *)
(* do to each other.                                                       *)

\* Moving a session on within its command, or out of it, keeps its type.
LEMMA GotoType ==
  ASSUME TypeOK, NEW s \in Sessions, NEW pc \in Steps,
         session[s] \in Commands, Goto(s, pc)
  PROVE  session' \in [Sessions -> Commands \union {Idle}]
<1>1. CASE pc = "idle"
  BY <1>1 DEF Goto, TypeOK
<1>2. CASE pc # "idle"
  <2>1. [session[s] EXCEPT !.pc = pc] \in Commands
    BY <1>2 DEF Commands
  <2> QED BY <1>2, <2>1 DEF Goto, TypeOK
<1> QED BY <1>1, <1>2

\* A session that is not idle is in a command.
LEMMA InCommand ==
  ASSUME TypeOK, NEW s \in Sessions, session[s].pc # "idle"
  PROVE  session[s] \in Commands
BY DEF TypeOK, Idle

\* A request the cloud serves keeps disks and VMs of their type.
LEMMA PerformType ==
  ASSUME TypeOK, NEW r \in Commands, Perform(r)
  PROVE  disk' \in [Disks -> Contents] /\ vm' \in [Names -> Vms \union {NoVm}]
<1> r.name \in Names /\ r.pd \in Disks
  BY DEF Commands
<1>1. CASE r.pc = "make disk" /\ MakesDisk(r)
  BY <1>1 DEF MakesDisk, TypeOK, Contents
<1>2. CASE r.pc = "delete disk" /\ DeletesDisk(r)
  BY <1>2 DEF DeletesDisk, TypeOK, Contents
<1>3. CASE \E role \in {"formatter", "machine"} : Boots(r, role) /\ UNCHANGED disk
  BY <1>3 DEF Boots, TypeOK, Vms, Statuses, Roles
<1>4. CASE /\ r.pc \in {"start vm", "resume vm", "shut down"}
           /\ \E status \in {"STAGING", "STOPPING"} : SetStatus(r.name, status)
           /\ UNCHANGED disk
  <2>1. PICK status \in {"STAGING", "STOPPING"} : SetStatus(r.name, status)
    BY <1>4
  <2>2. vm[r.name].status \in {"TERMINATED", "SUSPENDED", "RUNNING"}
    <3>1. Accepts(r)
      BY DEF Perform
    <3> QED BY <3>1, <1>4 DEF Accepts
  <2>3. [vm[r.name] EXCEPT !.status = status] \in Vms
    BY <2>2 DEF TypeOK, Vms, Statuses, NoVm
  <2> QED BY <1>4, <2>1, <2>3 DEF SetStatus, TypeOK
<1>5. CASE DeletesVm(r)
  BY <1>5 DEF DeletesVm, TypeOK
<1> QED BY <1>1, <1>2, <1>3, <1>4, <1>5 DEF Perform

\* A step that only reads keeps the type.
LEMMA LookType ==
  ASSUME TypeOK, NEW s \in Sessions, NEW pc \in Steps,
         session[s].pc # "idle", Look(s, pc)
  PROVE  TypeOK'
<1>1. session' \in [Sessions -> Commands \union {Idle}]
  BY InCommand, GotoType DEF Look
<1> QED BY <1>1 DEF Look, TypeOK

LEMMA CallType ==
  ASSUME TypeOK, NEW s \in Sessions, NEW request \in Requests, NEW pc \in Steps,
         Call(s, request, pc)
  PROVE  TypeOK'
<1>1. session[s].pc # "idle" /\ session[s] \in Commands
  BY InCommand DEF Call, At, Requests
<1>2. session' \in [Sessions -> Commands \union {Idle}]
  BY <1>1, GotoType DEF Call
<1>3. disk' \in [Disks -> Contents] /\ vm' \in [Names -> Vms \union {NoVm}]
  BY <1>1, PerformType DEF Call
<1> QED BY <1>2, <1>3 DEF Call, TypeOK

LEMMA BeginType ==
  ASSUME TypeOK, NEW s \in Sessions, NEW pc \in Looks,
         NEW n \in Names, NEW d \in Disks, Begin(s, pc, n, d)
  PROVE  TypeOK'
<1>1. [pc |-> pc, name |-> n, pd |-> d] \in Commands
  BY DEF Commands, Steps, Looks
<1> QED BY <1>1 DEF Begin, TypeOK

\* A VM that moves from one status to another keeps its type.
LEMMA ChangesType ==
  ASSUME TypeOK, NEW n \in Names, NEW roles, NEW from \in Statuses \ {"NONE"},
         NEW to \in Statuses \ {"NONE"}, Changes(n, roles, from, to)
  PROVE  /\ vm' \in [Names -> Vms \union {NoVm}]
         /\ vm[n] \in Vms /\ UNCHANGED <<config, session, lingering>>
<1>1. vm[n] \in Vms
  BY DEF Changes, TypeOK, NoVm
<1>2. [vm[n] EXCEPT !.status = to] \in Vms
  BY <1>1 DEF Vms
<1> QED BY <1>1, <1>2 DEF Changes, SetStatus, TypeOK

LEMMA TypeInit == Init => TypeOK
BY FaultsAssumption DEF Init, TypeOK, Contents

LEMMA TypeStep ==
  ASSUME TypeOK, [Next]_vars
  PROVE  TypeOK'
<1> USE FaultsAssumption
<1>1. ASSUME NEW s \in Sessions, Start(s) PROVE TypeOK'
  <2>1. PICK n \in Names : \/ \E d \in Disks : BeginCreate(s, n, d)
                           \/ \E pc \in Looks : BeginOn(s, pc, n)
    BY <1>1 DEF Start, BeginUp, BeginDown, BeginDelete, Looks
  <2>2. CASE \E d \in Disks : BeginCreate(s, n, d)
    BY <2>2, BeginType DEF BeginCreate, Looks
  <2>3. CASE \E pc \in Looks : BeginOn(s, pc, n)
    <3>1. PICK pc \in Looks : config[n] # NoDisk /\ Begin(s, pc, n, config[n])
      BY <2>3 DEF BeginOn
    <3>2. config[n] \in Disks
      BY <3>1 DEF TypeOK
    <3> QED BY <3>1, <3>2, BeginType
  <2> QED BY <2>1, <2>2, <2>3
<1>2. ASSUME NEW s \in Sessions, Proceed(s) PROVE TypeOK'
  <2>1. CASE \E pc \in Steps : session[s].pc # "idle" /\ Look(s, pc)
    BY <2>1, LookType
  <2>2. CASE \E request \in Requests, pc \in Steps : Call(s, request, pc)
    BY <2>2, CallType
  <2>3. CASE WriteConfig(s) \/ ForgetConfig(s)
    <3>1. session[s] \in Commands
      BY <2>3, InCommand DEF WriteConfig, ForgetConfig, At
    <3>2. session' \in [Sessions -> Commands \union {Idle}]
      BY <2>3, <3>1, GotoType DEF WriteConfig, ForgetConfig, Steps
    <3>3. session[s].name \in Names /\ session[s].pd \in Disks
      BY <3>1 DEF Commands
    <3> QED BY <2>3, <3>2, <3>3 DEF WriteConfig, ForgetConfig, TypeOK
  <2>4. CASE Deadline(s)
    <3>1. session[s] \in Commands
      BY <2>4, InCommand DEF Deadline, Waits
    <3>2. session' \in [Sessions -> Commands \union {Idle}]
      BY <2>4, <3>1, GotoType DEF Deadline, Steps, Requests
    <3>3. faults' = faults \/ Fault
      BY <2>4 DEF Deadline
    <3>4. faults' \in 0 .. MaxFaults
      BY <3>3 DEF Fault, TypeOK
    <3> QED BY <2>4, <3>2, <3>4 DEF Deadline, TypeOK
  <2>5. CreateSteps(s) => \/ \E pc \in Steps : session[s].pc # "idle" /\ Look(s, pc)
                          \/ \E request \in Requests, pc \in Steps : Call(s, request, pc)
                          \/ WriteConfig(s)
    BY DEF CreateSteps, FindDisk, FindVm, MakeDisk, MakeFormatter, WaitForFormat,
           DeleteFormatter, At, Steps, Requests, Looks, Waits, Writes
  <2>6. UpSteps(s) => \/ \E pc \in Steps : session[s].pc # "idle" /\ Look(s, pc)
                      \/ \E request \in Requests, pc \in Steps : Call(s, request, pc)
    BY DEF UpSteps, LookUp, NextOfUp, CreateVm, StartVm, ResumeVm, WaitForStart,
           At, Steps, Requests, Waits
  <2>7. DownSteps(s) => \/ \E pc \in Steps : session[s].pc # "idle" /\ Look(s, pc)
                        \/ \E request \in Requests, pc \in Steps : Call(s, request, pc)
    BY DEF DownSteps, LookDown, ShutDown, ShutDownTimesOut, WaitForStop, DeleteVm,
           At, Steps, Requests, Waits
  <2>8. DeleteSteps(s) \/ Refused(s) =>
          \/ \E pc \in Steps : session[s].pc # "idle" /\ Look(s, pc)
          \/ \E request \in Requests, pc \in Steps : Call(s, request, pc)
          \/ ForgetConfig(s)
    BY DEF DeleteSteps, LookDelete, DeleteDisk, Refused, At, Steps, Requests, Writes
  <2> QED BY <1>2, <2>1, <2>2, <2>3, <2>4, <2>5, <2>6, <2>7, <2>8 DEF Proceed
<1>3. ASSUME NEW s \in Sessions, Interrupt(s) PROVE TypeOK'
  <2>1. session[s] \in Commands
    BY <1>3, InCommand DEF Interrupt, At
  <2>2. session' \in [Sessions -> Commands \union {Idle}]
    BY <1>3, <2>1, GotoType DEF Interrupt, Steps
  <2>3. lingering' \subseteq {r \in Commands : r.pc \in Requests}
    BY <1>3, <2>1 DEF Interrupt, TypeOK
  <2>4. faults' \in 0 .. MaxFaults
    BY <1>3 DEF Interrupt, Fault, TypeOK
  <2> QED BY <1>3, <2>2, <2>3, <2>4 DEF Interrupt, TypeOK
<1>4. ASSUME NEW r \in lingering, Served(r) PROVE TypeOK'
  <2>1. r \in Commands
    BY DEF TypeOK
  <2>2. disk' \in [Disks -> Contents] /\ vm' \in [Names -> Vms \union {NoVm}]
    BY <1>4, <2>1, PerformType DEF Served, TypeOK
  <2> QED BY <1>4, <2>2 DEF Served, TypeOK
<1>5. ASSUME NEW n \in Names,
             Boot(n) \/ Halt(n) \/ Suspended(n) \/ Suspend(n) \/ PowerOff(n)
      PROVE  TypeOK'
  <2>1. PICK roles \in {Roles, {"machine"}}, from, to \in Statuses \ {"NONE"} :
          Changes(n, roles, from, to) /\ Quietly
    BY <1>5 DEF Boot, Halt, Suspended, Suspend, PowerOff, Statuses
  <2> QED BY <2>1, ChangesType DEF Quietly, TypeOK
<1>6. ASSUME NEW n \in Names, Format(n) \/ FormatFails(n) PROVE TypeOK'
  <2>1. Changes(n, {"formatter"}, "RUNNING", "STOPPING")
    BY <1>6 DEF Format, FormatFails
  <2>2. /\ vm' \in [Names -> Vms \union {NoVm}] /\ vm[n] \in Vms
        /\ UNCHANGED <<config, session, lingering>>
    BY <2>1, ChangesType DEF Statuses
  <2>3. disk' \in [Disks -> Contents] /\ faults' \in 0 .. MaxFaults
    BY <1>6, <2>2 DEF Format, FormatFails, Fault, TypeOK, Vms, Contents
  <2> QED BY <2>2, <2>3 DEF TypeOK
<1>7. ASSUME NEW n \in Names, UserWrites(n) PROVE TypeOK'
  BY <1>7 DEF UserWrites, TypeOK, Contents
<1>8. CASE UNCHANGED vars
  BY <1>8 DEF vars, TypeOK
<1> QED BY <1>1, <1>2, <1>3, <1>4, <1>5, <1>6, <1>7, <1>8 DEF Next, Advance

\* Whatever sessions do to each other, and whatever late requests do, the
\* state has the types of TypeOK: a session in a command knows its name and
\* disk, a VM has a role and a disk.
THEOREM TypeCorrect == Spec => []TypeOK
<1>1. TypeOK /\ [Next]_vars => TypeOK'
  BY TypeStep
<1> QED BY <1>1, TypeInit, PTL DEF Spec

----------------------------------------------------------------------------
(* Saved data survives.  The sessions keep out of each other's way and no  *)
(* request outlives its session; how many sessions there are, how disks    *)
(* are named and how many sessions die does not matter.                    *)

Exclusive == ~Overlap /\ ~Linger

Active(s) == session[s].pc # "idle"

\* Sessions are about different names and different disks.
Apart ==
  \A s, t \in Sessions :
    s # t /\ Active(s) /\ Active(t) =>
      session[s].name # session[t].name /\ session[s].pd # session[t].pd

\* A VM's disk exists and is nobody else's.
Attached ==
  \A n \in Names :
    vm[n] # NoVm => /\ disk[vm[n].pd] # "absent"
                    /\ \A m \in Names : vm[m].pd = vm[n].pd => m = n

\* A formatter never holds a disk with data, and the disk create is about
\* to give to a formatter is the one it has just made.
FormattersAreHarmless ==
  \A n \in Names : vm[n].role = "formatter" => disk[vm[n].pd] # "data"

ReadyToFormat ==
  \A s \in Sessions :
    At(s, "make formatter") => disk[session[s].pd] = "raw" /\ Detached(session[s].pd)

HomeInv ==
  /\ TypeOK /\ lingering = {} /\ Apart
  /\ Attached /\ FormattersAreHarmless /\ ReadyToFormat

\* What a VM does: it changes its status, formats its disk, or saves data.
VmStep(n) ==
  /\ vm[n] # NoVm
  /\ \/ \E status \in Statuses \ {"NONE"} : SetStatus(n, status)
     \/ vm' = vm
  /\ \/ disk' = disk
     \/ vm[n].role = "formatter" /\ disk' = [disk EXCEPT ![vm[n].pd] = "ext4"]
     \/ vm[n].role = "machine" /\ disk' = [disk EXCEPT ![vm[n].pd] = "data"]
  /\ UNCHANGED <<config, session, lingering>>

LEMMA VmSteps ==
  ASSUME NEW n \in Names,
         Advance(n) \/ FormatFails(n) \/ Suspend(n) \/ PowerOff(n) \/ UserWrites(n)
  PROVE  VmStep(n)
<1>1. vm[n] # NoVm
  BY DEF Advance, Boot, Halt, Format, FormatFails, Suspend, Suspended, PowerOff,
         UserWrites, Changes, NoVm
<1>2. Advance(n) \/ FormatFails(n) \/ Suspend(n) \/ PowerOff(n) => VmStep(n)
  BY <1>1 DEF Advance, Boot, Halt, Format, FormatFails, Suspend, Suspended, PowerOff,
              Changes, Quietly, VmStep, Statuses
<1>3. UserWrites(n) => VmStep(n)
  BY <1>1 DEF UserWrites, VmStep
<1> QED BY <1>2, <1>3

\* The five shapes of a step, as far as disks, VMs and sessions see it.
LEMMA Shapes ==
  ASSUME TypeOK, lingering = {}, ~Linger, [Next]_vars
  PROVE  \/ \E s \in Sessions, pc \in Steps \ {"make formatter"} :
              Active(s) /\ Goto(s, pc) /\ UNCHANGED <<disk, vm, lingering>>
         \/ \E s \in Sessions, request \in Requests, pc \in Steps :
              Call(s, request, pc) /\ (pc = "make formatter" => request = "make disk")
         \/ \E s \in Sessions, pc \in Looks, n \in Names, d \in Disks :
              Begin(s, pc, n, d)
         \/ \E n \in Names : VmStep(n)
         \/ UNCHANGED <<disk, vm, session, lingering>>
<1> DEFINE Goes(s) == \E pc \in Steps \ {"make formatter"} :
                        Active(s) /\ Goto(s, pc) /\ UNCHANGED <<disk, vm, lingering>>
           Calls(s) == \E request \in Requests, pc \in Steps :
                         Call(s, request, pc) /\ (pc = "make formatter" => request = "make disk")
<1>1. ASSUME NEW s \in Sessions, Start(s)
      PROVE  \E pc \in Looks, n \in Names, d \in Disks : Begin(s, pc, n, d)
  BY <1>1 DEF Start, BeginCreate, BeginUp, BeginDown, BeginDelete, BeginOn, Looks, TypeOK
<1>2. ASSUME NEW s \in Sessions, Proceed(s) PROVE Goes(s) \/ Calls(s)
  <2>1. ASSUME NEW pc \in Steps \ {"make formatter"}, Active(s), Look(s, pc) PROVE Goes(s)
    BY <2>1 DEF Look
  <2>2. ASSUME NEW request \in Requests, NEW pc \in Steps, Call(s, request, pc),
               pc = "make formatter" => request = "make disk"
        PROVE  Calls(s)
    BY <2>2
  <2>3. WriteConfig(s) \/ ForgetConfig(s) \/ Deadline(s) => Goes(s)
    BY DEF WriteConfig, ForgetConfig, Deadline, At, Active, Steps, Requests, Waits
  <2> HIDE DEF Goes, Calls
  <2>4. CreateSteps(s) => Goes(s) \/ Calls(s)
    BY <2>1, <2>2, <2>3
       DEF CreateSteps, FindDisk, FindVm, MakeDisk, MakeFormatter, WaitForFormat,
           DeleteFormatter, At, Active, Steps, Requests, Looks, Waits, Writes
  <2>5. UpSteps(s) => Goes(s) \/ Calls(s)
    BY <2>1, <2>2
       DEF UpSteps, LookUp, NextOfUp, CreateVm, StartVm, ResumeVm, WaitForStart,
           At, Active, Steps, Requests, Waits
  <2>6. DownSteps(s) => Goes(s) \/ Calls(s)
    BY <2>1, <2>2
       DEF DownSteps, LookDown, ShutDown, ShutDownTimesOut, WaitForStop, DeleteVm,
           At, Active, Steps, Requests, Waits
  <2>7. DeleteSteps(s) \/ Refused(s) => Goes(s) \/ Calls(s)
    BY <2>1, <2>2, <2>3
       DEF DeleteSteps, LookDelete, DeleteDisk, Refused, At, Active, Steps, Requests, Writes
  <2> QED BY <1>2, <2>3, <2>4, <2>5, <2>6, <2>7 DEF Proceed
<1>3. ASSUME NEW s \in Sessions, Interrupt(s) PROVE Goes(s)
  BY <1>3 DEF Interrupt, At, Active, Steps
<1>4. ASSUME NEW n \in Names,
             Advance(n) \/ FormatFails(n) \/ Suspend(n) \/ PowerOff(n) \/ UserWrites(n)
      PROVE  VmStep(n)
  BY <1>4, VmSteps
<1>5. UNCHANGED vars => UNCHANGED <<disk, vm, session, lingering>>
  BY DEF vars
<1> QED BY <1>1, <1>2, <1>3, <1>4, <1>5 DEF Next

\* What an accepted request does to data: nothing, unless it deletes it.
LEMMA PerformKeepsData ==
  ASSUME TypeOK, NEW r \in Commands, Perform(r), NEW d \in Disks, disk[d] = "data"
  PROVE  disk'[d] \in {"data", "absent"}
<1>1. r.pc = "make disk" => disk[r.pd] = "absent"
  BY DEF Perform, Accepts
<1> QED BY <1>1 DEF Perform, MakesDisk, DeletesDisk, DeletesVm, TypeOK, Commands

\* What the types say of VMs and of active sessions.
LEMMA Typing ==
  ASSUME TypeOK
  PROVE  /\ \A n \in Names : vm[n] # NoVm => vm[n] \in Vms /\ vm[n].pd \in Disks
         /\ \A n \in Names : vm[n].role # "none" \/ vm[n].pd # NoDisk => vm[n] # NoVm
         /\ \A s \in Sessions : Active(s) =>
              /\ session[s] \in Commands
              /\ session[s].name \in Names /\ session[s].pd \in Disks
BY DEF TypeOK, Vms, NoVm, Commands, Idle, Active

\* Where a move leaves the sessions.
LEMMA GotoSession ==
  ASSUME TypeOK, NEW s \in Sessions, NEW pc \in Steps, Active(s), Goto(s, pc)
  PROVE  /\ \A t \in Sessions \ {s} : session'[t] = session[t]
         /\ \/ pc = "idle" /\ session'[s] = Idle
            \/ /\ pc # "idle" /\ session'[s].pc = pc
               /\ session'[s].name = session[s].name
               /\ session'[s].pd = session[s].pd
<1>1. session[s] \in Commands
  BY InCommand DEF Active
<1>2. [session[s] EXCEPT !.pc = pc] =
        [pc |-> pc, name |-> session[s].name, pd |-> session[s].pd]
  BY <1>1 DEF Commands
<1> QED BY <1>1, <1>2 DEF Goto, TypeOK

LEMMA GotoApart ==
  ASSUME TypeOK, Apart, NEW s \in Sessions, NEW pc \in Steps, Active(s), Goto(s, pc)
  PROVE  Apart'
BY GotoSession DEF Apart, Active, Idle

\* A new status changes nothing else of a VM, and nothing of another.
LEMMA SetStatusKeeps ==
  ASSUME TypeOK, NEW n \in Names, NEW status, SetStatus(n, status)
  PROVE  \A m \in Names : /\ vm'[m].pd = vm[m].pd /\ vm'[m].role = vm[m].role
                          /\ m # n => vm'[m] = vm[m]
<1>1. \A m \in Names \ {n} : vm'[m] = vm[m]
  BY DEF SetStatus, TypeOK
<1>2. vm[n] \in Vms \union {NoVm}
  BY DEF TypeOK
<1>3. [vm[n] EXCEPT !.status = status] =
      [status |-> status, role |-> vm[n].role, pd |-> vm[n].pd]
  BY <1>2 DEF Vms, NoVm
<1>4. vm'[n] = [vm[n] EXCEPT !.status = status]
  BY DEF SetStatus, TypeOK
<1>5. vm'[n].pd = vm[n].pd /\ vm'[n].role = vm[n].role
  BY <1>3, <1>4
<1> QED BY <1>1, <1>5

\* A served request of another session, or of this one, keeps VMs and their
\* disks in order.
LEMMA PerformAttached ==
  ASSUME TypeOK, Attached, NEW r \in Commands, Perform(r)
  PROVE  Attached'
<1> USE DEF Commands
<1>1. CASE r.pc = "make disk" /\ MakesDisk(r)
  BY <1>1 DEF MakesDisk, Attached, TypeOK, Vms
<1>2. CASE r.pc = "delete disk" /\ DeletesDisk(r)
  <2>1. Detached(r.pd)
    BY <1>2 DEF Perform, Accepts
  <2> QED BY <1>2, <2>1 DEF DeletesDisk, Attached, Detached, TypeOK, Vms
<1>3. CASE \E role \in {"formatter", "machine"} :
             r.pc \in {"make formatter", "create vm"} /\ Boots(r, role) /\ UNCHANGED disk
  <2>1. Detached(r.pd) /\ disk[r.pd] # "absent"
    BY <1>3 DEF Perform, Accepts
  <2>2. /\ \A n \in Names \ {r.name} : vm'[n] = vm[n]
        /\ vm'[r.name].pd = r.pd /\ disk' = disk
    <3>1. PICK role \in {"formatter", "machine"} : Boots(r, role) /\ disk' = disk
      BY <1>3
    <3>2. vm' = [vm EXCEPT ![r.name] = [status |-> "STAGING", role |-> role, pd |-> r.pd]]
      BY <3>1 DEF Boots
    <3> QED BY <3>1, <3>2 DEF TypeOK
  <2> QED BY <2>1, <2>2 DEF Attached, Detached
<1>4. CASE \E status \in {"STAGING", "STOPPING"} :
             r.pc \in {"start vm", "resume vm", "shut down"} /\ SetStatus(r.name, status)
               /\ UNCHANGED disk
  <2>1. vm[r.name] # NoVm
    <3>1. vm[r.name].status \in {"TERMINATED", "SUSPENDED", "RUNNING"}
      BY <1>4 DEF Perform, Accepts
    <3> QED BY <3>1 DEF NoVm
  <2>2. \A n \in Names : vm'[n].pd = vm[n].pd /\ (n # r.name => vm'[n] = vm[n])
    BY <1>4, SetStatusKeeps
  <2>3. disk' = disk
    BY <1>4
  <2> QED BY <2>1, <2>2, <2>3 DEF Attached
<1>5. CASE DeletesVm(r)
  BY <1>5, NamesAssumption DEF DeletesVm, Attached, TypeOK, Vms, NoVm
<1> QED BY <1>1, <1>2, <1>3, <1>4, <1>5 DEF Perform

\* A request reaches no disk and attaches no disk but its own.
LEMMA PerformReach ==
  ASSUME TypeOK, NEW r \in Commands, Perform(r)
  PROVE  /\ \A n \in Names : vm'[n].pd \in {vm[n].pd, r.pd, NoDisk}
         /\ \A d \in Disks \ {r.pd} : disk'[d] = disk[d]
<1>1. CASE MakesDisk(r) \/ DeletesDisk(r)
  BY <1>1 DEF MakesDisk, DeletesDisk, TypeOK
<1>2. CASE \E role \in Roles : Boots(r, role) /\ UNCHANGED disk
  BY <1>2 DEF Boots, TypeOK
<1>3. CASE \E status : SetStatus(r.name, status) /\ UNCHANGED disk
  <2>1. \A n \in Names : vm'[n].pd = vm[n].pd
    <3>1. PICK status : SetStatus(r.name, status)
      BY <1>3
    <3> QED BY <3>1, SetStatusKeeps DEF Commands
  <2> QED BY <1>3, <2>1
<1>4. CASE DeletesVm(r)
  BY <1>4 DEF DeletesVm, TypeOK, NoVm
<1> QED BY <1>1, <1>2, <1>3, <1>4 DEF Perform, Roles

LEMMA VmStepFacts ==
  ASSUME TypeOK, NEW n \in Names, VmStep(n)
  PROVE  /\ vm[n].pd \in Disks
         /\ \A m \in Names : /\ vm'[m].pd = vm[m].pd /\ vm'[m].role = vm[m].role
                             /\ m # n => vm'[m] = vm[m]
         /\ \A d \in Disks : d # vm[n].pd => disk'[d] = disk[d]
         /\ \/ disk'[vm[n].pd] = disk[vm[n].pd]
            \/ vm[n].role = "formatter" /\ disk'[vm[n].pd] = "ext4"
            \/ vm[n].role = "machine" /\ disk'[vm[n].pd] = "data"
<1>1. vm[n].pd \in Disks
  BY DEF VmStep, TypeOK, Vms
<1>2. \A m \in Names : /\ vm'[m].pd = vm[m].pd /\ vm'[m].role = vm[m].role
                       /\ m # n => vm'[m] = vm[m]
  <2>1. CASE vm' = vm
    BY <2>1
  <2>2. CASE \E status \in Statuses \ {"NONE"} : SetStatus(n, status)
    BY <2>2, SetStatusKeeps
  <2> QED BY <2>1, <2>2 DEF VmStep
<1>3. disk \in [Disks -> Contents]
  BY DEF TypeOK
<1>4. \/ disk' = disk
      \/ vm[n].role = "formatter" /\ disk' = [disk EXCEPT ![vm[n].pd] = "ext4"]
      \/ vm[n].role = "machine" /\ disk' = [disk EXCEPT ![vm[n].pd] = "data"]
  BY DEF VmStep
<1>5. \A d \in Disks : d # vm[n].pd => disk'[d] = disk[d]
  BY <1>3, <1>4
<1>6. \/ disk'[vm[n].pd] = disk[vm[n].pd]
      \/ vm[n].role = "formatter" /\ disk'[vm[n].pd] = "ext4"
      \/ vm[n].role = "machine" /\ disk'[vm[n].pd] = "data"
  BY <1>1, <1>3, <1>4
<1> QED BY <1>1, <1>2, <1>5, <1>6

LEMMA HomeStep ==
  ASSUME Exclusive, HomeInv, [Next]_vars
  PROVE  HomeInv'
<1>0. TypeOK /\ lingering = {} /\ Apart /\ Attached /\ FormattersAreHarmless /\ ReadyToFormat
  BY DEF HomeInv
<1>1. ASSUME NEW s \in Sessions, NEW pc \in Steps \ {"make formatter"},
             Active(s), Goto(s, pc), UNCHANGED <<disk, vm, lingering>>
      PROVE  Apart' /\ Attached' /\ FormattersAreHarmless' /\ ReadyToFormat' /\ lingering' = {}
  <2>1. Apart'
    BY <1>0, <1>1, GotoApart
  <2>2. ReadyToFormat'
    <3>0. \A t \in Sessions \ {s} : session'[t] = session[t]
      BY <1>0, <1>1, GotoSession
    <3>1. session'[s].pc # "make formatter"
      <4>1. session'[s] = Idle \/ session'[s].pc = pc
        BY <1>0, <1>1, GotoSession
      <4>2. pc # "make formatter"
        BY <1>1
      <4>3. Idle.pc # "make formatter"
        BY DEF Idle
      <4> QED BY <4>1, <4>2, <4>3
    <3>2. disk' = disk /\ vm' = vm
      BY <1>1
    <3> QED BY <1>0, <3>0, <3>1, <3>2 DEF ReadyToFormat, At, Detached
  <2> QED BY <1>0, <1>1, <2>1, <2>2 DEF Attached, FormattersAreHarmless
<1>2. ASSUME NEW s \in Sessions, NEW request \in Requests, NEW pc \in Steps,
             Call(s, request, pc), pc = "make formatter" => request = "make disk"
      PROVE  Apart' /\ Attached' /\ FormattersAreHarmless' /\ ReadyToFormat' /\ lingering' = {}
  <2> DEFINE r == session[s]
  <2>1. Active(s) /\ r \in Commands /\ r.pc = request /\ Perform(r) /\ Goto(s, pc)
    BY <1>0, <1>2, InCommand DEF Call, At, Active, Requests
  <2>2. r.name \in Names /\ r.pd \in Disks
    BY <2>1 DEF Commands
  <2>3. Apart' /\ Attached'
    BY <1>0, <2>1, GotoApart, PerformAttached
  <2>4. FormattersAreHarmless'
    <3> SUFFICES ASSUME NEW n \in Names, vm'[n].role = "formatter"
                 PROVE  disk'[vm'[n].pd] # "data"
      BY DEF FormattersAreHarmless
    <3>0. vm'[n].role = "formatter"
      OBVIOUS
    <3>1. CASE vm'[n].pd = vm[n].pd /\ vm'[n].role = vm[n].role
      <4>1. disk[vm[n].pd] # "data"
        BY <1>0, <3>1 DEF FormattersAreHarmless
      <4>2. vm[n].pd \in Disks
        BY <1>0, <3>1 DEF TypeOK, Vms, NoVm
      <4> QED BY <1>0, <2>1, <2>2, <3>1, <4>1, <4>2
              DEF Perform, MakesDisk, DeletesDisk, DeletesVm, TypeOK
    <3>2. CASE ~(vm'[n].pd = vm[n].pd /\ vm'[n].role = vm[n].role)
      <4>1. /\ r.pc = "make formatter" /\ n = r.name
            /\ vm'[n].pd = r.pd /\ disk' = disk
        <5>1. ~(\E status : SetStatus(r.name, status))
          BY <1>0, <2>2, <3>2, SetStatusKeeps
        <5>2. \/ vm' = vm
              \/ r.pc = "make formatter" /\ Boots(r, "formatter") /\ disk' = disk
              \/ Boots(r, "machine")
              \/ DeletesVm(r)
          BY <2>1, <5>1 DEF Perform, MakesDisk, DeletesDisk
        <5>3. ~Boots(r, "machine") /\ ~DeletesVm(r)
          BY <1>0, <2>2, <3>2, <3>0 DEF Boots, DeletesVm, TypeOK, NoVm
        <5>4. r.pc = "make formatter" /\ Boots(r, "formatter") /\ disk' = disk
          BY <3>2, <5>2, <5>3
        <5>5. /\ \A m \in Names \ {r.name} : vm'[m] = vm[m]
              /\ vm'[r.name].pd = r.pd
          BY <1>0, <2>2, <5>4 DEF Boots, TypeOK
        <5> QED BY <3>2, <5>4, <5>5
      <4>2. disk[r.pd] = "raw"
        BY <1>0, <4>1 DEF ReadyToFormat, At
      <4> QED BY <4>1, <4>2
    <3> QED BY <3>1, <3>2
  <2>5. ReadyToFormat'
    <3> SUFFICES ASSUME NEW t \in Sessions, session'[t].pc = "make formatter"
                 PROVE  /\ disk'[session'[t].pd] = "raw"
                        /\ \A n \in Names : vm'[n].pd # session'[t].pd
      BY DEF ReadyToFormat, At, Detached
    <3>1. CASE t = s
      <4>0. \/ pc = "idle" /\ session'[s] = Idle
            \/ session'[s].pc = pc /\ session'[s].pd = r.pd
        BY <1>0, <2>1, GotoSession
      <4>1. pc = "make formatter" /\ request = "make disk" /\ session'[t].pd = r.pd
        <5>1. session'[s].pc = "make formatter"
          BY <3>1
        <5>2. Idle.pc # "make formatter"
          BY DEF Idle
        <5>3. session'[s].pc = pc /\ session'[s].pd = r.pd
          BY <4>0, <5>1, <5>2
        <5> QED BY <1>2, <3>1, <5>1, <5>3
      <4>2. disk[r.pd] = "absent" /\ disk' = [disk EXCEPT ![r.pd] = "raw"] /\ vm' = vm
        BY <2>1, <4>1 DEF Perform, Accepts, MakesDisk
      <4>3. Detached(r.pd)
        <5> SUFFICES ASSUME NEW n \in Names, vm[n].pd = r.pd PROVE FALSE
          BY DEF Detached
        <5>1. vm[n] # NoVm
          BY <1>0, <2>2, Typing, NamesAssumption
        <5> QED BY <1>0, <4>2, <5>1 DEF Attached
      <4> QED BY <1>0, <2>2, <4>1, <4>2, <4>3 DEF Detached, TypeOK
    <3>2. CASE t # s
      <4>1. session'[t] = session[t] /\ session[t].pc = "make formatter"
        BY <1>0, <2>1, <3>2, GotoSession
      <4>2. disk[session[t].pd] = "raw" /\ Detached(session[t].pd)
        BY <1>0, <4>1 DEF ReadyToFormat, At
      <4>3. session[t].pd # r.pd /\ session[t].pd \in Disks
        BY <1>0, <2>1, <3>2, <4>1, Typing DEF Apart, Active
      <4>4. disk'[session[t].pd] = "raw"
        BY <1>0, <2>1, <4>2, <4>3, PerformReach
      <4>5. \A n \in Names : vm'[n].pd # session[t].pd
        <5>1. \A n \in Names : vm'[n].pd \in {vm[n].pd, r.pd, NoDisk}
          BY <1>0, <2>1, PerformReach
        <5> QED BY <4>2, <4>3, <5>1, NamesAssumption DEF Detached
      <4> QED BY <4>1, <4>4, <4>5
    <3> QED BY <3>1, <3>2
  <2> QED BY <1>0, <1>2, <2>3, <2>4, <2>5 DEF Call
<1>3. ASSUME NEW s \in Sessions, NEW pc \in Looks, NEW n \in Names, NEW d \in Disks,
             Begin(s, pc, n, d)
      PROVE  Apart' /\ Attached' /\ FormattersAreHarmless' /\ ReadyToFormat' /\ lingering' = {}
  <2>1. /\ session' = [session EXCEPT ![s] = [pc |-> pc, name |-> n, pd |-> d]]
        /\ \A t \in Sessions : session[t].name # n /\ session[t].pd # d
        /\ UNCHANGED <<disk, vm, lingering>>
    BY <1>3 DEF Begin, Exclusive
  <2>2. Apart'
    BY <1>0, <2>1 DEF Apart, Active, TypeOK
  <2>3. ReadyToFormat'
    BY <1>0, <2>1 DEF ReadyToFormat, At, Detached, TypeOK, Looks
  <2> QED BY <1>0, <2>1, <2>2, <2>3 DEF Attached, FormattersAreHarmless
<1>4. ASSUME NEW n \in Names, VmStep(n)
      PROVE  Apart' /\ Attached' /\ FormattersAreHarmless' /\ ReadyToFormat' /\ lingering' = {}
  <2>1. UNCHANGED <<session, lingering>> /\ vm[n] # NoVm
    BY <1>4 DEF VmStep
  <2>0. /\ \A m \in Names : /\ vm'[m].pd = vm[m].pd /\ vm'[m].role = vm[m].role
                            /\ m # n => vm'[m] = vm[m]
        /\ \A d \in Disks : d # vm[n].pd => disk'[d] = disk[d]
        /\ \/ disk'[vm[n].pd] = disk[vm[n].pd]
           \/ vm[n].role = "formatter" /\ disk'[vm[n].pd] = "ext4"
           \/ vm[n].role = "machine" /\ disk'[vm[n].pd] = "data"
    <3>1. TypeOK /\ VmStep(n)
      BY <1>0, <1>4
    <3> QED BY <3>1, VmStepFacts
  <2>2. Attached'
    <3>1. \A m \in Names : vm'[m] # NoVm => vm[m] # NoVm
      BY <2>1, <2>0
    <3>2. \A m \in Names : vm[m] # NoVm => disk'[vm[m].pd] # "absent"
      <4> SUFFICES ASSUME NEW m \in Names, vm[m] # NoVm PROVE disk'[vm[m].pd] # "absent"
        OBVIOUS
      <4>1. disk[vm[m].pd] # "absent" /\ vm[m].pd \in Disks
        BY <1>0, Typing DEF Attached
      <4> QED BY <4>1, <2>0
    <3>3. \A m \in Names : vm[m] # NoVm =>
            \A k \in Names : vm[k].pd = vm[m].pd => k = m
      BY <1>0 DEF Attached
    <3>4. \A m \in Names : vm'[m].pd = vm[m].pd
      BY <2>0
    <3> QED BY <3>1, <3>2, <3>3, <3>4 DEF Attached
  <2>3. FormattersAreHarmless'
    <3>0. \A m \in Names : vm'[m].pd = vm[m].pd /\ vm'[m].role = vm[m].role
      BY <2>0
    <3> SUFFICES ASSUME NEW m \in Names, vm[m].role = "formatter"
                 PROVE  disk'[vm[m].pd] # "data"
      BY <3>0 DEF FormattersAreHarmless
    <3>1. disk[vm[m].pd] # "data" /\ vm[m].pd \in Disks /\ vm[m] # NoVm
      BY <1>0 DEF FormattersAreHarmless, TypeOK, Vms, NoVm
    <3>2. vm[m].pd = vm[n].pd => m = n
      BY <1>0, <2>1 DEF Attached
    <3> QED BY <2>0, <3>1, <3>2
  <2>4. ReadyToFormat'
    <3> SUFFICES ASSUME NEW t \in Sessions, session[t].pc = "make formatter"
                 PROVE  /\ disk'[session[t].pd] = "raw"
                        /\ \A m \in Names : vm'[m].pd # session[t].pd
      BY <2>1 DEF ReadyToFormat, At, Detached
    <3>1. disk[session[t].pd] = "raw" /\ Detached(session[t].pd)
      BY <1>0 DEF ReadyToFormat, At
    <3>2. session[t].pd \in Disks
      BY <1>0, Typing DEF Active
    <3> QED BY <2>0, <3>1, <3>2 DEF Detached
  <2> QED BY <1>0, <2>1, <2>2, <2>3, <2>4 DEF Apart, Active
<1>5. ASSUME UNCHANGED <<disk, vm, session, lingering>>
      PROVE  Apart' /\ Attached' /\ FormattersAreHarmless' /\ ReadyToFormat' /\ lingering' = {}
  BY <1>0, <1>5 DEF Apart, Active, Attached, FormattersAreHarmless, ReadyToFormat, At, Detached
<1>6. TypeOK'
  BY <1>0, TypeStep
<1> QED BY <1>0, <1>1, <1>2, <1>3, <1>4, <1>5, <1>6, Shapes DEF Exclusive, HomeInv

LEMMA HomeInit == Init => HomeInv
<1> SUFFICES ASSUME Init PROVE HomeInv
  OBVIOUS
<1>1. \A n \in Names : vm[n] = NoVm
  BY DEF Init
<1>2. \A s \in Sessions : session[s].pc = "idle"
  BY DEF Init, Idle
<1>3. Attached /\ FormattersAreHarmless
  BY <1>1 DEF Attached, FormattersAreHarmless, NoVm
<1>4. Apart /\ ReadyToFormat /\ lingering = {}
  BY <1>2 DEF Init, Apart, Active, ReadyToFormat, At
<1> QED BY <1>3, <1>4, TypeInit DEF HomeInv

\* With sessions that keep apart and requests that do not linger, no command
\* and no temporary instance ever formats a disk on which somebody has saved
\* data, even if sessions die at any step (create.py, up.py).
THEOREM SavedDataSurvives ==
  ASSUME Exclusive
  PROVE  Spec => HomesSurvive
<1>1. Init => HomeInv
  BY HomeInit
<1>2. HomeInv /\ [Next]_vars => HomeInv'
  BY HomeStep
<1>3. HomeInv /\ [Next]_vars =>
        [\A d \in Disks : disk[d] = "data" => disk'[d] \in {"data", "absent"}]_vars
  <2> SUFFICES ASSUME HomeInv, [Next]_vars, NEW d \in Disks, disk[d] = "data"
               PROVE  disk'[d] \in {"data", "absent"}
    OBVIOUS
  <2>1. TypeOK /\ Attached /\ FormattersAreHarmless /\ lingering = {} /\ ~Linger
    BY DEF HomeInv, Exclusive
  <2>2. ASSUME NEW s \in Sessions, NEW request \in Requests, NEW pc \in Steps,
               Call(s, request, pc)
        PROVE  disk'[d] \in {"data", "absent"}
    BY <2>1, <2>2, InCommand, PerformKeepsData DEF Call, At, Requests
  <2>3. ASSUME NEW n \in Names, VmStep(n) PROVE disk'[d] \in {"data", "absent"}
    BY <2>1, <2>3, VmStepFacts DEF FormattersAreHarmless
  <2> QED BY <2>1, <2>2, <2>3, Shapes DEF Begin
<1> QED BY <1>1, <1>2, <1>3, PTL DEF Spec, HomesSurvive

----------------------------------------------------------------------------
(* The promise of Environment.  Lifecycle keeps it for any names, disks    *)
(* and sessions and any number of faults, as long as sessions keep out of  *)
(* each other's way and no request outlives its session.                   *)

\* The steps of create; those at which the disk has been made; those of all
\* commands at which the name is known to have no instance.
Creating == {"find disk", "find vm", "make disk", "make formatter", "wait for format",
             "delete formatter", "write config"}
Made == {"make formatter", "wait for format", "delete formatter", "write config"}
Cleared == {"write config", "delete disk", "forget config"}

\* What a session read of the config at its beginning still holds.
ConfigRemembered ==
  \A s \in Sessions : Active(s) =>
    config[session[s].name] = IF session[s].pc \in Creating THEN NoDisk ELSE session[s].pd

NameCleared ==
  \A s \in Sessions : session[s].pc \in Cleared => vm[session[s].name] = NoVm

DiskMade ==
  \A s \in Sessions : session[s].pc \in Made => disk[session[s].pd] # "absent"

DiskGone ==
  \A s \in Sessions : At(s, "forget config") => disk[session[s].pd] = "absent"

SessionInv ==
  /\ ConfigRemembered /\ NameCleared /\ DiskMade /\ DiskGone
  /\ MachinesAreManaged /\ FormattersAreUnmanaged

CommandInv == HomeInv /\ SessionInv

----------------------------------------------------------------------------
(* What a step can be.                                                     *)

\* A session moves on without touching anything: within its command, or out
\* of it.
Moves(s, pc) ==
  /\ Active(s) /\ Goto(s, pc) /\ UNCHANGED <<config, disk, vm, lingering>>
  /\ pc # "idle" =>
       /\ pc \in Creating <=> session[s].pc \in Creating
       /\ pc \in Made => session[s].pc \in Made
       /\ pc \in Cleared => pc = "delete disk" /\ Status(s) = "NONE"

\* A call of a session is served, and the session moves on.
Serves(s, request, pc) ==
  /\ Call(s, request, pc)
  /\ pc # "idle" =>
       /\ pc \in Creating <=> request \in Creating
       /\ pc \in Made => request \in Made \/ request = "make disk"
       /\ pc \in Cleared => \/ request = "delete formatter" /\ pc = "write config"
                            \/ request = "delete disk" /\ pc = "forget config"

LEMMA CommandShapes ==
  ASSUME TypeOK, lingering = {}, ~Linger, [Next]_vars
  PROVE  \/ \E s \in Sessions, pc \in Steps : Moves(s, pc)
         \/ \E s \in Sessions, request \in Requests, pc \in Steps : Serves(s, request, pc)
         \/ \E s \in Sessions : WriteConfig(s) \/ ForgetConfig(s)
         \/ \E s \in Sessions, n \in Names, d \in Disks : BeginCreate(s, n, d)
         \/ \E s \in Sessions, n \in Names, pc \in Looks \ {"find disk", "find vm"} :
              BeginOn(s, pc, n)
         \/ \E n \in Names : VmStep(n)
         \/ UNCHANGED <<config, disk, vm, session, lingering>>
<1> DEFINE Moving(s) == \E pc \in Steps : Moves(s, pc)
           Calling(s) == \E request \in Requests, pc \in Steps : Serves(s, request, pc)
           Writing(s) == WriteConfig(s) \/ ForgetConfig(s)
<1>1. ASSUME NEW s \in Sessions, Start(s)
      PROVE  \E n \in Names :
               \/ \E d \in Disks : BeginCreate(s, n, d)
               \/ \E pc \in Looks \ {"find disk", "find vm"} : BeginOn(s, pc, n)
  BY <1>1 DEF Start, BeginUp, BeginDown, BeginDelete, Looks
<1>2. ASSUME NEW s \in Sessions, Proceed(s) PROVE Moving(s) \/ Calling(s) \/ Writing(s)
  <2>1. ASSUME NEW pc \in Steps, Active(s), Look(s, pc),
               pc # "idle" =>
                 /\ pc \in Creating <=> session[s].pc \in Creating
                 /\ pc \in Made => session[s].pc \in Made
                 /\ pc \in Cleared => pc = "delete disk" /\ Status(s) = "NONE"
        PROVE  Moving(s)
    BY <2>1 DEF Look, Moves
  <2>2. ASSUME NEW request \in Requests, NEW pc \in Steps, Call(s, request, pc),
               pc # "idle" =>
                 /\ pc \in Creating <=> request \in Creating
                 /\ pc \in Made => request \in Made \/ request = "make disk"
                 /\ pc \in Cleared => \/ request = "delete formatter" /\ pc = "write config"
                                      \/ request = "delete disk" /\ pc = "forget config"
        PROVE  Calling(s)
    BY <2>2 DEF Serves
  <2>3. Deadline(s) => Moving(s)
    <3>1. ASSUME Deadline(s), At(s, "wait for stop") PROVE Moves(s, "delete vm")
      BY <3>1 DEF Deadline, Moves, At, Active, Creating, Made, Cleared
    <3>2. ASSUME Deadline(s), ~At(s, "wait for stop") PROVE Moves(s, "idle")
      BY <3>2 DEF Deadline, Moves, At, Active, Waits
    <3> QED BY <3>1, <3>2 DEF Steps, Requests
  <2> HIDE DEF Moving, Calling, Writing
  <2>4. CreateSteps(s) => Moving(s) \/ Calling(s) \/ Writing(s)
    <3>1. FindDisk(s) \/ FindVm(s) \/ WaitForFormat(s) => Moving(s)
      BY <2>1 DEF FindDisk, FindVm, WaitForFormat, At, Active, Steps, Requests, Looks,
                  Waits, Creating, Made, Cleared
    <3>2. MakeDisk(s) \/ MakeFormatter(s) \/ DeleteFormatter(s) => Calling(s)
      BY <2>2 DEF MakeDisk, MakeFormatter, DeleteFormatter, Steps, Requests, Waits,
                  Writes, Creating, Made, Cleared
    <3> QED BY <3>1, <3>2 DEF CreateSteps, Writing
  <2>5. UpSteps(s) => Moving(s) \/ Calling(s)
    <3>1. LookUp(s) \/ WaitForStart(s) => Moving(s)
      BY <2>1 DEF LookUp, NextOfUp, WaitForStart, At, Active, Steps, Requests, Looks,
                  Waits, Creating, Made, Cleared
    <3>2. CreateVm(s) \/ StartVm(s) \/ ResumeVm(s) => Calling(s)
      BY <2>2 DEF CreateVm, StartVm, ResumeVm, Steps, Requests, Waits, Creating, Made, Cleared
    <3> QED BY <3>1, <3>2 DEF UpSteps
  <2>6. DownSteps(s) => Moving(s) \/ Calling(s)
    <3>1. LookDown(s) \/ ShutDownTimesOut(s) \/ WaitForStop(s) => Moving(s)
      BY <2>1 DEF LookDown, ShutDownTimesOut, WaitForStop, At, Active, Steps, Requests,
                  Looks, Waits, Creating, Made, Cleared
    <3>2. ShutDown(s) \/ DeleteVm(s) => Calling(s)
      BY <2>2 DEF ShutDown, DeleteVm, Steps, Requests, Waits, Creating, Made, Cleared
    <3> QED BY <3>1, <3>2 DEF DownSteps
  <2>7. DeleteSteps(s) => Moving(s) \/ Calling(s) \/ Writing(s)
    <3>1. LookDelete(s) => Moving(s)
      BY <2>1 DEF LookDelete, At, Active, Steps, Requests, Looks, Creating, Made, Cleared
    <3>2. DeleteDisk(s) => Calling(s)
      BY <2>2 DEF DeleteDisk, Steps, Requests, Writes, Creating, Made, Cleared
    <3> QED BY <3>1, <3>2 DEF DeleteSteps, Writing
  <2>8. Refused(s) => Moving(s)
    BY <2>1 DEF Refused, Active, Steps, Requests
  <2> QED BY <1>2, <2>3, <2>4, <2>5, <2>6, <2>7, <2>8 DEF Proceed
<1>3. ASSUME NEW s \in Sessions, Interrupt(s) PROVE Moving(s)
  BY <1>3 DEF Interrupt, At, Active, Moves, Steps
<1>4. UNCHANGED vars => UNCHANGED <<config, disk, vm, session, lingering>>
  BY DEF vars
<1> QED BY <1>1, <1>2, <1>3, <1>4, VmSteps DEF Next

----------------------------------------------------------------------------
(* The invariant.                                                          *)

\* Another session's name and disk are not those of this one.
LEMMA Others ==
  ASSUME HomeInv, NEW s \in Sessions, Active(s),
         NEW t \in Sessions, t # s, Active(t)
  PROVE  session[t].name # session[s].name /\ session[t].pd # session[s].pd
BY DEF HomeInv, Apart

LEMMA MovesKeep ==
  ASSUME CommandInv, NEW s \in Sessions, NEW pc \in Steps, Moves(s, pc)
  PROVE  SessionInv'
<1>1. TypeOK /\ Active(s) /\ Goto(s, pc) /\ config' = config /\ disk' = disk /\ vm' = vm
  BY DEF Moves, CommandInv, HomeInv
<1>2. MachinesAreManaged' /\ FormattersAreUnmanaged'
  BY <1>1 DEF CommandInv, SessionInv, MachinesAreManaged, FormattersAreUnmanaged
<1>3. \A t \in Sessions \ {s} : session'[t] = session[t]
  BY <1>1, GotoSession
<1>4. CASE pc = "idle"
  <2>1. session'[s].pc = "idle"
    BY <1>1, <1>4, GotoSession DEF Idle
  <2> QED BY <1>1, <1>2, <1>3, <2>1
          DEF CommandInv, SessionInv, ConfigRemembered, NameCleared, DiskMade,
              DiskGone, Active, At, Made, Cleared
<1>5. CASE pc # "idle"
  <2>1. /\ session'[s].pc = pc /\ session'[s].name = session[s].name
        /\ session'[s].pd = session[s].pd
    BY <1>1, <1>5, GotoSession
  <2>2. /\ pc \in Creating <=> session[s].pc \in Creating
        /\ pc \in Made => session[s].pc \in Made
        /\ pc \in Cleared => pc = "delete disk" /\ Status(s) = "NONE"
    BY <1>5 DEF Moves
  <2>3. ConfigRemembered'
    BY <1>1, <1>3, <2>1, <2>2 DEF CommandInv, SessionInv, ConfigRemembered, Active
  <2>4. NameCleared'
    <3>1. session[s].name \in Names
      BY <1>1, Typing
    <3>2. pc \in Cleared => vm[session[s].name] = NoVm
      BY <1>1, <2>2, <3>1 DEF Status, TypeOK, Vms
    <3> QED BY <1>1, <1>3, <2>1, <3>2 DEF CommandInv, SessionInv, NameCleared
  <2>5. DiskMade' /\ DiskGone'
    BY <1>1, <1>3, <2>1, <2>2 DEF CommandInv, SessionInv, DiskMade, DiskGone, At, Cleared
  <2> QED BY <1>2, <2>3, <2>4, <2>5 DEF SessionInv
<1> QED BY <1>4, <1>5

\* What a served request does to VMs: at most the one of its name, which it
\* deletes, makes as the kind of VM it is about, or changes in its status.
LEMMA PerformName ==
  ASSUME TypeOK, NEW r \in Commands, Perform(r)
  PROVE  /\ \A n \in Names \ {r.name} : vm'[n] = vm[n]
         /\ \/ vm'[r.name].role = vm[r.name].role /\ vm'[r.name].pd = vm[r.name].pd
            \/ vm'[r.name] = NoVm
            \/ r.pc = "make formatter" /\ vm'[r.name].role = "formatter"
            \/ r.pc = "create vm" /\ vm'[r.name].role = "machine" /\ vm'[r.name].pd = r.pd
<1>1. r.name \in Names
  BY DEF Commands
<1>2. CASE vm' = vm
  BY <1>2
<1>3. CASE \E status : SetStatus(r.name, status)
  BY <1>1, <1>3, SetStatusKeeps
<1>4. CASE r.pc = "make formatter" /\ Boots(r, "formatter")
  BY <1>1, <1>4 DEF Boots, TypeOK
<1>5. CASE r.pc = "create vm" /\ Boots(r, "machine")
  BY <1>1, <1>5 DEF Boots, TypeOK
<1>6. CASE DeletesVm(r)
  BY <1>1, <1>6 DEF DeletesVm, TypeOK
<1> QED BY <1>2, <1>3, <1>4, <1>5, <1>6 DEF Perform, MakesDisk, DeletesDisk

LEMMA ServesKeeps ==
  ASSUME CommandInv, NEW s \in Sessions, NEW request \in Requests, NEW pc \in Steps,
         Serves(s, request, pc)
  PROVE  SessionInv'
<1> DEFINE r == session[s]
<1>1. TypeOK /\ HomeInv /\ SessionInv
  BY DEF CommandInv, HomeInv
<1>2. /\ Active(s) /\ r.pc = request /\ Perform(r) /\ Goto(s, pc)
      /\ config' = config
  BY DEF Serves, Call, At, Active, Requests
<1>3. r \in Commands /\ r.name \in Names /\ r.pd \in Disks
  BY <1>1, <1>2, Typing
<1>4. config[r.name] = IF request \in Creating THEN NoDisk ELSE r.pd
  BY <1>1, <1>2 DEF SessionInv, ConfigRemembered
<1>5. /\ \A n \in Names \ {r.name} : vm'[n] = vm[n]
      /\ \A d \in Disks \ {r.pd} : disk'[d] = disk[d]
  BY <1>1, <1>2, <1>3, PerformName, PerformReach
<1>6. MachinesAreManaged' /\ FormattersAreUnmanaged'
  <2> SUFFICES ASSUME NEW n \in Names
               PROVE  /\ vm'[n].role = "machine" => config[n] = vm'[n].pd
                      /\ vm'[n].role = "formatter" => config[n] = NoDisk
    BY <1>2 DEF MachinesAreManaged, FormattersAreUnmanaged
  <2>1. /\ vm[n].role = "machine" => config[n] = vm[n].pd
        /\ vm[n].role = "formatter" => config[n] = NoDisk
    BY <1>1 DEF SessionInv, MachinesAreManaged, FormattersAreUnmanaged
  <2>2. CASE n # r.name
    BY <1>5, <2>1, <2>2
  <2>3. CASE n = r.name
    <3>1. \/ vm'[n].role = vm[n].role /\ vm'[n].pd = vm[n].pd
          \/ vm'[n] = NoVm
          \/ r.pc = "make formatter" /\ vm'[n].role = "formatter"
          \/ r.pc = "create vm" /\ vm'[n].role = "machine" /\ vm'[n].pd = r.pd
      BY <1>1, <1>2, <1>3, <2>3, PerformName
    <3>2. r.pc = "make formatter" => config[n] = NoDisk
      BY <1>2, <1>4, <2>3 DEF Creating
    <3>3. r.pc = "create vm" => config[n] = r.pd
      BY <1>2, <1>4, <2>3 DEF Creating
    <3>4. NoVm.role \notin {"machine", "formatter"}
      BY DEF NoVm
    <3> QED BY <2>1, <3>1, <3>2, <3>3, <3>4
  <2> QED BY <2>2, <2>3
<1>7. \A t \in Sessions \ {s} : session'[t] = session[t]
  BY <1>1, <1>2, GotoSession
<1>8. ASSUME NEW t \in Sessions, t # s, Active(t)
      PROVE  /\ vm'[session[t].name] = vm[session[t].name]
             /\ disk'[session[t].pd] = disk[session[t].pd]
  <2>1. session[t].name \in Names /\ session[t].pd \in Disks
    BY <1>1, <1>8, Typing
  <2> QED BY <1>1, <1>2, <1>5, <1>8, <2>1, Others
<1>9. ASSUME NEW t \in Sessions, t # s
      PROVE  /\ session'[t].pc \in Cleared => vm'[session'[t].name] = NoVm
             /\ session'[t].pc \in Made => disk'[session'[t].pd] # "absent"
             /\ session'[t].pc = "forget config" => disk'[session'[t].pd] = "absent"
  <2>1. session'[t] = session[t]
    BY <1>7, <1>9
  <2>2. session[t].pc \in Cleared \union Made \union {"forget config"} => Active(t)
    BY DEF Active, Cleared, Made
  <2>3. /\ session[t].pc \in Cleared => vm[session[t].name] = NoVm
        /\ session[t].pc \in Made => disk[session[t].pd] # "absent"
        /\ session[t].pc = "forget config" => disk[session[t].pd] = "absent"
    BY <1>1 DEF SessionInv, NameCleared, DiskMade, DiskGone, At
  <2> QED BY <1>8, <1>9, <2>1, <2>2, <2>3
<1>10. CASE pc = "idle"
  <2>1. session'[s].pc = "idle"
    BY <1>1, <1>2, <1>10, GotoSession DEF Idle
  <2>2. ConfigRemembered'
    <3> SUFFICES ASSUME NEW t \in Sessions, session'[t].pc # "idle"
                 PROVE  config[session'[t].name] =
                          IF session'[t].pc \in Creating THEN NoDisk ELSE session'[t].pd
      BY <1>2 DEF ConfigRemembered, Active
    <3>1. session'[t] = session[t]
      BY <1>7, <2>1
    <3> QED BY <1>1, <3>1 DEF SessionInv, ConfigRemembered, Active
  <2>3. NameCleared' /\ DiskMade' /\ DiskGone'
    BY <1>9, <2>1 DEF NameCleared, DiskMade, DiskGone, At, Made, Cleared
  <2> QED BY <1>6, <2>2, <2>3 DEF SessionInv
<1>11. CASE pc # "idle"
  <2>1. session'[s].pc = pc /\ session'[s].name = r.name /\ session'[s].pd = r.pd
    BY <1>1, <1>2, <1>11, GotoSession
  <2>2. /\ pc \in Creating <=> request \in Creating
        /\ pc \in Made => request \in Made \/ request = "make disk"
        /\ pc \in Cleared => \/ request = "delete formatter" /\ pc = "write config"
                             \/ request = "delete disk" /\ pc = "forget config"
    BY <1>11 DEF Serves
  <2>3. ConfigRemembered'
    BY <1>1, <1>2, <1>7, <2>1, <2>2 DEF SessionInv, ConfigRemembered, Active
  <2>4. pc \in Cleared => vm'[r.name] = NoVm
    <3>1. request = "delete formatter" => vm'[r.name] = NoVm
      BY <1>1, <1>2, <1>3 DEF Perform, DeletesVm, TypeOK
    <3>2. request = "delete disk" => vm'[r.name] = NoVm
      BY <1>1, <1>2 DEF Perform, DeletesDisk, SessionInv, NameCleared, Cleared
    <3> QED BY <2>2, <3>1, <3>2
  <2>5. pc \in Made => disk'[r.pd] # "absent"
    <3>1. request = "make disk" => disk'[r.pd] # "absent"
      BY <1>1, <1>2, <1>3 DEF Perform, MakesDisk, TypeOK
    <3>2. request \in Made => disk'[r.pd] # "absent"
      <4>1. request \in Made => request \in {"make formatter", "delete formatter"}
        BY DEF Made, Requests
      <4>2. request \in {"make formatter", "delete formatter"} => disk' = disk
        BY <1>2 DEF Perform, DeletesVm
      <4>3. request \in Made => disk[r.pd] # "absent"
        BY <1>1, <1>2 DEF SessionInv, DiskMade
      <4> QED BY <4>1, <4>2, <4>3
    <3> QED BY <2>2, <3>1, <3>2
  <2>6. pc = "forget config" => disk'[r.pd] = "absent"
    BY <1>1, <1>2, <1>3, <2>2 DEF Perform, DeletesDisk, TypeOK, Cleared
  <2>7. NameCleared' /\ DiskMade' /\ DiskGone'
    BY <1>9, <2>1, <2>4, <2>5, <2>6 DEF NameCleared, DiskMade, DiskGone, At
  <2> QED BY <1>6, <2>3, <2>7 DEF SessionInv
<1> QED BY <1>10, <1>11

LEMMA WritesKeep ==
  ASSUME CommandInv, NEW s \in Sessions, WriteConfig(s) \/ ForgetConfig(s)
  PROVE  SessionInv'
<1> DEFINE r == session[s]
<1>1. TypeOK /\ HomeInv /\ SessionInv
  BY DEF CommandInv, HomeInv
<1>2. /\ Active(s) /\ Goto(s, "idle") /\ r.pc \in Cleared
      /\ disk' = disk /\ vm' = vm
  BY DEF WriteConfig, ForgetConfig, At, Active, Cleared
<1>3. \A n \in Names \ {r.name} : config'[n] = config[n]
  BY <1>1 DEF WriteConfig, ForgetConfig, TypeOK
<1>4. vm[r.name] = NoVm
  BY <1>1, <1>2 DEF SessionInv, NameCleared
<1>5. MachinesAreManaged' /\ FormattersAreUnmanaged'
  <2> SUFFICES ASSUME NEW n \in Names
               PROVE  /\ vm[n].role = "machine" => config'[n] = vm[n].pd
                      /\ vm[n].role = "formatter" => config'[n] = NoDisk
    BY <1>2 DEF MachinesAreManaged, FormattersAreUnmanaged
  <2>1. CASE n # r.name
    BY <1>1, <1>3, <2>1 DEF SessionInv, MachinesAreManaged, FormattersAreUnmanaged
  <2>2. CASE n = r.name
    BY <1>4, <2>2 DEF NoVm
  <2> QED BY <2>1, <2>2
<1>6. /\ \A t \in Sessions \ {s} : session'[t] = session[t]
      /\ session'[s].pc = "idle"
  BY <1>1, <1>2, GotoSession DEF Steps, Idle
<1>7. ConfigRemembered'
  <2> SUFFICES ASSUME NEW t \in Sessions, session'[t].pc # "idle"
               PROVE  config'[session'[t].name] =
                        IF session'[t].pc \in Creating THEN NoDisk ELSE session'[t].pd
    BY DEF ConfigRemembered, Active
  <2>1. t # s /\ session'[t] = session[t] /\ Active(t)
    BY <1>6 DEF Active
  <2>2. session[t].name \in Names \ {r.name}
    BY <1>1, <1>2, <2>1, Typing, Others
  <2> QED BY <1>1, <1>3, <2>1, <2>2 DEF SessionInv, ConfigRemembered
<1>8. NameCleared' /\ DiskMade' /\ DiskGone'
  BY <1>1, <1>2, <1>6 DEF SessionInv, NameCleared, DiskMade, DiskGone, At, Made, Cleared
<1> QED BY <1>5, <1>7, <1>8 DEF SessionInv

LEMMA BeginsKeep ==
  ASSUME CommandInv, NEW s \in Sessions, NEW pc \in Looks,
         NEW n \in Names, NEW d \in Disks, Begin(s, pc, n, d),
         config[n] = IF pc \in Creating THEN NoDisk ELSE d
  PROVE  SessionInv'
<1>1. TypeOK /\ SessionInv
  BY DEF CommandInv, HomeInv
<1>2. config' = config /\ disk' = disk /\ vm' = vm
  BY DEF Begin
<1>3. /\ \A t \in Sessions \ {s} : session'[t] = session[t]
      /\ session'[s].pc = pc /\ session'[s].name = n /\ session'[s].pd = d
  BY <1>1 DEF Begin, TypeOK
<1>4. MachinesAreManaged' /\ FormattersAreUnmanaged'
  BY <1>1, <1>2 DEF SessionInv, MachinesAreManaged, FormattersAreUnmanaged
<1>5. ConfigRemembered'
  BY <1>1, <1>2, <1>3 DEF SessionInv, ConfigRemembered, Active
<1>6. NameCleared' /\ DiskMade' /\ DiskGone'
  BY <1>1, <1>2, <1>3
     DEF SessionInv, NameCleared, DiskMade, DiskGone, At, Made, Cleared, Looks
<1> QED BY <1>4, <1>5, <1>6 DEF SessionInv

LEMMA VmStepKeeps ==
  ASSUME CommandInv, NEW n \in Names, VmStep(n)
  PROVE  SessionInv'
<1>1. TypeOK /\ Attached /\ SessionInv
  BY DEF CommandInv, HomeInv
<1>2. config' = config /\ session' = session /\ vm[n] # NoVm
  BY DEF VmStep
<1>3. /\ \A m \in Names : vm'[m].pd = vm[m].pd /\ vm'[m].role = vm[m].role
      /\ \A m \in Names \ {n} : vm'[m] = vm[m]
      /\ \A d \in Disks \ {vm[n].pd} : disk'[d] = disk[d]
  BY <1>1, VmStepFacts
<1>4. disk[vm[n].pd] # "absent" /\ disk'[vm[n].pd] # "absent"
  BY <1>1, <1>2, VmStepFacts DEF Attached
<1>5. MachinesAreManaged' /\ FormattersAreUnmanaged'
  BY <1>1, <1>2, <1>3 DEF SessionInv, MachinesAreManaged, FormattersAreUnmanaged
<1>6. ConfigRemembered'
  BY <1>1, <1>2 DEF SessionInv, ConfigRemembered, Active
<1>7. ASSUME NEW s \in Sessions, Active(s)
      PROVE  session[s].name \in Names /\ session[s].pd \in Disks
  BY <1>1, <1>7, Typing
<1>8. NameCleared'
  BY <1>1, <1>2, <1>3, <1>7 DEF SessionInv, NameCleared, Cleared, Active
<1>9. DiskMade' /\ DiskGone'
  BY <1>1, <1>2, <1>3, <1>4, <1>7 DEF SessionInv, DiskMade, DiskGone, At, Made, Active
<1> QED BY <1>5, <1>6, <1>8, <1>9 DEF SessionInv

LEMMA CommandInit == Init => CommandInv
<1> SUFFICES ASSUME Init PROVE CommandInv
  OBVIOUS
<1>1. \A n \in Names : vm[n] = NoVm
  BY DEF Init
<1>2. \A s \in Sessions : session[s].pc = "idle"
  BY DEF Init, Idle
<1>3. MachinesAreManaged /\ FormattersAreUnmanaged
  BY <1>1 DEF MachinesAreManaged, FormattersAreUnmanaged, NoVm
<1>4. ConfigRemembered /\ NameCleared /\ DiskMade /\ DiskGone
  BY <1>2 DEF ConfigRemembered, NameCleared, DiskMade, DiskGone, Active, At, Made, Cleared
<1> QED BY <1>3, <1>4, HomeInit DEF CommandInv, SessionInv

LEMMA CommandStep ==
  ASSUME Exclusive, CommandInv, [Next]_vars
  PROVE  CommandInv'
<1>1. HomeInv /\ SessionInv /\ TypeOK /\ lingering = {} /\ ~Linger
  BY DEF CommandInv, HomeInv, Exclusive
<1>2. HomeInv'
  BY <1>1, HomeStep
<1>3. ASSUME NEW s \in Sessions, NEW n \in Names, NEW d \in Disks, BeginCreate(s, n, d)
      PROVE  SessionInv'
  BY <1>3, BeginsKeep DEF BeginCreate, Looks, Creating
<1>4. ASSUME NEW s \in Sessions, NEW n \in Names, NEW pc \in Looks \ {"find disk", "find vm"},
             BeginOn(s, pc, n)
      PROVE  SessionInv'
  <2>1. config[n] \in Disks /\ Begin(s, pc, n, config[n])
    BY <1>1, <1>4 DEF BeginOn, TypeOK
  <2>2. pc \notin Creating
    BY DEF Looks, Creating
  <2> QED BY <2>1, <2>2, BeginsKeep
<1>5. ASSUME UNCHANGED <<config, disk, vm, session, lingering>> PROVE SessionInv'
  BY <1>1, <1>5
     DEF SessionInv, ConfigRemembered, NameCleared, DiskMade, DiskGone,
         MachinesAreManaged, FormattersAreUnmanaged, Active, At
<1>6. SessionInv'
  BY <1>1, <1>3, <1>4, <1>5, CommandShapes, MovesKeep, ServesKeeps, WritesKeep, VmStepKeeps
<1> QED BY <1>2, <1>6 DEF CommandInv

\* Under sessions that keep apart, every machine belongs to an environment
\* that "hermit down" can find, whatever sessions die on the way (up.py,
\* delete.py).
THEOREM MachinesManaged ==
  ASSUME Exclusive
  PROVE  Spec => []MachinesAreManaged
<1>1. CommandInv /\ [Next]_vars => CommandInv'
  BY CommandStep
<1>2. CommandInv => MachinesAreManaged
  BY DEF CommandInv, SessionInv
<1> QED BY <1>1, <1>2, CommandInit, PTL DEF Spec

\* Under the same conditions no environment ever has the name of a temporary
\* instance, so that no "hermit up" starts one again (create.py, up.py).
THEOREM FormattersUnmanaged ==
  ASSUME Exclusive
  PROVE  Spec => []FormattersAreUnmanaged
<1>1. CommandInv /\ [Next]_vars => CommandInv'
  BY CommandStep
<1>2. CommandInv => FormattersAreUnmanaged
  BY DEF CommandInv, SessionInv
<1> QED BY <1>1, <1>2, CommandInit, PTL DEF Spec

----------------------------------------------------------------------------
(* The refinement.                                                         *)

\* The state of Environment a state stands for.
Home == [d \in Disks |-> CASE disk[d] = "absent" -> "none"
                           [] disk[d] = "data" -> "saved"
                           [] OTHER -> "blank"]
Online == [n \in Names |-> IF vm[n].role = "machine" THEN vm[n].pd ELSE NoDisk]

LEMMA PromiseInit == Init => Promise!Init
BY DEF Init, Promise!Init, NoVm

\* Nothing Environment sees has changed.
LEMMA Stutter ==
  ASSUME config' = config, Home' = Home, Online' = Online
  PROVE  UNCHANGED Promise!vars
BY DEF Promise!vars, Home, Online

LEMMA WriteRegisters ==
  ASSUME CommandInv, NEW s \in Sessions, WriteConfig(s)
  PROVE  Promise!Register(session[s].name, session[s].pd)
<1> DEFINE r == session[s]
<1>1. TypeOK /\ SessionInv /\ Active(s) /\ r.pc = "write config"
  BY DEF CommandInv, HomeInv, WriteConfig, At, Active
<1>2. r.name \in Names /\ r.pd \in Disks
  BY <1>1, Typing
<1>3. config[r.name] = NoDisk /\ disk[r.pd] # "absent"
  BY <1>1 DEF SessionInv, ConfigRemembered, DiskMade, Creating, Made
<1>4. config' = [config EXCEPT ![r.name] = r.pd] /\ disk' = disk /\ vm' = vm
  BY DEF WriteConfig
<1> QED BY <1>2, <1>3, <1>4 DEF Promise!Register

LEMMA ForgetForgets ==
  ASSUME CommandInv, NEW s \in Sessions, ForgetConfig(s)
  PROVE  Promise!Forget(session[s].name)
<1> DEFINE r == session[s]
<1>1. TypeOK /\ SessionInv /\ Active(s) /\ r.pc = "forget config"
  BY DEF CommandInv, HomeInv, ForgetConfig, At, Active
<1>2. r.name \in Names /\ r.pd \in Disks
  BY <1>1, Typing
<1>3. config[r.name] = r.pd /\ disk[r.pd] = "absent"
  BY <1>1 DEF SessionInv, ConfigRemembered, DiskGone, Creating, At
<1>4. config' = [config EXCEPT ![r.name] = NoDisk] /\ disk' = disk /\ vm' = vm
  BY DEF ForgetConfig
<1> QED BY <1>2, <1>3, <1>4 DEF Promise!Forget

\* The steps of Environment that a step may be.
Promised == Promise!Next \/ UNCHANGED Promise!vars

LEMMA ServesPromised ==
  ASSUME CommandInv, NEW s \in Sessions, NEW request \in Requests, NEW pc \in Steps,
         Serves(s, request, pc)
  PROVE  Promised
<1> DEFINE r == session[s]
<1>1. TypeOK /\ Attached /\ SessionInv
  BY DEF CommandInv, HomeInv
<1>2. Active(s) /\ r.pc = request /\ Perform(r) /\ Accepts(r) /\ config' = config
  BY DEF Serves, Call, At, Active, Requests, Perform
<1>3. r \in Commands /\ r.name \in Names /\ r.pd \in Disks
  BY <1>1, <1>2, Typing
<1>4. config[r.name] = IF request \in Creating THEN NoDisk ELSE r.pd
  BY <1>1, <1>2 DEF SessionInv, ConfigRemembered
<1>5. CASE request = "make disk"
  <2>1. disk[r.pd] = "absent" /\ disk' = [disk EXCEPT ![r.pd] = "raw"] /\ vm' = vm
    BY <1>2, <1>5 DEF Perform, Accepts, MakesDisk
  <2>2. Promise!Provision(r.pd)
    BY <1>1, <1>2, <1>3, <2>1 DEF Promise!Provision, TypeOK
  <2> QED BY <1>3, <2>2 DEF Promised, Promise!Next, Promise!Provision
<1>6. CASE request = "delete disk"
  <2>1. /\ disk[r.pd] # "absent" /\ Detached(r.pd)
        /\ disk' = [disk EXCEPT ![r.pd] = "absent"] /\ vm' = vm
    BY <1>2, <1>6 DEF Perform, Accepts, DeletesDisk
  <2>2. config[r.name] = r.pd
    BY <1>4, <1>6 DEF Creating
  <2>3. ~Promise!InUse(r.pd)
    BY <1>3, <2>1, NamesAssumption DEF Promise!InUse, Detached
  <2>4. Promise!Erase(r.pd)
    BY <1>1, <1>2, <1>3, <2>1, <2>2, <2>3 DEF Promise!Erase, TypeOK
  <2> QED BY <1>3, <2>4 DEF Promised, Promise!Next, Promise!Erase
<1>7. CASE request = "make formatter"
  <2>1. vm[r.name] = NoVm /\ Boots(r, "formatter") /\ disk' = disk
    BY <1>2, <1>7 DEF Perform, Accepts
  <2>2. Online' = Online
    BY <1>1, <1>3, <2>1 DEF Online, Boots, TypeOK, NoVm
  <2> QED BY <1>2, <2>1, <2>2, Stutter DEF Promised, Home
<1>8. CASE request = "create vm"
  <2>1. /\ vm[r.name] = NoVm /\ disk[r.pd] # "absent" /\ Detached(r.pd)
        /\ Boots(r, "machine") /\ disk' = disk
    BY <1>2, <1>8 DEF Perform, Accepts
  <2>2. config[r.name] = r.pd
    BY <1>4, <1>8 DEF Creating
  <2>3. ~Promise!InUse(r.pd)
    BY <1>3, <2>1, NamesAssumption DEF Promise!InUse, Detached
  <2>4. Online[r.name] = NoDisk /\ Home[r.pd] # "none"
    BY <1>3, <2>1 DEF Online, Home, NoVm
  <2>5. Online' = [Online EXCEPT ![r.name] = r.pd]
    BY <1>1, <1>3, <2>1 DEF Online, Boots, TypeOK
  <2>6. Promise!ComeUp(r.name)
    BY <1>2, <1>3, <2>1, <2>2, <2>3, <2>4, <2>5 DEF Promise!ComeUp, Online, Home
  <2> QED BY <1>3, <2>6 DEF Promised, Promise!Next, Promise!ComeUp
<1>9. CASE request \in {"start vm", "resume vm", "shut down"}
  <2>1. disk' = disk /\ \E status : SetStatus(r.name, status)
    BY <1>2, <1>9 DEF Perform
  <2>2. \A n \in Names : vm'[n].pd = vm[n].pd /\ vm'[n].role = vm[n].role
    BY <1>1, <1>3, <2>1, SetStatusKeeps
  <2> QED BY <1>2, <2>1, <2>2, Stutter DEF Promised, Home, Online
<1>10. CASE request \in {"delete formatter", "delete vm"}
  <2>1. vm' = [vm EXCEPT ![r.name] = NoVm] /\ disk' = disk /\ vm[r.name] # NoVm
    BY <1>2, <1>10 DEF Perform, Accepts, DeletesVm
  <2>2. Online' = [Online EXCEPT ![r.name] = NoDisk]
    BY <1>1, <1>3, <2>1 DEF Online, TypeOK, NoVm
  <2>3. CASE Online[r.name] = NoDisk
    <3>1. Online' = Online
      BY <1>3, <2>2, <2>3 DEF Online
    <3> QED BY <1>2, <2>1, <3>1, Stutter DEF Promised, Home
  <2>4. CASE Online[r.name] # NoDisk
    <3>1. Promise!GoDown(r.name)
      BY <1>2, <2>1, <2>2, <2>4 DEF Promise!GoDown, Online
    <3> QED BY <1>3, <3>1 DEF Promised, Promise!Next, Promise!GoDown
  <2> QED BY <2>3, <2>4
<1> QED BY <1>5, <1>6, <1>7, <1>8, <1>9, <1>10 DEF Requests

LEMMA VmStepPromised ==
  ASSUME CommandInv, NEW n \in Names, VmStep(n)
  PROVE  Promised
<1>1. TypeOK /\ FormattersAreHarmless /\ vm[n] # NoVm /\ config' = config
  BY DEF CommandInv, HomeInv, VmStep
<1>2. vm[n].pd \in Disks
  BY <1>1, VmStepFacts
<1>3. Online' = Online
  BY <1>1, VmStepFacts DEF Online
<1>4. CASE disk' = disk
  BY <1>1, <1>3, <1>4, Stutter DEF Promised, Home
<1>5. CASE vm[n].role = "formatter" /\ disk' = [disk EXCEPT ![vm[n].pd] = "ext4"]
  <2>1. disk[vm[n].pd] # "data"
    BY <1>1, <1>5 DEF FormattersAreHarmless
  <2>2. disk[vm[n].pd] # "absent"
    BY <1>1, VmStepFacts DEF CommandInv, HomeInv, Attached
  <2>3. Home' = Home
    BY <1>1, <1>2, <1>5, <2>1, <2>2 DEF Home, TypeOK
  <2> QED BY <1>1, <1>3, <2>3, Stutter DEF Promised
<1>6. CASE vm[n].role = "machine" /\ disk' = [disk EXCEPT ![vm[n].pd] = "data"]
  <2>1. Online[n] = vm[n].pd
    BY <1>6 DEF Online
  <2>2. Home' = [Home EXCEPT ![vm[n].pd] = "saved"]
    BY <1>1, <1>2, <1>6 DEF Home, TypeOK
  <2>3. Promise!Save(n)
    BY <1>1, <1>2, <1>3, <2>1, <2>2 DEF Promise!Save, Online, Home
  <2> QED BY <2>3 DEF Promised, Promise!Next
<1> QED BY <1>4, <1>5, <1>6 DEF VmStep

\* Lifecycle implements Environment: an environment comes online only on its
\* own home and alone, work is saved only then, a home is destroyed only by
\* delete, and forgotten only after that (README.md; create.py, up.py,
\* down.py, delete.py).
THEOREM PromiseKept ==
  ASSUME Exclusive
  PROVE  Spec => KeepsPromise
<1>1. CommandInv /\ [Next]_vars => CommandInv'
  BY CommandStep
<1>2. ASSUME CommandInv, [Next]_vars PROVE [Promise!Next]_Promise!vars
  <2>1. TypeOK /\ lingering = {} /\ ~Linger
    BY <1>2 DEF CommandInv, HomeInv, Exclusive
  <2>2. UNCHANGED <<config, disk, vm>> => Promised
    BY Stutter DEF Promised, Home, Online
  <2>3. ASSUME NEW s \in Sessions, NEW pc \in Steps, Moves(s, pc) PROVE Promised
    BY <2>2, <2>3 DEF Moves
  <2>4. ASSUME NEW s \in Sessions, WriteConfig(s) \/ ForgetConfig(s) PROVE Promised
    <3>1. session[s].name \in Names /\ session[s].pd \in Disks
      BY <2>1, <2>4, Typing DEF WriteConfig, ForgetConfig, At, Active
    <3> QED BY <1>2, <2>4, <3>1, WriteRegisters, ForgetForgets DEF Promised, Promise!Next
  <2>5. ASSUME NEW s \in Sessions, NEW n \in Names, NEW d \in Disks, BeginCreate(s, n, d)
        PROVE  Promised
    BY <2>2, <2>5 DEF BeginCreate, Begin
  <2>6. ASSUME NEW s \in Sessions, NEW n \in Names, NEW pc \in Looks, BeginOn(s, pc, n)
        PROVE  Promised
    BY <2>2, <2>6 DEF BeginOn, Begin
  <2>7. Promised
    BY <1>2, <2>1, <2>2, <2>3, <2>4, <2>5, <2>6, CommandShapes, ServesPromised,
       VmStepPromised
  <2> QED BY <2>7 DEF Promised
<1> QED BY <1>1, <1>2, CommandInit, PromiseInit, PTL DEF Spec, KeepsPromise, Promise!Spec
=============================================================================
