-------------------------- MODULE LifecycleLeftovers --------------------------
(***************************************************************************)
(* What an interrupted create or delete leaves behind stays, and what no   *)
(* fault has touched has its home: for any names, disks and sessions and   *)
(* any number of faults, as long as sessions keep out of each other's way  *)
(* and no request outlives its session.                                    *)
(***************************************************************************)
EXTENDS LifecycleProofs

\* A step of a session is about that session only.
LEMMA OwnStep ==
  ASSUME NEW s \in Sessions, Start(s) \/ Proceed(s) \/ Interrupt(s)
  PROVE  \E x : session' = [session EXCEPT ![s] = x]
<1>1. ASSUME NEW pc, Goto(s, pc) PROVE \E x : session' = [session EXCEPT ![s] = x]
  BY <1>1 DEF Goto
<1>2. CASE Start(s)
  BY <1>2 DEF Start, BeginCreate, BeginUp, BeginDown, BeginDelete, BeginOn, Begin
<1>3. CASE CreateSteps(s)
  BY <1>1, <1>3 DEF CreateSteps, FindDisk, FindVm, MakeDisk, MakeFormatter, WaitForFormat,
                    DeleteFormatter, WriteConfig, Look, Call
<1>4. CASE UpSteps(s) \/ DownSteps(s)
  BY <1>1, <1>4 DEF UpSteps, LookUp, CreateVm, StartVm, ResumeVm, WaitForStart,
                    DownSteps, LookDown, ShutDown, ShutDownTimesOut, WaitForStop, DeleteVm,
                    Look, Call
<1>5. CASE DeleteSteps(s) \/ Refused(s) \/ Deadline(s) \/ Interrupt(s)
  BY <1>1, <1>5 DEF DeleteSteps, LookDelete, DeleteDisk, ForgetConfig, Refused, Deadline,
                    Interrupt, Look, Call
<1> QED BY <1>2, <1>3, <1>4, <1>5 DEF Proceed

\* A create that finds its disk there goes no further.
LEMMA FoundDisk ==
  ASSUME TypeOK, lingering = {}, NEW s \in Sessions, At(s, "find disk"),
         disk[session[s].pd] # "absent", [Next]_vars
  PROVE  session'[s].pc \in {"idle", "find disk"}
<1>1. session'[s] = session[s] => session'[s].pc \in {"idle", "find disk"}
  BY DEF At
<1>2. ASSUME NEW t \in Sessions, t # s, Start(t) \/ Proceed(t) \/ Interrupt(t)
      PROVE  session'[s] = session[s]
  <2>1. PICK x : session' = [session EXCEPT ![t] = x]
    BY <1>2, OwnStep
  <2> QED BY <1>2, <2>1 DEF TypeOK
<1>3. CASE Goto(s, "idle")
  BY <1>3 DEF Goto, TypeOK, Idle
<1>4. CASE Start(s)
  BY <1>4 DEF Start, BeginCreate, BeginUp, BeginDown, BeginDelete, BeginOn, Begin, At
<1>5. CASE Proceed(s)
  <2>1. CASE FindDisk(s)
    BY <1>3, <2>1 DEF FindDisk, Look
  <2>2. ~(UpSteps(s) \/ DownSteps(s) \/ DeleteSteps(s) \/ Refused(s) \/ Deadline(s))
    BY DEF UpSteps, LookUp, CreateVm, StartVm, ResumeVm, WaitForStart,
           DownSteps, LookDown, ShutDown, ShutDownTimesOut, WaitForStop, DeleteVm,
           DeleteSteps, LookDelete, DeleteDisk, ForgetConfig, Refused, Deadline, Call,
           At, Requests, Waits, Writes
  <2>3. ~(FindVm(s) \/ MakeDisk(s) \/ MakeFormatter(s) \/ WaitForFormat(s)
           \/ DeleteFormatter(s) \/ WriteConfig(s))
    BY DEF FindVm, MakeDisk, MakeFormatter, WaitForFormat, DeleteFormatter, WriteConfig, Call, At
  <2> QED BY <1>5, <2>1, <2>2, <2>3 DEF Proceed, CreateSteps
<1>6. CASE Interrupt(s)
  BY <1>3, <1>6 DEF Interrupt
<1>7. CASE \/ UNCHANGED vars
           \/ \E n \in Names : Advance(n) \/ FormatFails(n) \/ Suspend(n) \/ PowerOff(n) \/ UserWrites(n)
  BY <1>1, <1>7, VmSteps DEF vars, VmStep
<1> QED BY <1>1, <1>2, <1>4, <1>5, <1>6, <1>7 DEF Next

\* A request changes its own disk only; it makes one that was not there or
\* deletes one that was.
LEMMA PerformDisk ==
  ASSUME TypeOK, NEW s \in Sessions, Active(s), Perform(session[s])
  PROVE  /\ \A d \in Disks : d # session[s].pd => disk'[d] = disk[d]
         /\ disk[session[s].pd] = "absent" /\ disk'[session[s].pd] # "absent"
              => session[s].pc = "make disk"
         /\ session[s].pc = "delete disk" => disk[session[s].pd] # "absent"
<1>1. disk \in [Disks -> Contents] /\ session[s].pd \in Disks
  BY Typing DEF TypeOK
<1>2. session[s].pc = "delete disk" => disk[session[s].pd] # "absent"
  BY DEF Perform, Accepts
<1>3. \/ disk' = disk
      \/ session[s].pc = "make disk" /\ disk' = [disk EXCEPT ![session[s].pd] = "raw"]
      \/ disk' = [disk EXCEPT ![session[s].pd] = "absent"]
  BY DEF Perform, MakesDisk, DeletesDisk, DeletesVm
<1> QED BY <1>1, <1>2, <1>3

LEMMA OrphanStep ==
  ASSUME CommandInv, ~Linger, [Next]_vars, NEW d \in Disks, Orphan(d)
  PROVE  Orphan(d)'
<1>1. TypeOK /\ lingering = {} /\ SessionInv /\ config \in [Names -> Disks \union {NoDisk}]
  BY DEF CommandInv, HomeInv, TypeOK
<1>2. /\ disk[d] # "absent" /\ \A n \in Names : config[n] # d
      /\ \A s \in Sessions : session[s].pd = d => session[s].pc \in {"idle", "find disk"}
  BY DEF Orphan
<1>3. Idle.pc = "idle"
  BY DEF Idle
<1>4. ASSUME NEW s \in Sessions, NEW pc \in Steps, Moves(s, pc)
      PROVE  Orphan(d)'
  <2>1. /\ \A t \in Sessions \ {s} : session'[t] = session[t]
        /\ \/ session'[s] = Idle
           \/ session'[s].pd = session[s].pd
    BY <1>1, <1>4, GotoSession DEF Moves
  <2>2. session[s].pd = d => session'[s].pc \in {"idle", "find disk"}
    <3> SUFFICES ASSUME session[s].pd = d PROVE session'[s].pc \in {"idle", "find disk"}
      OBVIOUS
    <3>1. At(s, "find disk")
      BY <1>2, <1>4 DEF Moves, Active, At
    <3> QED BY <1>1, <1>2, <3>1, FoundDisk
  <2>3. config' = config /\ disk' = disk
    BY <1>4 DEF Moves
  <2> QED BY <1>2, <1>3, <2>1, <2>2, <2>3 DEF Orphan
<1>5. ASSUME NEW s \in Sessions, NEW request \in Requests, NEW pc \in Steps, Serves(s, request, pc)
      PROVE  Orphan(d)'
  <2>1. session[s].pc = request /\ Active(s) /\ Goto(s, pc) /\ Perform(session[s]) /\ config' = config
        /\ request # "find disk"
    BY <1>5 DEF Serves, Call, At, Active, Requests, Writes
  <2>2. session[s].pd # d
    BY <1>2, <2>1 DEF Active
  <2>3. disk'[d] = disk[d]
    BY <1>1, <2>1, <2>2, PerformDisk
  <2>4. /\ \A t \in Sessions \ {s} : session'[t] = session[t]
        /\ session'[s] = Idle \/ session'[s].pd = session[s].pd
    BY <1>1, <2>1, GotoSession
  <2> QED BY <1>2, <1>3, <2>1, <2>2, <2>3, <2>4 DEF Orphan
<1>6. ASSUME NEW s \in Sessions, WriteConfig(s) \/ ForgetConfig(s)
      PROVE  Orphan(d)'
  <2>1. /\ Active(s) /\ ~At(s, "find disk") /\ Goto(s, "idle") /\ disk' = disk
        /\ \/ config' = [config EXCEPT ![session[s].name] = session[s].pd]
           \/ config' = [config EXCEPT ![session[s].name] = NoDisk]
    BY <1>6 DEF WriteConfig, ForgetConfig, At, Active
  <2>2. session[s].pd # d /\ session[s].name \in Names /\ d # NoDisk
    BY <1>1, <1>2, <2>1, Typing, NamesAssumption DEF Active, At
  <2>3. \A n \in Names : config'[n] # d
    BY <1>1, <1>2, <2>1, <2>2
  <2>4. /\ \A t \in Sessions \ {s} : session'[t] = session[t]
        /\ session'[s] = Idle
    BY <1>1, <2>1, GotoSession DEF Steps
  <2> QED BY <1>2, <1>3, <2>1, <2>3, <2>4 DEF Orphan
<1>7. ASSUME NEW s \in Sessions, NEW pc, NEW n \in Names, NEW e, Begin(s, pc, n, e),
             e = d => pc = "find disk"
      PROVE  Orphan(d)'
  <2>1. session' = [session EXCEPT ![s] = [pc |-> pc, name |-> n, pd |-> e]]
        /\ config' = config /\ disk' = disk
    BY <1>7 DEF Begin
  <2>2. /\ \A t \in Sessions \ {s} : session'[t] = session[t]
        /\ session'[s].pc = pc /\ session'[s].pd = e
    BY <1>1, <2>1 DEF TypeOK
  <2> QED BY <1>2, <1>7, <2>1, <2>2 DEF Orphan
<1>8. ASSUME NEW s \in Sessions, NEW n \in Names, NEW e \in Disks, BeginCreate(s, n, e)
      PROVE  Orphan(d)'
  BY <1>7, <1>8 DEF BeginCreate
<1>9. ASSUME NEW s \in Sessions, NEW n \in Names, NEW pc \in Looks \ {"find disk", "find vm"},
             BeginOn(s, pc, n)
      PROVE  Orphan(d)'
  <2>1. PICK e : e = config[n] /\ Begin(s, pc, n, e)
    BY <1>9 DEF BeginOn
  <2>2. e # d
    BY <1>2, <2>1
  <2> QED BY <1>7, <2>1, <2>2
<1>10. ASSUME NEW n \in Names, VmStep(n)
      PROVE  Orphan(d)'
  <2>1. disk'[d] # "absent"
    BY <1>1, <1>2, <1>10, VmStepFacts
  <2> QED BY <1>2, <1>10, <2>1 DEF VmStep, Orphan
<1>11. CASE UNCHANGED <<config, disk, vm, session, lingering>>
  BY <1>2, <1>11 DEF Orphan
<1> QED BY <1>1, <1>4, <1>5, <1>6, <1>8, <1>9, <1>10, <1>11, CommandShapes

LEMMA HalfDeletedStep ==
  ASSUME CommandInv, ~Linger, [Next]_vars, NEW n \in Names, HalfDeleted(n),
         \A s \in Sessions : ~(At(s, "make disk") /\ session[s].pd = config[n])
  PROVE  HalfDeleted(n)'
<1>1. TypeOK /\ lingering = {} /\ SessionInv /\ Attached
      /\ config \in [Names -> Disks \union {NoDisk}]
  BY DEF CommandInv, HomeInv, TypeOK
<1>2. /\ config[n] # NoDisk /\ config[n] \in Disks /\ disk[config[n]] = "absent"
      /\ \A s \in Sessions : At(s, "forget config") => session[s].name # n
  BY <1>1 DEF HalfDeleted
<1>3. Idle.pc = "idle"
  BY DEF Idle
<1>4. ASSUME NEW s \in Sessions, NEW pc \in Steps, Moves(s, pc)
      PROVE  HalfDeleted(n)'
  <2>1. /\ \A t \in Sessions \ {s} : session'[t] = session[t]
        /\ session'[s].pc = pc
    BY <1>1, <1>3, <1>4, GotoSession DEF Moves
  <2>2. pc # "forget config"
    BY <1>4 DEF Moves, Cleared
  <2>3. config' = config /\ disk' = disk
    BY <1>4 DEF Moves
  <2> QED BY <1>2, <2>1, <2>2, <2>3 DEF HalfDeleted, At
<1>5. ASSUME NEW s \in Sessions, NEW request \in Requests, NEW pc \in Steps, Serves(s, request, pc)
      PROVE  HalfDeleted(n)'
  <2>1. session[s].pc = request /\ Active(s) /\ Goto(s, pc) /\ Perform(session[s]) /\ config' = config
    BY <1>5 DEF Serves, Call, At, Active, Requests, Writes
  <2>2. disk'[config[n]] = "absent"
    BY <1>1, <1>2, <2>1, PerformDisk DEF At
  <2>3. /\ \A t \in Sessions \ {s} : session'[t] = session[t]
        /\ session'[s].pc = pc /\ (pc # "idle" => session'[s].name = session[s].name)
    BY <1>1, <1>3, <2>1, GotoSession
  <2>4. CASE pc = "forget config"
    <3>1. request = "delete disk"
      BY <1>5, <2>4 DEF Serves, Cleared
    <3>2. disk[session[s].pd] # "absent"
      BY <1>1, <2>1, <3>1, PerformDisk
    <3>3. config[session[s].name] = session[s].pd
      BY <1>1, <2>1, <3>1 DEF SessionInv, ConfigRemembered, Creating
    <3>4. session[s].name # n
      BY <1>2, <3>2, <3>3
    <3> QED BY <1>2, <2>1, <2>2, <2>3, <2>4, <3>4 DEF HalfDeleted, At
  <2>5. CASE pc # "forget config"
    BY <1>2, <2>1, <2>2, <2>3, <2>5 DEF HalfDeleted, At
  <2> QED BY <2>4, <2>5
<1>6. ASSUME NEW s \in Sessions, WriteConfig(s) \/ ForgetConfig(s)
      PROVE  HalfDeleted(n)'
  <2>1. /\ Active(s) /\ Goto(s, "idle") /\ disk' = disk
        /\ \/ At(s, "write config") /\ config' = [config EXCEPT ![session[s].name] = session[s].pd]
           \/ At(s, "forget config") /\ config' = [config EXCEPT ![session[s].name] = NoDisk]
    BY <1>6 DEF WriteConfig, ForgetConfig, At, Active
  <2>2. At(s, "write config") => config[session[s].name] = NoDisk
    BY <1>1, <2>1 DEF SessionInv, ConfigRemembered, Creating, At
  <2>3. session[s].name # n
    BY <1>2, <2>1, <2>2
  <2>4. config'[n] = config[n]
    BY <1>1, <2>1, <2>3
  <2>5. /\ \A t \in Sessions \ {s} : session'[t] = session[t]
        /\ session'[s] = Idle
    BY <1>1, <2>1, GotoSession DEF Steps
  <2> QED BY <1>2, <1>3, <2>1, <2>4, <2>5 DEF HalfDeleted, At
<1>7. ASSUME NEW s \in Sessions, NEW pc \in Looks, NEW m \in Names, NEW e, Begin(s, pc, m, e)
      PROVE  HalfDeleted(n)'
  <2>1. session' = [session EXCEPT ![s] = [pc |-> pc, name |-> m, pd |-> e]]
        /\ config' = config /\ disk' = disk
    BY <1>7 DEF Begin
  <2>2. /\ \A t \in Sessions \ {s} : session'[t] = session[t]
        /\ session'[s].pc = pc /\ pc # "forget config"
    BY <1>1, <2>1 DEF TypeOK, Looks
  <2> QED BY <1>2, <2>1, <2>2 DEF HalfDeleted, At
<1>8. ASSUME NEW s \in Sessions, NEW m \in Names, NEW e \in Disks, BeginCreate(s, m, e)
      PROVE  HalfDeleted(n)'
  <2>1. "find disk" \in Looks
    BY DEF Looks
  <2> QED BY <1>7, <1>8, <2>1 DEF BeginCreate
<1>9. ASSUME NEW s \in Sessions, NEW m \in Names, NEW pc \in Looks \ {"find disk", "find vm"},
             BeginOn(s, pc, m)
      PROVE  HalfDeleted(n)'
  <2>1. PICK e : Begin(s, pc, m, e)
    BY <1>9 DEF BeginOn
  <2> QED BY <1>7, <2>1
<1>10. ASSUME NEW m \in Names, VmStep(m)
      PROVE  HalfDeleted(n)'
  <2>1. vm[m] # NoVm /\ disk[vm[m].pd] # "absent"
    BY <1>1, <1>10 DEF VmStep, Attached
  <2>2. disk'[config[n]] = "absent"
    BY <1>1, <1>2, <1>10, <2>1, VmStepFacts
  <2> QED BY <1>2, <1>10, <2>2 DEF VmStep, HalfDeleted, At
<1>11. CASE UNCHANGED <<config, disk, vm, session, lingering>>
  BY <1>2, <1>11 DEF HalfDeleted, At
<1> QED BY <1>1, <1>4, <1>5, <1>6, <1>8, <1>9, <1>10, <1>11, CommandShapes

\* Under sessions that keep apart, no later command takes up the disk of a
\* dead create or finishes a dead delete (create.py, delete.py).
THEOREM LeftoversStayForGood ==
  ASSUME Exclusive
  PROVE  Spec => LeftoversStay
<1>1. CommandInv /\ [Next]_vars => CommandInv'
  BY CommandStep
<1>2. CommandInv /\ [Next]_vars =>
        /\ \A d \in Disks : Orphan(d) => Orphan(d)'
        /\ \A n \in Names :
             HalfDeleted(n) =>
               \/ HalfDeleted(n)'
               \/ \E s \in Sessions : At(s, "make disk") /\ session[s].pd = config[n]
  BY OrphanStep, HalfDeletedStep DEF Exclusive
<1>3. Spec => []CommandInv
  BY <1>1, CommandInit, PTL DEF Spec
<1> QED BY <1>2, <1>3, PTL DEF Spec, LeftoversStay

----------------------------------------------------------------------------
(* Configs have homes, until a session dies or a mkfs fails.               *)

FileSystems == {"ext4", "data"}

\* No config names the disk a create has made, and no two the same.
FreshDisks ==
  \A s \in Sessions : session[s].pc \in Made =>
    \A n \in Names : config[n] # session[s].pd

OwnHomes ==
  \A n, m \in Names : config[n] # NoDisk /\ config[n] = config[m] => n = m

\* The temporary instance a create waits for is its own, and has formatted
\* the disk by the time it stops.
Formatting ==
  \A s \in Sessions : At(s, "wait for format") =>
    /\ vm[session[s].name].role = "formatter"
    /\ vm[session[s].name].pd = session[s].pd
    /\ vm[session[s].name].status \in {"STAGING", "RUNNING", "STOPPING", "TERMINATED"}
    /\ vm[session[s].name].status \in {"STOPPING", "TERMINATED"} =>
         disk[session[s].pd] \in FileSystems

Formatted ==
  \A s \in Sessions :
    session[s].pc \in {"delete formatter", "write config"} => disk[session[s].pd] \in FileSystems

HomesReady == FreshDisks /\ OwnHomes /\ Formatting /\ Formatted /\ ConfigsHaveHomes

HomesInv == CommandInv /\ (faults = 0 => HomesReady)

\* The moves, the calls and the steps of VMs once more, without faults and
\* with what they say of the formatting.
Steady(s, pc) ==
  /\ Moves(s, pc) /\ ~At(s, "forget config")
  /\ pc \in Made =>
       pc = "delete formatter" /\ At(s, "wait for format") /\ Status(s) = "TERMINATED"

Answered(s, request, pc) ==
  /\ Serves(s, request, pc)
  /\ request = "delete disk" => pc = "forget config"
  /\ pc \in Made =>
       \/ request = "make disk" /\ pc = "make formatter"
       \/ request = "make formatter" /\ pc = "wait for format"
       \/ request = "delete formatter" /\ pc = "write config"

Runs(n) == VmStep(n) /\ (vm[n].role = "formatter" => Boot(n) \/ Halt(n) \/ Format(n))

LEMMA FaultsGrow ==
  ASSUME [Next]_vars PROVE faults' = faults \/ faults' = faults + 1
<1>1. ASSUME NEW s \in Sessions, Start(s) \/ Proceed(s) \/ Interrupt(s)
      PROVE  faults' = faults \/ faults' = faults + 1
  <2>1. CASE Start(s)
    BY <2>1 DEF Start, BeginCreate, BeginUp, BeginDown, BeginDelete, BeginOn, Begin
  <2>2. CASE CreateSteps(s)
    BY <2>2 DEF CreateSteps, FindDisk, FindVm, MakeDisk, MakeFormatter, WaitForFormat,
                DeleteFormatter, WriteConfig, Look, Call
  <2>3. CASE UpSteps(s) \/ DownSteps(s)
    BY <2>3 DEF UpSteps, LookUp, CreateVm, StartVm, ResumeVm, WaitForStart,
                DownSteps, LookDown, ShutDown, ShutDownTimesOut, WaitForStop, DeleteVm,
                Look, Call
  <2>4. CASE DeleteSteps(s) \/ Refused(s)
    BY <2>4 DEF DeleteSteps, LookDelete, DeleteDisk, ForgetConfig, Refused, Look, Call
  <2>5. CASE Deadline(s) \/ Interrupt(s)
    BY <2>5 DEF Deadline, Interrupt, Fault
  <2> QED BY <1>1, <2>1, <2>2, <2>3, <2>4, <2>5 DEF Proceed
<1>2. ASSUME NEW r \in lingering, Served(r) PROVE faults' = faults
  BY <1>2 DEF Served
<1>3. ASSUME NEW n \in Names,
             Advance(n) \/ FormatFails(n) \/ Suspend(n) \/ PowerOff(n) \/ UserWrites(n)
      PROVE  faults' = faults \/ faults' = faults + 1
  BY <1>3 DEF Advance, Boot, Halt, Format, Suspended, FormatFails, Suspend, PowerOff,
              UserWrites, Quietly, Fault
<1> QED BY <1>1, <1>2, <1>3 DEF Next, vars

LEMMA FaultlessShapes ==
  ASSUME TypeOK, lingering = {}, ~Linger, [Next]_vars, faults' = faults
  PROVE  \/ \E s \in Sessions, pc \in Steps : Steady(s, pc)
         \/ \E s \in Sessions, request \in Requests, pc \in Steps : Answered(s, request, pc)
         \/ \E s \in Sessions : WriteConfig(s) \/ ForgetConfig(s)
         \/ \E s \in Sessions, n \in Names, pc \in Looks, d \in Disks : Begin(s, pc, n, d)
         \/ \E n \in Names : Runs(n)
         \/ UNCHANGED <<config, disk, vm, session, lingering>>
<1> DEFINE Moving(s) == \E pc \in Steps : Steady(s, pc)
           Calling(s) == \E request \in Requests, pc \in Steps : Answered(s, request, pc)
           Writing(s) == WriteConfig(s) \/ ForgetConfig(s)
<1>1. ASSUME NEW s \in Sessions, Start(s)
      PROVE  \E n \in Names, pc \in Looks, d \in Disks : Begin(s, pc, n, d)
  BY <1>1 DEF Start, BeginCreate, BeginUp, BeginDown, BeginDelete, BeginOn, Looks, TypeOK
<1>2. ASSUME NEW s \in Sessions, Proceed(s) PROVE Moving(s) \/ Calling(s) \/ Writing(s)
  <2>1. ASSUME NEW pc \in Steps, Active(s), Look(s, pc), ~At(s, "forget config"),
               pc # "idle" =>
                 /\ pc \in Creating <=> session[s].pc \in Creating
                 /\ pc \in Made => pc = "delete formatter" /\ At(s, "wait for format")
                                     /\ Status(s) = "TERMINATED"
                 /\ pc \in Cleared => pc = "delete disk" /\ Status(s) = "NONE"
        PROVE  Moving(s)
    BY <2>1 DEF Look, Moves, Steady, At, Made
  <2>2. ASSUME NEW request \in Requests, NEW pc \in Steps, Call(s, request, pc),
               request = "delete disk" => pc = "forget config",
               pc \in Creating => request \in Creating,
               pc # "idle" => (request \in Creating => pc \in Creating),
               pc \in Made =>
                 \/ request = "make disk" /\ pc = "make formatter"
                 \/ request = "make formatter" /\ pc = "wait for format"
                 \/ request = "delete formatter" /\ pc = "write config",
               pc \in Cleared => \/ request = "delete formatter" /\ pc = "write config"
                                 \/ request = "delete disk" /\ pc = "forget config"
        PROVE  Calling(s)
    BY <2>2 DEF Serves, Answered, Made
  <2>3. Deadline(s) => Moving(s)
    <3>1. ASSUME Deadline(s), At(s, "wait for stop") PROVE Steady(s, "delete vm")
      BY <3>1 DEF Deadline, Moves, Steady, At, Active, Creating, Made, Cleared
    <3>2. ASSUME Deadline(s), ~At(s, "wait for stop") PROVE Steady(s, "idle")
      BY <3>2 DEF Deadline, Moves, Steady, At, Active, Waits, Made
    <3> QED BY <3>1, <3>2 DEF Steps, Requests
  <2> HIDE DEF Moving, Calling, Writing
  <2>4. CreateSteps(s) => Moving(s) \/ Calling(s) \/ Writing(s)
    <3>1. FindDisk(s) \/ FindVm(s) \/ WaitForFormat(s) => Moving(s)
      BY <2>1 DEF FindDisk, FindVm, WaitForFormat, At, Active, Steps, Requests, Looks,
                  Waits, Creating, Made, Cleared
    <3>2. MakeDisk(s) \/ MakeFormatter(s) \/ DeleteFormatter(s) => Calling(s)
      BY <2>2 DEF MakeDisk, MakeFormatter, DeleteFormatter, Steps, Requests, Waits,
                  Writes, Creating, Made, Cleared
    <3> QED BY <3>1, <3>2 DEF CreateSteps, Writing
  <2>5. UpSteps(s) => Moving(s) \/ Calling(s)
    <3>1. LookUp(s) \/ WaitForStart(s) => Moving(s)
      BY <2>1 DEF LookUp, NextOfUp, WaitForStart, At, Active, Steps, Requests, Looks,
                  Waits, Creating, Made, Cleared
    <3>2. CreateVm(s) \/ StartVm(s) \/ ResumeVm(s) => Calling(s)
      BY <2>2 DEF CreateVm, StartVm, ResumeVm, Steps, Requests, Waits, Creating, Made, Cleared
    <3> QED BY <3>1, <3>2 DEF UpSteps
  <2>6. DownSteps(s) => Moving(s) \/ Calling(s)
    <3>1. LookDown(s) \/ ShutDownTimesOut(s) \/ WaitForStop(s) => Moving(s)
      BY <2>1 DEF LookDown, ShutDownTimesOut, WaitForStop, At, Active, Steps, Requests,
                  Looks, Waits, Creating, Made, Cleared
    <3>2. ShutDown(s) \/ DeleteVm(s) => Calling(s)
      BY <2>2 DEF ShutDown, DeleteVm, Steps, Requests, Waits, Creating, Made, Cleared
    <3> QED BY <3>1, <3>2 DEF DownSteps
  <2>7. DeleteSteps(s) => Moving(s) \/ Calling(s) \/ Writing(s)
    <3>1. LookDelete(s) => Moving(s)
      BY <2>1 DEF LookDelete, At, Active, Steps, Requests, Looks, Creating, Made, Cleared
    <3>2. DeleteDisk(s) => Calling(s)
      BY <2>2 DEF DeleteDisk, Steps, Requests, Writes, Creating, Made, Cleared
    <3> QED BY <3>1, <3>2 DEF DeleteSteps, Writing
  <2>8. Refused(s) => Moving(s)
    BY <2>1 DEF Refused, At, Active, Steps, Requests
  <2> QED BY <1>2, <2>3, <2>4, <2>5, <2>6, <2>7, <2>8 DEF Proceed
<1>3. ~Fault
  BY DEF Fault, TypeOK
<1>4. ASSUME NEW n \in Names,
             Advance(n) \/ FormatFails(n) \/ Suspend(n) \/ PowerOff(n) \/ UserWrites(n)
      PROVE  Runs(n)
  <2>1. VmStep(n)
    BY <1>4, VmSteps
  <2>2. ~FormatFails(n)
    BY <1>3 DEF FormatFails
  <2>3. vm[n].role = "formatter" => ~(Suspended(n) \/ Suspend(n) \/ PowerOff(n) \/ UserWrites(n))
    BY DEF Suspended, Suspend, PowerOff, UserWrites, Changes
  <2> QED BY <1>4, <2>1, <2>2, <2>3 DEF Advance, Runs
<1>5. UNCHANGED vars => UNCHANGED <<config, disk, vm, session, lingering>>
  BY DEF vars
<1>6. \A s \in Sessions : ~Interrupt(s)
  BY <1>3 DEF Interrupt
<1> QED BY <1>1, <1>2, <1>4, <1>5, <1>6 DEF Next

\* A config without its disk is still being forgotten after the step of a
\* session that was not about to forget it.
LEMMA StillForgotten ==
  ASSUME ConfigsHaveHomes, NEW s \in Sessions, ~At(s, "forget config"),
         \A t \in Sessions \ {s} : session'[t] = session[t],
         NEW n \in Names, config[n] # NoDisk, disk[config[n]] \notin FileSystems
  PROVE  \E t \in Sessions : At(t, "forget config")' /\ session'[t].name = n
<1>1. PICK t \in Sessions : At(t, "forget config") /\ session[t].name = n
  BY DEF ConfigsHaveHomes, FileSystems
<1>2. session'[t] = session[t]
  BY <1>1
<1> QED BY <1>1, <1>2 DEF At

\* A session that deletes is the one its config is about.
LEMMA OwnDisk ==
  ASSUME CommandInv, NEW s \in Sessions, Active(s), session[s].pc \notin Creating
  PROVE  config[session[s].name] = session[s].pd
BY DEF CommandInv, SessionInv, ConfigRemembered

\* The disk a create makes is the disk of no config: a config without its
\* disk is being forgotten, by a session about that disk.
LEMMA FreshDisk ==
  ASSUME CommandInv, HomesReady, NEW s \in Sessions, At(s, "make disk"),
         disk[session[s].pd] = "absent", NEW n \in Names
  PROVE  config[n] # session[s].pd
<1> SUFFICES ASSUME config[n] = session[s].pd PROVE FALSE
  OBVIOUS
<1>1. Active(s) /\ session[s].pd # NoDisk
  BY Typing, NamesAssumption DEF CommandInv, HomeInv, At, Active
<1>2. PICK t \in Sessions : At(t, "forget config") /\ session[t].name = n
  BY <1>1 DEF HomesReady, ConfigsHaveHomes
<1>3. Active(t) /\ t # s /\ session[t].pd = config[n]
  BY <1>2, OwnDisk DEF At, Active, Creating
<1>4. HomeInv
  BY DEF CommandInv
<1> QED BY <1>1, <1>3, <1>4, Others

LEMMA SteadyKeeps ==
  ASSUME CommandInv, HomesReady, NEW s \in Sessions, NEW pc \in Steps, Steady(s, pc)
  PROVE  HomesReady'
<1>1. /\ TypeOK /\ Active(s) /\ Goto(s, pc) /\ config' = config /\ disk' = disk /\ vm' = vm
      /\ ~At(s, "forget config")
      /\ pc \in Made => pc = "delete formatter" /\ At(s, "wait for format") /\ Status(s) = "TERMINATED"
  BY DEF Steady, Moves, CommandInv, HomeInv
<1>2. \A t \in Sessions \ {s} : session'[t] = session[t]
  BY <1>1, GotoSession
<1>3. /\ session'[s].pc = pc
      /\ pc # "idle" => session'[s].name = session[s].name /\ session'[s].pd = session[s].pd
  <2>1. Idle.pc = "idle"
    BY DEF Idle
  <2> QED BY <1>1, <2>1, GotoSession
<1>4. pc \in Made => pc # "idle" /\ session[s].pc \in Made /\ disk[session[s].pd] \in FileSystems
  BY <1>1 DEF HomesReady, Formatting, At, Status, Made
<1>5. FreshDisks' /\ OwnHomes'
  BY <1>1, <1>2, <1>3, <1>4 DEF HomesReady, FreshDisks, OwnHomes
<1>6. Formatting'
  <2> SUFFICES ASSUME NEW t \in Sessions, session'[t].pc = "wait for format"
               PROVE  /\ vm'[session'[t].name].role = "formatter"
                      /\ vm'[session'[t].name].pd = session'[t].pd
                      /\ vm'[session'[t].name].status \in
                           {"STAGING", "RUNNING", "STOPPING", "TERMINATED"}
                      /\ vm'[session'[t].name].status \in {"STOPPING", "TERMINATED"} =>
                           disk'[session'[t].pd] \in FileSystems
    BY DEF Formatting, At
  <2>1. t # s
    BY <1>1, <1>3 DEF Made
  <2> QED BY <1>1, <1>2, <2>1 DEF HomesReady, Formatting, At
<1>7. Formatted'
  <2> SUFFICES ASSUME NEW t \in Sessions,
                      session'[t].pc \in {"delete formatter", "write config"}
               PROVE  disk'[session'[t].pd] \in FileSystems
    BY DEF Formatted
  <2>1. CASE t = s
    BY <1>1, <1>3, <1>4, <2>1 DEF Made
  <2>2. CASE t # s
    BY <1>1, <1>2, <2>2 DEF HomesReady, Formatted
  <2> QED BY <2>1, <2>2
<1>8. ConfigsHaveHomes'
  BY <1>1, <1>2, StillForgotten DEF HomesReady, ConfigsHaveHomes, FileSystems
<1> QED BY <1>5, <1>6, <1>7, <1>8 DEF HomesReady

LEMMA WritesReady ==
  ASSUME CommandInv, HomesReady, NEW s \in Sessions, WriteConfig(s) \/ ForgetConfig(s)
  PROVE  HomesReady'
<1> DEFINE r == session[s]
<1>1. /\ TypeOK /\ HomeInv /\ Active(s) /\ Goto(s, "idle") /\ disk' = disk /\ vm' = vm
      /\ config \in [Names -> Disks \union {NoDisk}]
      /\ \/ At(s, "write config") /\ config' = [config EXCEPT ![r.name] = r.pd]
         \/ At(s, "forget config") /\ config' = [config EXCEPT ![r.name] = NoDisk]
  BY DEF WriteConfig, ForgetConfig, At, Active, CommandInv, HomeInv, TypeOK
<1>2. r.name \in Names /\ r.pd \in Disks /\ r.pd # NoDisk
  BY <1>1, Typing, NamesAssumption
<1>3. /\ \A t \in Sessions \ {s} : session'[t] = session[t]
      /\ session'[s] = Idle
  BY <1>1, GotoSession DEF Steps
<1>4. At(s, "write config") => disk[r.pd] \in FileSystems /\ \A n \in Names : config[n] # r.pd
  BY DEF HomesReady, Formatted, FreshDisks, Made, At
<1>5. \A n \in Names :
        config'[n] = IF n # r.name THEN config[n]
                     ELSE IF At(s, "write config") THEN r.pd ELSE NoDisk
  BY <1>1 DEF At
<1>6. FreshDisks'
  <2> SUFFICES ASSUME NEW t \in Sessions, session'[t].pc \in Made, NEW n \in Names
               PROVE  config'[n] # session'[t].pd
    BY DEF FreshDisks
  <2>1. t # s /\ session'[t] = session[t] /\ Active(t)
    <3>1. Idle.pc \notin Made /\ "idle" \notin Made
      BY DEF Idle, Made
    <3> QED BY <1>3, <3>1 DEF Active
  <2>2. session[t].pd # r.pd
    BY <1>1, <2>1, Others
  <2>3. session[t].pd # NoDisk
    BY <1>1, <2>1, Typing, NamesAssumption
  <2>4. config[n] # session[t].pd
    BY <2>1 DEF HomesReady, FreshDisks
  <2> QED BY <1>5, <2>1, <2>2, <2>3, <2>4
<1>7. OwnHomes'
  BY <1>4, <1>5 DEF HomesReady, OwnHomes
<1>8. Formatting' /\ Formatted'
  <2>1. session'[s].pc = "idle"
    BY <1>3 DEF Idle
  <2>2. Formatting'
    <3> SUFFICES ASSUME NEW t \in Sessions, session'[t].pc = "wait for format"
                 PROVE  /\ vm'[session'[t].name].role = "formatter"
                        /\ vm'[session'[t].name].pd = session'[t].pd
                        /\ vm'[session'[t].name].status \in
                             {"STAGING", "RUNNING", "STOPPING", "TERMINATED"}
                        /\ vm'[session'[t].name].status \in {"STOPPING", "TERMINATED"} =>
                             disk'[session'[t].pd] \in FileSystems
      BY DEF Formatting, At
    <3>1. session'[t] = session[t]
      BY <1>3, <2>1
    <3> QED BY <1>1, <3>1 DEF HomesReady, Formatting, At
  <2>3. Formatted'
    BY <1>1, <1>3, <2>1 DEF HomesReady, Formatted
  <2> QED BY <2>2, <2>3
<1>9. ConfigsHaveHomes'
  <2> SUFFICES ASSUME NEW n \in Names, config'[n] # NoDisk
               PROVE  \/ disk[config'[n]] \in {"ext4", "data"}
                      \/ \E t \in Sessions : session'[t].pc = "forget config" /\ session'[t].name = n
    BY <1>1 DEF ConfigsHaveHomes, At
  <2>1. CASE n = r.name
    BY <1>4, <1>5, <2>1 DEF FileSystems
  <2>2. CASE n # r.name
    <3>1. config'[n] = config[n]
      BY <1>5, <2>2
    <3>2. CASE disk[config[n]] \in FileSystems
      BY <3>1, <3>2 DEF FileSystems
    <3>3. CASE disk[config[n]] \notin FileSystems
      <4>1. PICK t \in Sessions : At(t, "forget config") /\ session[t].name = n
        BY <3>1, <3>3 DEF HomesReady, ConfigsHaveHomes, FileSystems
      <4>2. session'[t] = session[t]
        BY <1>3, <2>2, <4>1
      <4> QED BY <4>1, <4>2 DEF At
    <3> QED BY <3>2, <3>3
  <2> QED BY <2>1, <2>2
<1> QED BY <1>6, <1>7, <1>8, <1>9 DEF HomesReady

LEMMA BeginReady ==
  ASSUME CommandInv, HomesReady, NEW s \in Sessions, NEW pc \in Looks,
         NEW n \in Names, NEW d \in Disks, Begin(s, pc, n, d)
  PROVE  HomesReady'
<1>1. /\ At(s, "idle") /\ config' = config /\ disk' = disk /\ vm' = vm
      /\ session' = [session EXCEPT ![s] = [pc |-> pc, name |-> n, pd |-> d]]
  BY DEF Begin
<1>2. /\ \A t \in Sessions \ {s} : session'[t] = session[t]
      /\ session'[s].pc = pc
      /\ pc \notin Made \union {"forget config", "wait for format"}
  BY <1>1 DEF CommandInv, HomeInv, TypeOK, Looks, Made
<1>3. FreshDisks' /\ OwnHomes'
  BY <1>1, <1>2 DEF HomesReady, FreshDisks, OwnHomes
<1>4. Formatting' /\ Formatted'
  <2>1. Formatting'
    BY <1>1, <1>2 DEF HomesReady, Formatting, At, Made
  <2>2. Formatted'
    BY <1>1, <1>2 DEF HomesReady, Formatted, Made
  <2> QED BY <2>1, <2>2
<1>5. ConfigsHaveHomes'
  BY <1>1, <1>2, StillForgotten DEF HomesReady, ConfigsHaveHomes, At, FileSystems
<1> QED BY <1>3, <1>4, <1>5 DEF HomesReady

LEMMA RunsReady ==
  ASSUME CommandInv, HomesReady, NEW n \in Names, Runs(n)
  PROVE  HomesReady'
<1>1. TypeOK /\ VmStep(n) /\ config' = config /\ session' = session
      /\ vm \in [Names -> Vms \union {NoVm}] /\ disk \in [Disks -> Contents]
  BY DEF CommandInv, HomeInv, Runs, VmStep, TypeOK
<1>2. /\ vm[n].pd \in Disks
      /\ \A m \in Names : /\ vm'[m].pd = vm[m].pd /\ vm'[m].role = vm[m].role
                          /\ m # n => vm'[m] = vm[m]
      /\ \A d \in Disks : d # vm[n].pd => disk'[d] = disk[d]
      /\ \/ disk'[vm[n].pd] = disk[vm[n].pd]
         \/ vm[n].role = "formatter" /\ disk'[vm[n].pd] = "ext4"
         \/ vm[n].role = "machine" /\ disk'[vm[n].pd] = "data"
  BY <1>1, VmStepFacts
<1>3. \A d \in Disks : disk[d] \in FileSystems => disk'[d] \in FileSystems
  BY <1>2 DEF FileSystems
<1>4. FreshDisks' /\ OwnHomes'
  BY <1>1 DEF HomesReady, FreshDisks, OwnHomes
<1>5. Formatted'
  BY <1>1, <1>3, Typing DEF HomesReady, Formatted, Active
<1>6. ConfigsHaveHomes'
  <2>1. \A m \in Names : config[m] # NoDisk => config[m] \in Disks
    BY DEF CommandInv, HomeInv, TypeOK
  <2> QED BY <1>1, <1>3, <2>1 DEF HomesReady, ConfigsHaveHomes, At, FileSystems
<1>7. Formatting'
  <2> SUFFICES ASSUME NEW s \in Sessions, At(s, "wait for format")
               PROVE  /\ vm'[session'[s].name].role = "formatter"
                      /\ vm'[session'[s].name].pd = session'[s].pd
                      /\ vm'[session'[s].name].status \in
                           {"STAGING", "RUNNING", "STOPPING", "TERMINATED"}
                      /\ vm'[session'[s].name].status \in {"STOPPING", "TERMINATED"} =>
                           disk'[session'[s].pd] \in FileSystems
    BY <1>1 DEF Formatting, At
  <2> DEFINE m == session[s].name
  <2>1. m \in Names /\ session[s].pd \in Disks
    BY <1>1, Typing DEF At, Active
  <2>2. /\ vm[m].role = "formatter" /\ vm[m].pd = session[s].pd
        /\ vm[m].status \in {"STAGING", "RUNNING", "STOPPING", "TERMINATED"}
        /\ vm[m].status \in {"STOPPING", "TERMINATED"} => disk[session[s].pd] \in FileSystems
    BY DEF HomesReady, Formatting
  <2>5. SUFFICES /\ vm'[m].role = "formatter" /\ vm'[m].pd = session[s].pd
                 /\ vm'[m].status \in {"STAGING", "RUNNING", "STOPPING", "TERMINATED"}
                 /\ vm'[m].status \in {"STOPPING", "TERMINATED"} =>
                      disk'[session[s].pd] \in FileSystems
    BY <1>1
  <2>3. CASE m # n
    BY <1>2, <1>3, <2>1, <2>2, <2>3
  <2>4. CASE m = n
    <3>1. Boot(m) \/ Halt(m) \/ Format(m)
      BY <2>2, <2>4 DEF Runs
    <3>2. /\ vm'[m].role = "formatter" /\ vm'[m].pd = session[s].pd
      BY <1>2, <2>1, <2>2
    <3>3. ASSUME NEW status, SetStatus(m, status) PROVE vm'[m].status = status
      <4>1. vm[m] \in Vms \union {NoVm} /\ vm' = [vm EXCEPT ![m] = [vm[m] EXCEPT !.status = status]]
        BY <1>1, <2>1, <3>3 DEF SetStatus
      <4>2. [vm[m] EXCEPT !.status = status].status = status
        BY <4>1 DEF Vms, NoVm
      <4> QED BY <1>1, <2>1, <4>1, <4>2
    <3>4. CASE Boot(m)
      <4>1. vm'[m].status = "RUNNING"
        BY <3>3, <3>4 DEF Boot, Changes
      <4> QED BY <3>2, <4>1
    <3>5. CASE Halt(m)
      <4>1. vm[m].status = "STOPPING" /\ vm'[m].status = "TERMINATED"
        BY <3>3, <3>5 DEF Halt, Changes
      <4> QED BY <1>3, <2>1, <2>2, <3>2, <4>1
    <3>6. CASE Format(m)
      <4>1. vm'[m].status = "STOPPING" /\ disk' = [disk EXCEPT ![vm[m].pd] = "ext4"]
        BY <3>3, <3>6 DEF Format, Changes
      <4>2. disk'[session[s].pd] \in FileSystems
        BY <1>1, <2>1, <2>2, <4>1 DEF FileSystems
      <4> QED BY <3>2, <4>1, <4>2
    <3> QED BY <3>1, <3>4, <3>5, <3>6
  <2> QED BY <2>3, <2>4
<1> QED BY <1>4, <1>5, <1>6, <1>7 DEF HomesReady

LEMMA AnswersReady ==
  ASSUME CommandInv, HomesReady, NEW s \in Sessions, NEW request \in Requests,
         NEW pc \in Steps, Answered(s, request, pc)
  PROVE  HomesReady'
<1> DEFINE r == session[s]
<1>1. /\ TypeOK /\ HomeInv /\ Active(s) /\ r.pc = request /\ Perform(r) /\ Goto(s, pc)
      /\ config' = config /\ At(s, request)
      /\ vm \in [Names -> Vms \union {NoVm}] /\ disk \in [Disks -> Contents]
      /\ config \in [Names -> Disks \union {NoDisk}]
  BY DEF Answered, Serves, Call, At, Active, Requests, CommandInv, HomeInv, TypeOK
<1>2. r \in Commands /\ r.name \in Names /\ r.pd \in Disks /\ r.pd # NoDisk
  BY <1>1, Typing, NamesAssumption
<1>3. /\ \A n \in Names \ {r.name} : vm'[n] = vm[n]
      /\ \A d \in Disks \ {r.pd} : disk'[d] = disk[d]
  BY <1>1, <1>2, PerformName, PerformReach
<1>4. /\ \A t \in Sessions \ {s} : session'[t] = session[t]
      /\ session'[s].pc = pc
      /\ pc # "idle" => session'[s].name = r.name /\ session'[s].pd = r.pd
  BY <1>1, GotoSession DEF Idle
<1>5. /\ request = "delete disk" => pc = "forget config"
      /\ pc \in Made =>
           \/ request = "make disk" /\ pc = "make formatter"
           \/ request = "make formatter" /\ pc = "wait for format"
           \/ request = "delete formatter" /\ pc = "write config"
  BY DEF Answered
<1>6. /\ request = "make disk" =>
           disk[r.pd] = "absent" /\ disk' = [disk EXCEPT ![r.pd] = "raw"]
      /\ request \notin {"make disk", "delete disk"} => disk' = disk
  BY <1>1 DEF Perform, Accepts, MakesDisk, DeletesVm
<1>7. request = "make disk" => \A n \in Names : config[n] # r.pd
  BY <1>1, <1>6, FreshDisk
<1>8. ASSUME NEW t \in Sessions, t # s, Active(t)
      PROVE  /\ session'[t] = session[t] /\ vm'[session[t].name] = vm[session[t].name]
             /\ disk'[session[t].pd] = disk[session[t].pd]
  BY <1>1, <1>2, <1>3, <1>4, <1>8, Typing, Others
<1>9. FreshDisks' /\ OwnHomes'
  <2>1. OwnHomes'
    BY <1>1 DEF HomesReady, OwnHomes
  <2>2. pc \in Made => \A n \in Names : config[n] # r.pd
    BY <1>1, <1>5, <1>7 DEF HomesReady, FreshDisks, Made
  <2>3. FreshDisks'
    BY <1>1, <1>4, <2>2 DEF HomesReady, FreshDisks, Made
  <2> QED BY <2>1, <2>3
<1>10. Formatting'
  <2> SUFFICES ASSUME NEW t \in Sessions, session'[t].pc = "wait for format"
               PROVE  /\ vm'[session'[t].name].role = "formatter"
                      /\ vm'[session'[t].name].pd = session'[t].pd
                      /\ vm'[session'[t].name].status \in
                           {"STAGING", "RUNNING", "STOPPING", "TERMINATED"}
                      /\ vm'[session'[t].name].status \in {"STOPPING", "TERMINATED"} =>
                           disk'[session'[t].pd] \in FileSystems
    BY DEF Formatting, At
  <2>1. CASE t = s
    <3>1. request = "make formatter" /\ pc = "wait for format"
          /\ session'[t].name = r.name /\ session'[t].pd = r.pd
      BY <1>4, <1>5, <2>1 DEF Made
    <3>2. vm' = [vm EXCEPT ![r.name] = [status |-> "STAGING", role |-> "formatter", pd |-> r.pd]]
      BY <1>1, <3>1 DEF Perform, MakesDisk, DeletesDisk, Boots, DeletesVm
    <3> DEFINE v == [status |-> "STAGING", role |-> "formatter", pd |-> r.pd]
    <3>3. v.status = "STAGING" /\ v.role = "formatter" /\ v.pd = r.pd
      OBVIOUS
    <3>4. vm'[r.name] = v
      BY <1>1, <1>2, <3>2
    <3> HIDE DEF v, r
    <3> QED BY <3>1, <3>3, <3>4
  <2>2. CASE t # s
    <3>1. session'[t] = session[t] /\ Active(t)
      BY <1>4, <2>2 DEF Active
    <3>2. /\ session[t].pc = "wait for format"
          /\ vm'[session[t].name] = vm[session[t].name]
          /\ disk'[session[t].pd] = disk[session[t].pd]
      BY <1>8, <2>2, <3>1
    <3>3. /\ vm[session[t].name].role = "formatter"
          /\ vm[session[t].name].pd = session[t].pd
          /\ vm[session[t].name].status \in {"STAGING", "RUNNING", "STOPPING", "TERMINATED"}
          /\ vm[session[t].name].status \in {"STOPPING", "TERMINATED"} =>
               disk[session[t].pd] \in FileSystems
      BY <3>2 DEF HomesReady, Formatting, At
    <3> QED BY <3>1, <3>2, <3>3
  <2> QED BY <2>1, <2>2
<1>11. Formatted'
  <2> SUFFICES ASSUME NEW t \in Sessions, session'[t].pc \in {"delete formatter", "write config"}
               PROVE  disk'[session'[t].pd] \in {"ext4", "data"}
    BY DEF Formatted, FileSystems
  <2>1. CASE t = s
    <3>1. /\ request = "delete formatter" /\ pc = "write config" /\ session'[t].pd = r.pd
      BY <1>4, <1>5, <2>1 DEF Made
    <3> QED BY <1>1, <1>6, <3>1 DEF HomesReady, Formatted, FileSystems, At
  <2>2. CASE t # s
    <3>1. session'[t] = session[t] /\ Active(t)
      BY <1>4, <2>2 DEF Active
    <3> QED BY <1>8, <2>2, <3>1 DEF HomesReady, Formatted, FileSystems
  <2> QED BY <2>1, <2>2
<1>12. ConfigsHaveHomes'
  <2> SUFFICES ASSUME NEW n \in Names, config[n] # NoDisk
               PROVE  \/ disk'[config[n]] \in {"ext4", "data"}
                      \/ \E t \in Sessions : session'[t].pc = "forget config" /\ session'[t].name = n
    BY <1>1 DEF ConfigsHaveHomes, At
  <2>1. config[n] \in Disks
    BY <1>1
  <2>2. CASE \E t \in Sessions : At(t, "forget config") /\ session[t].name = n
    <3>1. PICK t \in Sessions : At(t, "forget config") /\ session[t].name = n
      BY <2>2
    <3>2. t # s
      BY <1>1, <3>1 DEF At, Requests
    <3> QED BY <1>4, <3>1, <3>2 DEF At
  <2>3. CASE disk[config[n]] \in {"ext4", "data"}
    <3>1. CASE config[n] # r.pd \/ disk' = disk
      BY <1>3, <2>1, <2>3, <3>1
    <3>2. CASE config[n] = r.pd /\ disk' # disk
      <4>1. request = "delete disk" /\ pc = "forget config"
        BY <1>5, <1>6, <1>7, <3>2
      <4>2. config[r.name] = r.pd
        BY <1>1, <4>1, OwnDisk DEF Creating
      <4>3. r.name = n
        BY <1>2, <3>2, <4>2 DEF HomesReady, OwnHomes
      <4> QED BY <1>4, <4>1, <4>3
    <3> QED BY <3>1, <3>2
  <2> QED BY <2>2, <2>3 DEF HomesReady, ConfigsHaveHomes
<1> QED BY <1>9, <1>10, <1>11, <1>12 DEF HomesReady

\* With sessions that keep apart and requests that do not linger, a config
\* is a promise that its disk has a file system, as long as no session has
\* died and no mkfs has failed: create.py writes it last, delete.py forgets
\* it right after the disk.
THEOREM HomesUntilFaults ==
  ASSUME Exclusive
  PROVE  Spec => [](faults = 0 => ConfigsHaveHomes)
<1>1. Init => HomesInv
  <2> SUFFICES ASSUME Init PROVE HomesInv
    OBVIOUS
  <2>1. CommandInv
    BY CommandInit
  <2>2. /\ \A s \in Sessions : session[s].pc = "idle"
        /\ \A n \in Names : config[n] = NoDisk
    BY DEF Init, Idle
  <2>3. HomesReady
    BY <2>2 DEF HomesReady, FreshDisks, OwnHomes, Formatting, Formatted,
                ConfigsHaveHomes, At, Made
  <2> QED BY <2>1, <2>3 DEF HomesInv
<1>2. HomesInv /\ [Next]_vars => HomesInv'
  <2> SUFFICES ASSUME HomesInv, [Next]_vars PROVE HomesInv'
    OBVIOUS
  <2>1. CommandInv /\ TypeOK /\ lingering = {} /\ ~Linger /\ faults \in Nat
    BY DEF HomesInv, CommandInv, HomeInv, TypeOK, Exclusive
  <2>2. CommandInv'
    BY <2>1, CommandStep
  <2>3. ASSUME faults' = 0 PROVE HomesReady'
    <3>1. faults' = faults /\ HomesReady
      BY <2>1, <2>3, FaultsGrow DEF HomesInv
    <3>2. CASE UNCHANGED <<config, disk, vm, session, lingering>>
      BY <3>1, <3>2 DEF HomesReady, FreshDisks, OwnHomes, Formatting, Formatted,
                        ConfigsHaveHomes, At
    <3> QED BY <2>1, <3>1, <3>2, FaultlessShapes, SteadyKeeps, AnswersReady, WritesReady,
               BeginReady, RunsReady
  <2> QED BY <2>2, <2>3 DEF HomesInv
<1>3. HomesInv => (faults = 0 => ConfigsHaveHomes)
  BY DEF HomesInv, HomesReady
<1> QED BY <1>1, <1>2, <1>3, PTL DEF Spec
=============================================================================
