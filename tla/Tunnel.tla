------------------------------- MODULE Tunnel -------------------------------
(***************************************************************************)
(* The tunnels: one gcloud child per environment, started by up, stopped   *)
(* by up and down, that forwards a local port to the sshd of the machine.  *)
(* All that hermit remembers of it is a pid, in <name>.pid; the file is    *)
(* never removed.  A session is a process of the user that runs commands   *)
(* of hermit one after the other: the executable one, the tests several.   *)
(* Only the part of up and down that is about the tunnel is modelled in    *)
(* detail; Lifecycle.tla has the rest.                                     *)
(***************************************************************************)
EXTENDS Naturals

CONSTANTS
  Names, NoName,
  Sessions, NoSession,
  Pids, NoPid, Garbled,
  PortOf,       \* PortOf[n]: the local_port in the config of n
  MaxAttempts,  \* max_attempts of retry_on_exception
  Overlap,      \* whether two sessions may be about one name
  Reuse,        \* whether a pid in a pid file may be given to another process
  MaxCrashes,   \* bound on sessions that die or give up, and reboots
  MaxDrops      \* bound on tunnels that end by themselves

ASSUME NullsAssumption ==
  NoName \notin Names /\ NoSession \notin Sessions
  /\ NoPid \notin Pids /\ Garbled \notin Pids /\ Garbled # NoPid
ASSUME BoundsAssumption ==
  /\ MaxAttempts \in Nat \ {0} /\ MaxCrashes \in Nat /\ MaxDrops \in Nat
  /\ Overlap \in BOOLEAN /\ Reuse \in BOOLEAN

VARIABLES
  pidfile,  \* pidfile[n]: the pid in <n>.pid, NoPid without file, Garbled if empty
  proc,     \* the process of each pid
  machine,  \* whether the sshd of each machine can be reached
  session,  \* the command each session is in, and where
  crashes, drops

vars == <<pidfile, proc, machine, session, crashes, drops>>

Free == [kind |-> "free", name |-> NoName, parent |-> NoSession, term |-> FALSE]
Stranger == [Free EXCEPT !.kind = "stranger"]
Idle == [pc |-> "idle", command |-> "none", name |-> NoName, pid |-> NoPid, tries |-> 0]

\* "dead" is a process that ended and that its parent has not waited for.
Tunnels == [kind : {"starting", "listening", "dead"}, name : Names,
            parent : Sessions \union {NoSession}, term : BOOLEAN]
Strangers == {Stranger, [Stranger EXCEPT !.term = TRUE]}
Pcs == {"bring up", "check", "stop", "await death", "check port", "spawn",
        "wait", "open", "write", "take down"}
Commands == [pc : Pcs, command : {"up", "down"}, name : Names,
             pid : Pids \union {NoPid}, tries : 0 .. MaxAttempts]

Init ==
  /\ pidfile = [n \in Names |-> NoPid]
  /\ proc = [p \in Pids |-> Free]
  /\ machine = [n \in Names |-> "off"]
  /\ session = [s \in Sessions |-> Idle]
  /\ crashes = 0 /\ drops = 0

----------------------------------------------------------------------------
(* What hermit can find out.                                               *)

At(s, pc) == session[s].pc = pc
Name(s) == session[s].name

\* kill(pid, 0) succeeds, for a dead child nobody waited for too.
IsPidValid(p) == proc[p].kind # "free"

\* The int() of an empty pid file raises.
ReadPidFails(n) == pidfile[n] = Garbled

IsTunnelRunning(n) == pidfile[n] \in Pids /\ IsPidValid(pidfile[n])

Forwards(p, n) == proc[p].name = n /\ proc[p].kind \in {"starting", "listening"}
ListensFor(p, n) ==
  proc[p].kind = "listening" /\ PortOf[proc[p].name] = PortOf[n]
IsPortListening(n) == \E p \in Pids : ListensFor(p, n)
IsPortFree(n) == ~IsPortListening(n)

----------------------------------------------------------------------------
(* Steps of a session.                                                     *)

Goto(s, pc) ==
  session' = [session EXCEPT ![s] = IF pc = "idle" THEN Idle ELSE [@ EXCEPT !.pc = pc]]

\* A step that leaves files and processes alone.
Look(s, pc) == Goto(s, pc) /\ UNCHANGED <<pidfile, proc, machine, crashes, drops>>

Begin(s, command, n, pc) ==
  /\ At(s, "idle")
  /\ Overlap \/ \A t \in Sessions : Name(t) # n
  /\ session' = [session EXCEPT ![s] =
       [Idle EXCEPT !.pc = pc, !.command = command, !.name = n]]
  /\ UNCHANGED <<pidfile, proc, machine, crashes, drops>>

BeginUp(s, n) == Begin(s, "up", n, "bring up")
BeginDown(s, n) == Begin(s, "down", n, "check")

\* The wait for the machine may be over before its sshd can be reached: it
\* reads a log that other boots have written too.
BringUp(s) ==
  /\ At(s, "bring up")
  /\ machine' = [machine EXCEPT ![Name(s)] = IF @ = "on" THEN "on" ELSE "starting"]
  /\ Goto(s, "check")
  /\ UNCHANGED <<pidfile, proc, crashes, drops>>

\* Where a command goes on when there is no tunnel, or no tunnel any more.
Stopped(s) == IF session[s].command = "up" THEN "check port" ELSE "take down"

\* Is there a tunnel to stop?  A pid that cannot be read ends the command.
Check(s) ==
  /\ At(s, "check")
  /\ Look(s, CASE ReadPidFails(Name(s)) -> "idle"
               [] IsTunnelRunning(Name(s)) -> "stop"
               [] OTHER -> Stopped(s))

\* Mutant: whatever forwards to that name is terminated.
StopAll(s) ==
  /\ At(s, "stop")
  /\ proc' = [p \in Pids |-> IF Forwards(p, Name(s)) THEN [proc[p] EXCEPT !.term = TRUE]
                             ELSE proc[p]]
  /\ session' = [session EXCEPT ![s].pc = "await death", ![s].pid = pidfile[Name(s)]]
  /\ UNCHANGED <<pidfile, machine, crashes, drops>>

\* The pid is read a second time.  A process that is gone by now fails the
\* kill, a file that is being written the read, and so the command.
Stop(s) ==
  /\ At(s, "stop")
  /\ IF IsTunnelRunning(Name(s))
     THEN /\ proc' = [proc EXCEPT ![pidfile[Name(s)]].term = TRUE]
          /\ session' = [session EXCEPT ![s].pc = "await death", ![s].pid = pidfile[Name(s)]]
          /\ UNCHANGED <<pidfile, machine, crashes, drops>>
     ELSE Look(s, "idle")

\* Mutant: nobody waits for dead children.
ReapedNone(s) == proc

\* _check_procs waits for the dead children of this process.
Reaped(s) ==
  [p \in Pids |-> IF proc[p].kind = "dead" /\ proc[p].parent = s THEN Free ELSE proc[p]]

\* Mutant: the loop is left at once.
AwaitNothing(s) == At(s, "await death") /\ Look(s, Stopped(s))

AwaitDeath(s) ==
  /\ At(s, "await death")
  /\ Reaped(s)[session[s].pid] = Free
  /\ proc' = Reaped(s)
  /\ Goto(s, Stopped(s))
  /\ UNCHANGED <<pidfile, machine, crashes, drops>>

Crash == crashes < MaxCrashes /\ crashes' = crashes + 1

\* Ten seconds are over.  That a terminated tunnel takes longer is a fault;
\* the child of another process that nobody waits for stays a valid pid.
GiveUp(s) ==
  /\ At(s, "await death")
  /\ Reaped(s)[session[s].pid] # Free
  /\ IF proc[session[s].pid].kind = "dead" THEN UNCHANGED crashes ELSE Crash
  /\ proc' = Reaped(s)
  /\ Goto(s, "idle")
  /\ UNCHANGED <<pidfile, machine, drops>>

\* Mutant: the assertion is missing.
CheckPortNot(s) == At(s, "check port") /\ Look(s, "spawn")

\* bind fails too while a connection of an earlier tunnel lingers.
CheckPort(s) ==
  /\ At(s, "check port")
  /\ \/ IsPortFree(Name(s)) /\ Look(s, "spawn")
     \/ Look(s, "idle")

\* The pids the system may give to a new process.
Fresh(p) ==
  /\ proc[p] = Free
  /\ Reuse \/ /\ \A n \in Names : pidfile[n] # p
              /\ \A s \in Sessions : session[s].pid # p

\* gcloud_in_background: a child that goes on when its parent ends.
Child(s) == [kind |-> "starting", name |-> Name(s), parent |-> s, term |-> FALSE]

Spawn(s) ==
  /\ At(s, "spawn")
  /\ \E p \in Pids :
       /\ Fresh(p)
       /\ proc' = [proc EXCEPT ![p] = Child(s)]
       /\ session' = [session EXCEPT ![s].pc = "wait", ![s].pid = p,
                                     ![s].tries = session[s].tries + 1]
  /\ UNCHANGED <<pidfile, machine, crashes, drops>>

\* Mutants: retries without end; a child that takes its time is given up for
\* another.
RetryForever(s) ==
  /\ At(s, "wait")
  /\ proc[session[s].pid].kind = "dead"
  /\ proc' = [proc EXCEPT ![session[s].pid] = Free]
  /\ session' = [session EXCEPT ![s] = [@ EXCEPT !.pc = "spawn", !.pid = NoPid, !.tries = 0]]
  /\ UNCHANGED <<pidfile, machine, crashes, drops>>

RetryImpatient(s) ==
  /\ At(s, "wait")
  /\ session' = [session EXCEPT ![s] =
       IF @.tries < MaxAttempts THEN [@ EXCEPT !.pc = "spawn", !.pid = NoPid] ELSE Idle]
  /\ UNCHANGED <<pidfile, proc, machine, crashes, drops>>

\* The child died: UnexpectedTermination, and another attempt.
Retry(s) ==
  /\ At(s, "wait")
  /\ proc[session[s].pid].kind = "dead"
  /\ proc' = [proc EXCEPT ![session[s].pid] = Free]
  /\ session' = [session EXCEPT ![s] =
       IF @.tries < MaxAttempts THEN [@ EXCEPT !.pc = "spawn", !.pid = NoPid] ELSE Idle]
  /\ UNCHANGED <<pidfile, machine, crashes, drops>>

\* The child runs and somebody listens on the port.
SeeListening(s) ==
  /\ At(s, "wait")
  /\ proc[session[s].pid].kind # "dead"
  /\ IsPortListening(Name(s))
  /\ Look(s, "open")

\* Five minutes are over: an AssertionError, which is not retried.
WaitTooLong(s) ==
  /\ At(s, "wait")
  /\ proc[session[s].pid].kind # "dead"
  /\ ~IsPortListening(Name(s))
  /\ Crash
  /\ Goto(s, "idle")
  /\ UNCHANGED <<pidfile, proc, machine, drops>>

\* Opening the pid file for writing empties it.
OpenPidfile(s) ==
  /\ At(s, "open")
  /\ pidfile' = [pidfile EXCEPT ![Name(s)] = Garbled]
  /\ Goto(s, "write")
  /\ UNCHANGED <<proc, machine, crashes, drops>>

\* ... and "Tunnel on port {local_port} started."
WritePid(s) ==
  /\ At(s, "write")
  /\ pidfile' = [pidfile EXCEPT ![Name(s)] = session[s].pid]
  /\ Goto(s, "idle")
  /\ UNCHANGED <<proc, machine, crashes, drops>>

\* The rest of down.
TakeDown(s) ==
  /\ At(s, "take down")
  /\ machine' = [machine EXCEPT ![Name(s)] = "off"]
  /\ Goto(s, "idle")
  /\ UNCHANGED <<pidfile, proc, crashes, drops>>

\* The children of a process that ends go to init, which waits for them.
Orphaned(s) ==
  [p \in Pids |-> IF proc[p].parent # s THEN proc[p]
                  ELSE IF proc[p].kind = "dead" THEN Free
                  ELSE [proc[p] EXCEPT !.parent = NoSession]]

Exit(s) ==
  /\ At(s, "idle")
  /\ proc' = Orphaned(s) /\ proc' # proc
  /\ UNCHANGED <<pidfile, machine, session, crashes, drops>>

\* The process of the session is killed; its children go on.
Interrupt(s) ==
  /\ ~At(s, "idle")
  /\ Crash
  /\ proc' = Orphaned(s)
  /\ Goto(s, "idle")
  /\ UNCHANGED <<pidfile, machine, drops>>

----------------------------------------------------------------------------
(* Processes and machines.                                                 *)

Ends(p) ==
  /\ proc' = [proc EXCEPT ![p] =
       IF @.parent = NoSession THEN Free ELSE [@ EXCEPT !.kind = "dead"]]
  /\ UNCHANGED <<pidfile, machine, session, crashes>>

\* start-iap-tunnel tries the connection, then it binds the port.
CanForward(p) == machine[proc[p].name] = "on" /\ ~IsPortListening(proc[p].name)

Connect(p) ==
  /\ proc[p].kind = "starting"
  /\ CanForward(p)
  /\ proc' = [proc EXCEPT ![p].kind = "listening"]
  /\ UNCHANGED <<pidfile, machine, session, crashes, drops>>

CannotConnect(p) ==
  /\ proc[p].kind = "starting"
  /\ ~CanForward(p)
  /\ Ends(p)
  /\ UNCHANGED drops

Terminate(p) ==
  /\ proc[p].term /\ proc[p].kind # "dead"
  /\ Ends(p)
  /\ UNCHANGED drops

Drop(p) ==
  /\ proc[p].kind \in {"starting", "listening"}
  /\ drops < MaxDrops
  /\ drops' = drops + 1
  /\ Ends(p)

\* A process that has nothing to do with hermit starts or ends.  It matters
\* only if its pid is in a pid file when it starts.
Strange(p) ==
  /\ Reuse
  /\ \/ proc[p] = Free /\ \E n \in Names : pidfile[n] = p
     \/ proc[p] = Stranger
  /\ proc' = [proc EXCEPT ![p] = IF @ = Free THEN Stranger ELSE Free]
  /\ UNCHANGED <<pidfile, machine, session, crashes, drops>>

\* The user's computer restarts: files stay, processes go.
Reboot ==
  /\ Crash
  /\ proc' = [p \in Pids |-> Free]
  /\ session' = [s \in Sessions |-> Idle]
  /\ UNCHANGED <<pidfile, machine, drops>>

\* A machine boots, or suspends itself; its tunnel does not notice.
Changes(n, from, to) ==
  /\ machine[n] = from
  /\ machine' = [machine EXCEPT ![n] = to]
  /\ UNCHANGED <<pidfile, proc, session, crashes, drops>>

----------------------------------------------------------------------------
StopSteps(s) == Check(s) \/ Stop(s) \/ AwaitDeath(s) \/ GiveUp(s)
StartSteps(s) ==
  \/ BringUp(s) \/ CheckPort(s) \/ Spawn(s) \/ Retry(s) \/ SeeListening(s)
  \/ OpenPidfile(s) \/ WritePid(s)

Proceed(s) == StopSteps(s) \/ StartSteps(s) \/ TakeDown(s)
Start(s) == \E n \in Names : BeginUp(s, n) \/ BeginDown(s, n)
Advance(p) == Connect(p) \/ CannotConnect(p) \/ Terminate(p)

Next ==
  \/ \E s \in Sessions :
       Start(s) \/ Proceed(s) \/ Exit(s) \/ WaitTooLong(s) \/ Interrupt(s)
  \/ \E p \in Pids : Advance(p) \/ Drop(p) \/ Strange(p)
  \/ \E n \in Names : Changes(n, "starting", "on") \/ Changes(n, "on", "off")
  \/ Reboot

Spec == Init /\ [][Next]_vars

\* hermit does not stop between two steps, and a gcloud process connects,
\* fails or obeys SIGTERM; nobody has to start a command or end a session.
FairSpec ==
  /\ Spec
  /\ \A s \in Sessions : WF_vars(Proceed(s))
  /\ \A p \in Pids : WF_vars(Advance(p))

----------------------------------------------------------------------------
(* What is to hold.                                                        *)

TypeOK ==
  /\ pidfile \in [Names -> Pids \union {NoPid, Garbled}]
  /\ proc \in [Pids -> Tunnels \union Strangers \union {Free}]
  /\ machine \in [Names -> {"off", "starting", "on"}]
  /\ session \in [Sessions -> Commands \union {Idle}]
  /\ crashes \in 0 .. MaxCrashes /\ drops \in 0 .. MaxDrops

\* Session s has a child that no pid file names yet.
Starting(s, p) == session[s].pc \in {"wait", "open", "write"} /\ session[s].pid = p

\* Every tunnel that runs can be found, unless a session died: its pid file
\* names it, or the up that started it is still about to write it.
Findable ==
  crashes = 0 =>
    \A p \in Pids, n \in Names :
      Forwards(p, n) => pidfile[n] = p \/ \E s \in Sessions : Name(s) = n /\ Starting(s, p)

\* Up reports a tunnel "on port {local_port}" and tells its user to connect to
\* the machine through it: unless a session died before, whoever listens there
\* then is the tunnel it started.
Leads ==
  [][\A s \in Sessions :
       crashes = 0 /\ At(s, "write") /\ pidfile'[Name(s)] = session[s].pid =>
         \A p \in Pids : ListensFor(p, Name(s)) => p = session[s].pid]_vars

\* Down hangs up before it takes a machine away, so that the next up finds
\* the port free: unless a session died, no tunnel to the machine is left.
DownHangsUp ==
  [][\A s \in Sessions :
       crashes = 0 /\ At(s, "take down") /\ ~At(s, "take down")' =>
         \A p \in Pids : ~Forwards(p, Name(s))]_vars

\* "Stopping tunnel (by terminating pid={pid})": what is terminated is the
\* tunnel of that name.
StopsOnlyTunnels ==
  [][\A s \in Sessions :
       At(s, "stop") /\ At(s, "await death")' =>
         proc[session'[s].pid].name = Name(s)]_vars

\* "Tunnel appears to already be stopped": down finds no tunnel only if there
\* is none.
StoppedMeansStopped ==
  [][\A s \in Sessions :
       At(s, "check") /\ At(s, "take down")' =>
         \A p \in Pids : ~Forwards(p, Name(s))]_vars

\* A tunnel whose up died before it wrote the pid.
Stray(p) ==
  /\ proc[p].kind = "listening" /\ ~proc[p].term
  /\ \A n \in Names : pidfile[n] # p
  /\ \A s \in Sessions : session[s].pid # p

\* A pid file that an up emptied and did not live to write.
Emptied(n) ==
  /\ pidfile[n] = Garbled
  /\ \A s \in Sessions : Name(s) = n => session[s].pc \in {"bring up", "check"}

\* What a dead up leaves behind, no command repairs.  A stray tunnel is never
\* stopped or learnt of: it holds its port until it ends by itself.  An empty
\* pid file stays, and no up or down of that name gets past reading it.
LeftoversStay ==
  [][/\ \A p \in Pids : Stray(p) => Stray(p)' \/ proc'[p].kind \in {"free", "dead"}
     /\ \A n \in Names : Emptied(n) => Emptied(n)']_vars

\* Every command comes to its end: none waits forever for a child or a port.
CommandsEnd == \A s \in Sessions : []<>At(s, "idle")

\* A down that has terminated the tunnel sees it gone and takes the machine
\* down, even if the tunnel is a child of its own process.
DownGoesOn ==
  \A s \in Sessions :
    At(s, "await death") /\ session[s].command = "down" ~> At(s, "take down")
=============================================================================
