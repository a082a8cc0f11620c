---------------------------- MODULE TunnelProofs ----------------------------
(***************************************************************************)
(* Proofs about Tunnel, for any number of sessions, names, pids and        *)
(* attempts, and any faults.                                               *)
(***************************************************************************)
EXTENDS Tunnel, TLAPS

----------------------------------------------------------------------------
(* How a session moves.                                                    *)

Rest == <<pidfile, proc, machine, crashes, drops>>
Sessions0 == [Sessions -> Commands \union {Idle}]

LEMMA CommandTypes ==
  ASSUME TypeOK, NEW s \in Sessions
  PROVE  /\ session \in Sessions0
         /\ ~At(s, "idle") => session[s] \in Commands /\ session[s].pc \in Pcs /\ Name(s) \in Names
         /\ At(s, "idle") => session[s] = Idle
         /\ "idle" \notin Pcs
<1>1. session \in Sessions0 /\ session[s] \in Commands \union {Idle}
  BY DEF TypeOK, Sessions0
<1>2. "idle" \notin Pcs
  BY DEF Pcs
<1>3. session[s] \in Commands => session[s].pc \in Pcs /\ session[s].name \in Names
  BY DEF Commands
<1>4. Idle.pc = "idle"
  BY DEF Idle
<1> QED BY <1>1, <1>2, <1>3, <1>4 DEF At, Name

\* A session that goes on keeps the rest of what it knows, one that comes to
\* its end forgets it; the others stay where they are.
LEMMA Goes ==
  ASSUME TypeOK, NEW s \in Sessions, ~At(s, "idle"), NEW pc \in Pcs \union {"idle"},
         Goto(s, pc)
  PROVE  /\ session' \in Sessions0
         /\ session'[s].pc = pc
         /\ pc = "idle" => session'[s] = Idle
         /\ pc # "idle" => /\ session'[s].name = Name(s)
                           /\ session'[s].command = session[s].command
                           /\ session'[s].pid = session[s].pid
                           /\ session'[s].tries = session[s].tries
         /\ \A t \in Sessions : t # s => session'[t] = session[t]
<1>1. session \in Sessions0 /\ session[s] \in Commands /\ "idle" \notin Pcs
  BY CommandTypes
<1>2. CASE pc = "idle"
  <2>1. session' = [session EXCEPT ![s] = Idle]
    BY <1>2 DEF Goto
  <2> QED BY <1>1, <1>2, <2>1 DEF Sessions0, Idle
<1>3. CASE pc # "idle"
  <2>1. session' = [session EXCEPT ![s] = [session[s] EXCEPT !.pc = pc]]
    BY <1>3 DEF Goto
  <2>2. [session[s] EXCEPT !.pc = pc] \in Commands
    BY <1>1, <1>3 DEF Commands
  <2>3. session'[s] = [session[s] EXCEPT !.pc = pc]
    BY <1>1, <2>1 DEF Sessions0
  <2> QED BY <1>1, <1>3, <2>1, <2>2, <2>3 DEF Sessions0, Commands, Name
<1> QED BY <1>2, <1>3

LEMMA Begins ==
  ASSUME TypeOK, NEW s \in Sessions, NEW command \in {"up", "down"}, NEW n \in Names,
         NEW pc \in Pcs, Begin(s, command, n, pc)
  PROVE  /\ session' \in Sessions0
         /\ session'[s].pc = pc /\ session'[s].name = n /\ session'[s].pid = NoPid
         /\ session'[s].tries = 0
         /\ \A t \in Sessions : t # s => session'[t] = session[t]
         /\ UNCHANGED Rest
<1>1. session \in Sessions0
  BY CommandTypes
<1> DEFINE begun == [Idle EXCEPT !.pc = pc, !.command = command, !.name = n]
           Any == [pc : Pcs \union {"idle"}, command : {"up", "down", "none"},
                   name : Names \union {NoName}, pid : Pids \union {NoPid},
                   tries : 0 .. MaxAttempts]
<1>2. Idle \in Any /\ Idle.pid = NoPid /\ Idle.tries = 0
  BY BoundsAssumption DEF Idle
<1>3. /\ begun \in Commands
      /\ begun.pc = pc /\ begun.name = n /\ begun.pid = NoPid /\ begun.tries = 0
  BY <1>2 DEF Commands
<1>4. session' = [session EXCEPT ![s] = begun] /\ UNCHANGED Rest
  BY DEF Begin, Rest
<1> HIDE DEF begun
<1> QED BY <1>1, <1>3, <1>4 DEF Sessions0

----------------------------------------------------------------------------
(* What becomes of a process.                                              *)

Processes == Tunnels \union Strangers \union {Free}

LEMMA Kinds ==
  ASSUME NEW x \in Processes
  PROVE  /\ x.kind \in {"starting", "listening", "dead"} <=> x \in Tunnels
         /\ x.kind = "free" <=> x = Free
         /\ x.kind = "stranger" <=> x \in Strangers
         /\ x \in Strangers => x.parent = NoSession /\ x.name = NoName
         /\ Free.name = NoName /\ Free.term = FALSE /\ Free.parent = NoSession
<1> DEFINE Any == [kind : {"free", "stranger"}, name : {NoName}, parent : {NoSession},
                   term : BOOLEAN]
<1>1. Free \in Any /\ Free.kind = "free" /\ Free.term = FALSE
  BY DEF Free
<1>2. Stranger \in Any /\ Stranger.kind = "stranger"
  BY <1>1 DEF Stranger
<1>3. \A y \in Strangers : y \in Any /\ y.kind = "stranger"
  BY <1>2 DEF Strangers
<1>4. \A y \in Tunnels : y.kind \in {"starting", "listening", "dead"}
  BY DEF Tunnels
<1> QED BY <1>1, <1>3, <1>4 DEF Processes

\* A running process may be told to end, or end.
LEMMA Told ==
  ASSUME NEW x \in Processes, x.kind # "free"
  PROVE  [x EXCEPT !.term = TRUE] \in Processes
<1>1. CASE x \in Tunnels
  BY <1>1 DEF Processes, Tunnels
<1>2. CASE x \in Strangers
  <2>1. [Stranger EXCEPT !.term = TRUE] \in Processes
    BY DEF Processes, Strangers
  <2>2. [[Stranger EXCEPT !.term = TRUE] EXCEPT !.term = TRUE] = [Stranger EXCEPT !.term = TRUE]
    BY DEF Stranger, Free
  <2> QED BY <1>2, <2>1, <2>2 DEF Strangers
<1> QED BY <1>1, <1>2, Kinds DEF Processes

Ended(x) == IF x.parent = NoSession THEN Free ELSE [x EXCEPT !.kind = "dead"]

LEMMA EndedType ==
  ASSUME NEW x \in Processes
  PROVE  Ended(x) \in Processes /\ Ended(x).kind \in {"free", "dead"}
<1>1. CASE x.parent = NoSession
  BY <1>1, Kinds DEF Ended, Processes
<1>2. CASE x.parent # NoSession
  <2>1. x \in Tunnels
    BY <1>2, Kinds DEF Processes
  <2> QED BY <1>2, <2>1 DEF Ended, Processes, Tunnels
<1> QED BY <1>1, <1>2

LEMMA ReapedType ==
  ASSUME proc \in [Pids -> Processes], NEW s
  PROVE  /\ Reaped(s) \in [Pids -> Processes]
         /\ \A p \in Pids : Reaped(s)[p] = proc[p] \/ (proc[p].kind = "dead" /\ Reaped(s)[p] = Free)
BY DEF Reaped, Processes

LEMMA OrphanedType ==
  ASSUME proc \in [Pids -> Processes], NEW s \in Sessions
  PROVE  /\ Orphaned(s) \in [Pids -> Processes]
         /\ \A p \in Pids :
              \/ proc[p].kind = "dead" /\ Orphaned(s)[p] = Free
              \/ /\ Orphaned(s)[p].kind = proc[p].kind /\ Orphaned(s)[p].name = proc[p].name
                 /\ Orphaned(s)[p].term = proc[p].term
<1> DEFINE orphan(p) == IF proc[p].parent # s THEN proc[p]
                        ELSE IF proc[p].kind = "dead" THEN Free
                        ELSE [proc[p] EXCEPT !.parent = NoSession]
<1>1. ASSUME NEW p \in Pids
      PROVE  /\ orphan(p) \in Processes
             /\ \/ proc[p].kind = "dead" /\ orphan(p) = Free
                \/ /\ orphan(p).kind = proc[p].kind /\ orphan(p).name = proc[p].name
                   /\ orphan(p).term = proc[p].term
  <2>1. CASE proc[p].parent # s
    <3>1. orphan(p) = proc[p] /\ proc[p] \in Processes
      BY <1>1, <2>1
    <3> HIDE DEF orphan
    <3> QED BY <3>1
  <2>2. CASE proc[p].parent = s /\ proc[p].kind = "dead"
    BY <1>1, <2>2 DEF Processes
  <2>3. CASE proc[p].parent = s /\ proc[p].kind # "dead"
    <3>1. orphan(p) = [proc[p] EXCEPT !.parent = NoSession]
      BY <2>3
    <3>2. proc[p] \in Tunnels
      BY <1>1, <2>3, Kinds, NullsAssumption DEF Processes
    <3> QED BY <3>1, <3>2 DEF Processes, Tunnels
  <2> QED BY <2>1, <2>2, <2>3
<1> QED BY <1>1 DEF Orphaned

----------------------------------------------------------------------------
(* Type correctness.  That the attempts of an up stay in their range rests *)
(* on where they are counted.                                              *)

Counts(s) ==
  /\ session[s].pc = "spawn" => session[s].tries < MaxAttempts
  /\ session[s].pc \in {"bring up", "check", "stop", "await death", "check port"}
       => session[s].tries = 0

TInv == TypeOK /\ \A s \in Sessions : Counts(s)

LEMMA TypeInit == Init => TInv
<1> SUFFICES ASSUME Init PROVE TInv
  OBVIOUS
<1>1. session \in [Sessions -> Commands \union {Idle}] /\ \A s \in Sessions : Counts(s)
  BY DEF Init, Counts, Idle
<1>2. proc \in [Pids -> Tunnels \union Strangers \union {Free}]
  BY DEF Init
<1>3. pidfile \in [Names -> Pids \union {NoPid, Garbled}] /\ machine \in [Names -> {"off", "starting", "on"}]
  BY DEF Init
<1>4. crashes \in 0 .. MaxCrashes /\ drops \in 0 .. MaxDrops
  BY BoundsAssumption DEF Init
<1> QED BY <1>1, <1>2, <1>3, <1>4 DEF TInv, TypeOK

\* The types of all but the sessions.
WorldOK ==
  /\ pidfile \in [Names -> Pids \union {NoPid, Garbled}]
  /\ proc \in [Pids -> Processes]
  /\ machine \in [Names -> {"off", "starting", "on"}]
  /\ crashes \in 0 .. MaxCrashes /\ drops \in 0 .. MaxDrops

LEMMA Split == TypeOK <=> WorldOK /\ session \in Sessions0
BY DEF TypeOK, WorldOK, Processes, Sessions0

LEMMA SplitNext == TypeOK' <=> WorldOK' /\ session' \in Sessions0
BY DEF TypeOK, WorldOK, Processes, Sessions0

LEMMA CrashType ==
  ASSUME WorldOK, Crash
  PROVE  crashes' \in 0 .. MaxCrashes
BY BoundsAssumption DEF WorldOK, Crash

\* What a command does to files, processes and machines.
LEMMA CommandWorld ==
  ASSUME TypeOK, NEW s \in Sessions,
         Start(s) \/ Proceed(s) \/ Exit(s) \/ WaitTooLong(s) \/ Interrupt(s)
  PROVE  WorldOK'
<1> WorldOK
  BY Split
<1> USE DEF WorldOK
<1>1. CASE Start(s)
  BY <1>1 DEF Start, BeginUp, BeginDown, Begin
<1>2. CASE BringUp(s) \/ TakeDown(s)
  BY <1>2 DEF BringUp, TakeDown
<1>3. CASE Check(s) \/ CheckPort(s) \/ SeeListening(s)
  BY <1>3 DEF Check, CheckPort, SeeListening, Look
<1>4. CASE Stop(s)
  <2>1. CASE IsTunnelRunning(Name(s))
    <3>1. pidfile[Name(s)] \in Pids /\ proc[pidfile[Name(s)]].kind # "free"
      BY <2>1 DEF IsTunnelRunning, IsPidValid
    <3>2. [proc[pidfile[Name(s)]] EXCEPT !.term = TRUE] \in Processes
      BY <3>1, Told
    <3>3. proc' = [proc EXCEPT ![pidfile[Name(s)]] = [proc[pidfile[Name(s)]] EXCEPT !.term = TRUE]]
      BY <1>4, <2>1 DEF Stop
    <3>4. UNCHANGED <<pidfile, machine, crashes, drops>>
      BY <1>4, <2>1 DEF Stop
    <3> QED BY <3>1, <3>2, <3>3, <3>4
  <2>2. CASE ~IsTunnelRunning(Name(s))
    BY <1>4, <2>2 DEF Stop, Look
  <2> QED BY <2>1, <2>2
<1>5. CASE AwaitDeath(s)
  BY <1>5, ReapedType DEF AwaitDeath
<1>6. CASE GiveUp(s)
  BY <1>6, ReapedType, CrashType DEF GiveUp
<1>7. CASE Spawn(s)
  <2>1. Child(s) \in Processes
    BY <1>7, CommandTypes DEF Spawn, At, Child, Processes, Tunnels
  <2> QED BY <1>7, <2>1 DEF Spawn
<1>8. CASE Retry(s)
  <2>1. Free \in Processes
    BY DEF Processes
  <2> QED BY <1>8, <2>1 DEF Retry
<1>9. CASE OpenPidfile(s)
  BY <1>9 DEF OpenPidfile
<1>10. CASE WritePid(s)
  <2>1. session[s].pid \in Pids \union {NoPid}
    BY <1>10, CommandTypes DEF WritePid, At, Commands
  <2> QED BY <1>10, <2>1 DEF WritePid
<1>11. CASE Exit(s)
  BY <1>11, OrphanedType DEF Exit
<1>12. CASE WaitTooLong(s)
  BY <1>12, CrashType DEF WaitTooLong
<1>13. CASE Interrupt(s)
  BY <1>13, OrphanedType, CrashType DEF Interrupt
<1> QED BY <1>1, <1>2, <1>3, <1>4, <1>5, <1>6, <1>7, <1>8, <1>9, <1>10, <1>11, <1>12, <1>13
        DEF Proceed, StopSteps, StartSteps

\* What becomes of files, processes and machines without hermit.
LEMMA EndsProc ==
  ASSUME proc \in [Pids -> Processes], NEW p \in Pids, Ends(p)
  PROVE  /\ proc' \in [Pids -> Processes]
         /\ proc'[p].kind \in {"free", "dead"}
         /\ \A q \in Pids : q # p => proc'[q] = proc[q]
         /\ UNCHANGED <<pidfile, machine, session, crashes>>
<1>1. proc' = [proc EXCEPT ![p] = Ended(proc[p])] /\ UNCHANGED <<pidfile, machine, session, crashes>>
  BY DEF Ends, Ended
<1>2. Ended(proc[p]) \in Processes /\ Ended(proc[p]).kind \in {"free", "dead"}
  BY EndedType
<1> QED BY <1>1, <1>2

LEMMA EventWorld ==
  ASSUME TypeOK, 
         \/ \E p \in Pids : Advance(p) \/ Drop(p) \/ Strange(p)
         \/ \E n \in Names : Changes(n, "starting", "on") \/ Changes(n, "on", "off")
         \/ Reboot
         \/ UNCHANGED vars
  PROVE  WorldOK'
<1> WorldOK
  BY Split
<1> USE DEF WorldOK
<1>1. ASSUME NEW p \in Pids, Connect(p) PROVE WorldOK'
  <2>1. proc[p] \in Tunnels
    BY <1>1, Kinds DEF Connect
  <2>2. [proc[p] EXCEPT !.kind = "listening"] \in Processes
    BY <2>1 DEF Processes, Tunnels
  <2> QED BY <1>1, <2>2 DEF Connect
<1>2. ASSUME NEW p \in Pids, CannotConnect(p) \/ Terminate(p) PROVE WorldOK'
  BY <1>2, EndsProc DEF CannotConnect, Terminate
<1>3. ASSUME NEW p \in Pids, Drop(p) PROVE WorldOK'
  BY <1>3, EndsProc, BoundsAssumption DEF Drop
<1>4. ASSUME NEW p \in Pids, Strange(p) PROVE WorldOK'
  <2>1. Free \in Processes /\ Stranger \in Processes
    BY DEF Processes, Strangers
  <2> QED BY <1>4, <2>1 DEF Strange
<1>5. ASSUME NEW n \in Names, Changes(n, "starting", "on") \/ Changes(n, "on", "off")
      PROVE  WorldOK'
  BY <1>5 DEF Changes
<1>6. CASE Reboot
  BY <1>6, CrashType DEF Reboot, Processes
<1>7. CASE UNCHANGED vars
  BY <1>7 DEF vars
<1> QED BY <1>1, <1>2, <1>3, <1>4, <1>5, <1>6, <1>7 DEF Advance

\* Where a step of a session goes.
LEMMA CommandSession ==
  ASSUME TInv, NEW s \in Sessions,
         Start(s) \/ Proceed(s) \/ Exit(s) \/ WaitTooLong(s) \/ Interrupt(s)
  PROVE  /\ session' \in Sessions0
         /\ Counts(s)'
         /\ \A t \in Sessions : t # s => session'[t] = session[t]
<1> DEFINE Goal == /\ session' \in Sessions0
                   /\ Counts(s)'
                   /\ \A t \in Sessions : t # s => session'[t] = session[t]
<1>0. TypeOK /\ Counts(s) /\ session \in Sessions0
  BY CommandTypes DEF TInv
<1>1. ASSUME NEW pc \in Pcs \union {"idle"}, ~At(s, "idle"), Goto(s, pc), pc # "bring up",
             pc \in {"stop", "await death", "check", "check port", "spawn"} =>
               session[s].tries = 0
      PROVE  Goal
  <2>1. CASE pc = "idle"
    BY <1>0, <1>1, <2>1, Goes DEF Counts, Idle
  <2>2. CASE pc # "idle"
    <3>1. session'[s].pc = pc /\ session'[s].tries = session[s].tries
      BY <1>0, <1>1, <2>2, Goes
    <3>2. 0 < MaxAttempts
      BY BoundsAssumption
    <3>3. Counts(s)'
      BY <1>1, <3>1, <3>2 DEF Counts
    <3> QED BY <1>0, <1>1, <3>3, Goes
  <2> QED BY <2>1, <2>2
<1>2. CASE Start(s)
  <2>1. PICK n \in Names : BeginUp(s, n) \/ BeginDown(s, n)
    BY <1>2 DEF Start
  <2>2. "bring up" \in Pcs /\ "check" \in Pcs
    BY DEF Pcs
  <2>3. PICK pc \in {"bring up", "check"} :
          /\ session' \in Sessions0
          /\ session'[s].pc = pc /\ session'[s].tries = 0
          /\ \A t \in Sessions : t # s => session'[t] = session[t]
    BY <1>0, <2>1, <2>2, Begins DEF BeginUp, BeginDown
  <2> QED BY <2>3 DEF Counts
<1> USE DEF Look
<1>3. CASE BringUp(s) \/ Check(s) \/ AwaitDeath(s) \/ GiveUp(s) \/ CheckPort(s)
  <2>1. ~At(s, "idle") /\ session[s].tries = 0
    BY <1>0, <1>3 DEF BringUp, Check, AwaitDeath, GiveUp, CheckPort, At, Counts
  <2>2. \E pc \in Pcs \union {"idle"} : pc # "bring up" /\ Goto(s, pc)
    BY <1>3 DEF BringUp, Check, AwaitDeath, GiveUp, CheckPort, Stopped, Pcs
  <2> QED BY <1>1, <2>1, <2>2
<1>4. CASE \/ SeeListening(s) \/ OpenPidfile(s) \/ WritePid(s) \/ TakeDown(s)
           \/ WaitTooLong(s) \/ Interrupt(s)
  <2>1. ~At(s, "idle")
    BY <1>4 DEF SeeListening, OpenPidfile, WritePid, TakeDown, WaitTooLong, Interrupt, At
  <2>2. \E pc \in {"open", "write", "idle"} : Goto(s, pc)
    BY <1>4 DEF SeeListening, OpenPidfile, WritePid, TakeDown, WaitTooLong, Interrupt
  <2>3. {"open", "write", "idle"} \subseteq Pcs \union {"idle"}
    BY DEF Pcs
  <2> QED BY <1>1, <2>1, <2>2, <2>3
<1>5. CASE Stop(s)
  <2>1. CASE IsTunnelRunning(Name(s))
    <3>1. session[s] \in Commands /\ pidfile[Name(s)] \in Pids
      BY <1>0, <1>5, <2>1, CommandTypes DEF Stop, At, IsTunnelRunning
    <3> DEFINE x == [session[s] EXCEPT !.pc = "await death", !.pid = pidfile[Name(s)]]
    <3>2. x \in Commands /\ x.pc = "await death" /\ x.tries = session[s].tries
      BY <3>1 DEF Commands, Pcs
    <3>3. session' = [session EXCEPT ![s] = x]
      BY <1>0, <1>5, <2>1 DEF Stop, Sessions0
    <3>4. session[s].tries = 0
      BY <1>0, <1>5 DEF Stop, At, Counts
    <3> HIDE DEF x
    <3> QED BY <1>0, <3>2, <3>3, <3>4 DEF Sessions0, Counts
  <2>2. CASE ~IsTunnelRunning(Name(s))
    BY <1>1, <1>5, <2>2 DEF Stop, At
  <2> QED BY <2>1, <2>2
<1>6. CASE Spawn(s)
  <2>1. PICK p \in Pids :
          session' = [session EXCEPT ![s].pc = "wait", ![s].pid = p,
                                     ![s].tries = session[s].tries + 1]
    BY <1>6 DEF Spawn
  <2>2. session[s] \in Commands /\ session[s].tries < MaxAttempts
    BY <1>0, <1>6, CommandTypes DEF Spawn, At, Counts
  <2> DEFINE x == [session[s] EXCEPT !.pc = "wait", !.pid = p, !.tries = session[s].tries + 1]
  <2>3. session[s].tries \in 0 .. MaxAttempts /\ session[s].tries + 1 \in 0 .. MaxAttempts
    BY <2>2, BoundsAssumption DEF Commands
  <2>4. x \in Commands /\ x.pc = "wait"
    BY <2>2, <2>3 DEF Commands, Pcs
  <2>5. session' = [session EXCEPT ![s] = x]
    BY <1>0, <2>1 DEF Sessions0
  <2> HIDE DEF x
  <2> QED BY <1>0, <2>4, <2>5 DEF Sessions0, Counts
<1>7. CASE Retry(s)
  <2>1. session[s] \in Commands
    BY <1>0, <1>7, CommandTypes DEF Retry, At
  <2> DEFINE x == [session[s] EXCEPT !.pc = "spawn", !.pid = NoPid]
  <2>2. x \in Commands /\ x.pc = "spawn" /\ x.tries = session[s].tries
    BY <2>1 DEF Commands, Pcs
  <2>3. session' = [session EXCEPT ![s] = IF session[s].tries < MaxAttempts THEN x ELSE Idle]
    BY <1>0, <1>7 DEF Retry, Sessions0
  <2> HIDE DEF x
  <2>4. CASE session[s].tries < MaxAttempts
    BY <1>0, <2>2, <2>3, <2>4 DEF Sessions0, Counts
  <2>5. CASE ~(session[s].tries < MaxAttempts)
    BY <1>0, <2>3, <2>5 DEF Sessions0, Counts, Idle
  <2> QED BY <2>4, <2>5
<1>8. CASE Exit(s)
  BY <1>0, <1>8 DEF Exit, Counts
<1> QED BY <1>2, <1>3, <1>4, <1>5, <1>6, <1>7, <1>8 DEF Proceed, StopSteps, StartSteps

LEMMA EventSession ==
  ASSUME \/ \E p \in Pids : Advance(p) \/ Drop(p) \/ Strange(p)
         \/ \E n \in Names : Changes(n, "starting", "on") \/ Changes(n, "on", "off")
         \/ UNCHANGED vars
  PROVE  session' = session
BY DEF Advance, Connect, CannotConnect, Terminate, Drop, Ends, Strange, Changes, vars

LEMMA TypeStep ==
  ASSUME TInv, [Next]_vars
  PROVE  TInv'
<1>0. TypeOK /\ (\A s \in Sessions : Counts(s)) /\ session \in Sessions0
  BY Split DEF TInv
<1>1. ASSUME NEW s \in Sessions,
             Start(s) \/ Proceed(s) \/ Exit(s) \/ WaitTooLong(s) \/ Interrupt(s)
      PROVE  TInv'
  <2>1. WorldOK' /\ session' \in Sessions0 /\ Counts(s)'
    BY <1>0, <1>1, CommandWorld, CommandSession
  <2>2. \A t \in Sessions : t # s => session'[t] = session[t]
    BY <1>1, CommandSession
  <2>3. \A t \in Sessions : Counts(t)'
    BY <1>0, <2>1, <2>2 DEF Counts
  <2> QED BY <2>1, <2>3, SplitNext DEF TInv
<1>2. CASE \/ \E p \in Pids : Advance(p) \/ Drop(p) \/ Strange(p)
           \/ \E n \in Names : Changes(n, "starting", "on") \/ Changes(n, "on", "off")
           \/ UNCHANGED vars
  <2>1. WorldOK' /\ session' = session
    BY <1>0, <1>2, EventWorld, EventSession
  <2> QED BY <1>0, <2>1, SplitNext DEF TInv, Counts
<1>3. CASE Reboot
  <2>1. WorldOK' /\ session' = [s \in Sessions |-> Idle]
    BY <1>0, <1>3, EventWorld DEF Reboot
  <2>2. session' \in Sessions0 /\ \A s \in Sessions : Counts(s)'
    BY <2>1 DEF Sessions0, Counts, Idle
  <2> QED BY <2>1, <2>2, SplitNext DEF TInv
<1> QED BY <1>1, <1>2, <1>3 DEF Next

LEMMA AlwaysTyped == Spec => []TInv
BY TypeInit, TypeStep, PTL DEF Spec

\* Types are kept: in particular no up starts more children than it may.
THEOREM TypeCorrect == Spec => []TypeOK
BY AlwaysTyped, PTL DEF TInv

----------------------------------------------------------------------------
(* A step as each process, each pid file and each session sees it.         *)

Pid(s) == session[s].pid

\* A process ends, goes on, connects, or is started.  Only a stop tells it to
\* end, one that read its pid.
Becomes(p) ==
  \/ proc'[p].kind \in {"free", "dead"}
  \/ proc[p].kind \in {"free", "stranger"} /\ proc'[p].kind = "stranger"
  \/ /\ proc'[p].kind = proc[p].kind /\ proc'[p].name = proc[p].name
     /\ \/ proc'[p].term = proc[p].term
        \/ \E s \in Sessions : At(s, "stop") /\ pidfile[Name(s)] = p /\ Name(s) \in Names
  \/ /\ proc[p].kind = "starting" /\ proc'[p].kind = "listening"
     /\ proc'[p].name = proc[p].name /\ proc'[p].term = proc[p].term
  \/ /\ proc[p].kind = "free" /\ proc'[p].kind = "starting"
     /\ \E s \in Sessions : /\ At(s, "spawn") /\ At(s, "wait")' /\ session'[s].pid = p
                            /\ proc'[p].name = Name(s) /\ session'[s].name = Name(s)

LEMMA EachProcess ==
  ASSUME TypeOK, [Next]_vars, NEW p \in Pids
  PROVE  Becomes(p)
<1>0. proc \in [Pids -> Processes]
  BY Split DEF WorldOK
<1>1. ASSUME proc'[p] = proc[p] PROVE Becomes(p)
  BY <1>1 DEF Becomes
<1>2. ASSUME NEW s \in Sessions, Start(s) PROVE Becomes(p)
  BY <1>1, <1>2 DEF Start, BeginUp, BeginDown, Begin
<1>3. ASSUME NEW s \in Sessions,
             \/ BringUp(s) \/ TakeDown(s) \/ Check(s) \/ CheckPort(s) \/ SeeListening(s)
             \/ OpenPidfile(s) \/ WritePid(s) \/ WaitTooLong(s)
      PROVE  Becomes(p)
  BY <1>1, <1>3 DEF BringUp, TakeDown, Check, CheckPort, SeeListening, OpenPidfile,
                    WritePid, WaitTooLong, Look
<1>4. ASSUME NEW s \in Sessions, Stop(s) PROVE Becomes(p)
  <2>1. CASE IsTunnelRunning(Name(s))
    <3>1. proc' = [proc EXCEPT ![pidfile[Name(s)]] = [proc[pidfile[Name(s)]] EXCEPT !.term = TRUE]]
      BY <1>4, <2>1 DEF Stop
    <3>2. At(s, "stop") /\ Name(s) \in Names
      BY <1>4, CommandTypes DEF Stop, At
    <3>3. CASE p = pidfile[Name(s)]
      <4>1. proc'[p] = [proc[p] EXCEPT !.term = TRUE]
        BY <1>0, <3>1, <3>3
      <4>2. proc'[p].kind = proc[p].kind /\ proc'[p].name = proc[p].name
        BY <4>1
      <4> QED BY <3>2, <3>3, <4>2 DEF Becomes
    <3>4. CASE p # pidfile[Name(s)]
      BY <1>0, <1>1, <3>1, <3>4
    <3> QED BY <3>3, <3>4
  <2>2. CASE ~IsTunnelRunning(Name(s))
    BY <1>1, <1>4, <2>2 DEF Stop, Look
  <2> QED BY <2>1, <2>2
<1>5. ASSUME NEW s \in Sessions, AwaitDeath(s) \/ GiveUp(s) PROVE Becomes(p)
  <2>1. proc' = Reaped(s)
    BY <1>5 DEF AwaitDeath, GiveUp
  <2>2. proc'[p] = proc[p] \/ proc'[p] = Free
    BY <1>0, <2>1, ReapedType
  <2> QED BY <1>1, <2>2 DEF Becomes, Free
<1>6. ASSUME NEW s \in Sessions, Spawn(s) PROVE Becomes(p)
  <2>1. PICK q \in Pids :
          /\ proc[q] = Free /\ proc' = [proc EXCEPT ![q] = Child(s)]
          /\ session' = [session EXCEPT ![s].pc = "wait", ![s].pid = q,
                                        ![s].tries = session[s].tries + 1]
    BY <1>6 DEF Spawn, Fresh
  <2>2. session[s] \in Commands /\ session \in Sessions0 /\ At(s, "spawn")
    BY <1>6, CommandTypes DEF Spawn, At
  <2>3. At(s, "wait")' /\ session'[s].pid = q /\ session'[s].name = Name(s)
    BY <2>1, <2>2 DEF Sessions0, Commands, At, Name
  <2>4. CASE p = q
    <3>1. proc'[p] = Child(s)
      BY <1>0, <2>1, <2>4
    <3>2. proc[p].kind = "free" /\ proc'[p].kind = "starting" /\ proc'[p].name = Name(s)
      BY <2>1, <2>4, <3>1 DEF Free, Child
    <3> QED BY <2>2, <2>3, <2>4, <3>2 DEF Becomes
  <2>5. CASE p # q
    BY <1>0, <1>1, <2>1, <2>5
  <2> QED BY <2>4, <2>5
<1>7. ASSUME NEW s \in Sessions, Retry(s) PROVE Becomes(p)
  <2>1. proc'[p] = proc[p] \/ proc'[p] = Free
    BY <1>0, <1>7 DEF Retry
  <2> QED BY <1>1, <2>1 DEF Becomes, Free
<1>8. ASSUME NEW s \in Sessions, Exit(s) \/ Interrupt(s) PROVE Becomes(p)
  <2>1. proc' = Orphaned(s)
    BY <1>8 DEF Exit, Interrupt
  <2>2. \/ proc'[p] = Free
        \/ /\ proc'[p].kind = proc[p].kind /\ proc'[p].name = proc[p].name
           /\ proc'[p].term = proc[p].term
    BY <1>0, <2>1, OrphanedType
  <2> QED BY <2>2 DEF Becomes, Free
<1>9. ASSUME NEW q \in Pids, Connect(q) PROVE Becomes(p)
  <2>1. proc' = [proc EXCEPT ![q] = [proc[q] EXCEPT !.kind = "listening"]]
    BY <1>9 DEF Connect
  <2>2. CASE p = q
    <3>1. proc[p] \in Tunnels /\ proc[p].kind = "starting"
      BY <1>0, <1>9, <2>2, Kinds DEF Connect
    <3>2. proc'[p] = [proc[p] EXCEPT !.kind = "listening"]
      BY <1>0, <2>1, <2>2
    <3>3. proc'[p].kind = "listening" /\ proc'[p].name = proc[p].name /\ proc'[p].term = proc[p].term
      BY <3>1, <3>2 DEF Tunnels
    <3> QED BY <3>1, <3>3 DEF Becomes
  <2>3. CASE p # q
    BY <1>0, <1>1, <2>1, <2>3
  <2> QED BY <2>2, <2>3
<1>10. ASSUME NEW q \in Pids, CannotConnect(q) \/ Terminate(q) \/ Drop(q) PROVE Becomes(p)
  <2>1. Ends(q)
    BY <1>10 DEF CannotConnect, Terminate, Drop
  <2>2. proc'[q].kind \in {"free", "dead"} /\ \A r \in Pids : r # q => proc'[r] = proc[r]
    BY <1>0, <2>1, EndsProc
  <2> QED BY <1>1, <2>2 DEF Becomes
<1>11. ASSUME NEW q \in Pids, Strange(q) PROVE Becomes(p)
  <2>1. CASE p = q
    <3>1. proc[p] \in {Free, Stranger} /\ proc'[p] \in {Free, Stranger}
      BY <1>0, <1>11, <2>1 DEF Strange
    <3>2. Free.kind = "free" /\ Stranger.kind = "stranger"
      BY DEF Free, Stranger
    <3> QED BY <3>1, <3>2 DEF Becomes
  <2>2. CASE p # q
    BY <1>0, <1>1, <1>11, <2>2 DEF Strange
  <2> QED BY <2>1, <2>2
<1>12. CASE \E n \in Names : Changes(n, "starting", "on") \/ Changes(n, "on", "off")
  BY <1>1, <1>12 DEF Changes
<1>13. CASE Reboot
  BY <1>13 DEF Reboot, Becomes, Free
<1>14. CASE UNCHANGED vars
  BY <1>1, <1>14 DEF vars
<1> QED BY <1>2, <1>3, <1>4, <1>5, <1>6, <1>7, <1>8, <1>9, <1>10, <1>11, <1>12, <1>13, <1>14
        DEF Next, Proceed, StopSteps, StartSteps, Advance

\* A pid file is emptied and written by an up of its name, a step each.
FileStep(n) ==
  \/ pidfile'[n] = pidfile[n]
  \/ \E s \in Sessions : /\ At(s, "open") /\ At(s, "write")' /\ Name(s) = n
                         /\ session'[s].name = n /\ session'[s].pid = Pid(s)
                         /\ pidfile'[n] = Garbled
  \/ \E s \in Sessions : At(s, "write") /\ Name(s) = n /\ pidfile'[n] = Pid(s)

LEMMA EachFile ==
  ASSUME TypeOK, [Next]_vars, NEW n \in Names
  PROVE  FileStep(n)
<1>1. ASSUME NEW s \in Sessions, OpenPidfile(s) PROVE FileStep(n)
  <2>1. ~At(s, "idle") /\ "write" \in Pcs /\ "write" # "idle" /\ Goto(s, "write") /\ At(s, "open")
    BY <1>1 DEF OpenPidfile, At, Pcs
  <2>2. At(s, "write")' /\ session'[s].name = Name(s) /\ session'[s].pid = Pid(s)
    BY <2>1, Goes DEF At, Pid
  <2>3. pidfile' = [pidfile EXCEPT ![Name(s)] = Garbled] /\ pidfile \in [Names -> Pids \union {NoPid, Garbled}]
    BY <1>1 DEF OpenPidfile, TypeOK
  <2> QED BY <2>1, <2>2, <2>3 DEF FileStep
<1>2. ASSUME NEW s \in Sessions, WritePid(s) PROVE FileStep(n)
  BY <1>2 DEF WritePid, TypeOK, FileStep, Pid
<1>3. CASE pidfile' = pidfile
  BY <1>3 DEF FileStep
<1>4. ASSUME NEW s \in Sessions, 
             \/ Start(s) \/ StopSteps(s) \/ TakeDown(s) \/ Exit(s) \/ WaitTooLong(s)
             \/ Interrupt(s)
      PROVE  pidfile' = pidfile
  BY <1>4 DEF Start, BeginUp, BeginDown, Begin, StopSteps, Check, Stop, AwaitDeath, GiveUp,
              Look, TakeDown, Exit, WaitTooLong, Interrupt
<1>5. ASSUME NEW s \in Sessions,
             BringUp(s) \/ CheckPort(s) \/ Spawn(s) \/ Retry(s) \/ SeeListening(s)
      PROVE  pidfile' = pidfile
  BY <1>5 DEF BringUp, CheckPort, Spawn, Retry, SeeListening, Look
<1>6. ASSUME NEW p \in Pids, Advance(p) \/ Drop(p) \/ Strange(p) PROVE pidfile' = pidfile
  BY <1>6 DEF Advance, Connect, CannotConnect, Terminate, Drop, Ends, Strange
<1>7. CASE \/ \E m \in Names : Changes(m, "starting", "on") \/ Changes(m, "on", "off")
           \/ Reboot \/ UNCHANGED vars
  BY <1>3, <1>7 DEF Changes, Reboot, vars
<1> QED BY <1>1, <1>2, <1>3, <1>4, <1>5, <1>6, <1>7 DEF Next, Proceed, StartSteps

\* A session begins, goes on, or comes to its end.
Enters(t) ==
  /\ At(t, "idle") /\ session'[t].pc \in {"bring up", "check"}
  /\ session'[t].pid = NoPid /\ session'[t].name \in Names
  /\ Overlap \/ \A u \in Sessions : Name(u) # session'[t].name
  /\ \A u \in Sessions : u # t => session'[u] = session[u]

GoesOn(t) ==
  /\ session'[t].name = Name(t) /\ ~At(t, "idle")
  /\ \/ /\ session'[t].pid = Pid(t)
        /\ \/ At(t, "bring up") /\ At(t, "check")'
           \/ /\ At(t, "check") /\ pidfile[Name(t)] # Garbled
              /\ \/ At(t, "stop")'
                 \/ session'[t].pc \in {"check port", "take down"} /\ ~IsTunnelRunning(Name(t))
           \/ /\ At(t, "await death") /\ session'[t].pc \in {"check port", "take down"}
              /\ Pid(t) \in Pids => proc[Pid(t)].kind \in {"free", "dead"}
           \/ At(t, "check port") /\ At(t, "spawn")' /\ IsPortFree(Name(t))
           \/ At(t, "wait") /\ At(t, "open")' /\ IsPortListening(Name(t))
           \/ At(t, "open") /\ At(t, "write")'
     \/ /\ At(t, "stop") /\ At(t, "await death")'
        /\ session'[t].pid = pidfile[Name(t)] /\ IsTunnelRunning(Name(t))
     \/ /\ At(t, "spawn") /\ At(t, "wait")'
        /\ session'[t].pid \in Pids /\ proc[session'[t].pid].kind = "free"
     \/ /\ At(t, "wait") /\ At(t, "spawn")'
        /\ session'[t].pid = NoPid /\ proc[Pid(t)].kind = "dead"

Ends0(t) ==
  /\ session'[t] = Idle
  /\ \/ session[t].pc \notin {"wait", "open", "write"}
     \/ crashes' = crashes + 1
     \/ At(t, "wait") /\ proc[Pid(t)].kind = "dead"
     \/ At(t, "write") /\ pidfile'[Name(t)] = Pid(t)

Moves(t) == session'[t] = session[t] \/ Enters(t) \/ GoesOn(t) \/ Ends0(t)

LEMMA MoverMoves ==
  ASSUME TypeOK, NEW s \in Sessions,
         Start(s) \/ Proceed(s) \/ Exit(s) \/ WaitTooLong(s) \/ Interrupt(s)
  PROVE  Moves(s)
<1>0. session \in Sessions0 /\ WorldOK
  BY Split
<1>1. CASE Start(s)
  <2>1. PICK n \in Names : BeginUp(s, n) \/ BeginDown(s, n)
    BY <1>1 DEF Start
  <2>2. "bring up" \in Pcs /\ "check" \in Pcs
    BY DEF Pcs
  <2>3. PICK pc \in {"bring up", "check"} :
          /\ session'[s].pc = pc /\ session'[s].name = n /\ session'[s].pid = NoPid
          /\ \A t \in Sessions : t # s => session'[t] = session[t]
    BY <2>1, <2>2, Begins DEF BeginUp, BeginDown
  <2>4. At(s, "idle") /\ (Overlap \/ \A t \in Sessions : Name(t) # n)
    BY <2>1 DEF BeginUp, BeginDown, Begin
  <2> QED BY <2>3, <2>4 DEF Moves, Enters
<1>2. ASSUME NEW pc \in Pcs, ~At(s, "idle"), Goto(s, pc)
      PROVE  /\ session'[s].pc = pc /\ session'[s].name = Name(s) /\ session'[s].pid = Pid(s)
  BY <1>2, Goes, CommandTypes DEF Pid
<1>3. ASSUME ~At(s, "idle"), Goto(s, "idle"),
             \/ session[s].pc \notin {"wait", "open", "write"}
             \/ crashes' = crashes + 1
             \/ At(s, "write") /\ pidfile'[Name(s)] = Pid(s)
      PROVE  Moves(s)
  BY <1>3, Goes DEF Moves, Ends0
<1>4. CASE BringUp(s)
  <2>1. At(s, "bring up") /\ ~At(s, "idle") /\ Goto(s, "check") /\ "check" \in Pcs
    BY <1>4 DEF BringUp, At, Pcs
  <2> QED BY <1>2, <2>1 DEF Moves, GoesOn, At
<1>5. CASE Check(s)
  <2>1. At(s, "check") /\ ~At(s, "idle")
    BY <1>5 DEF Check, At
  <2>2. CASE ReadPidFails(Name(s))
    <3>1. Goto(s, "idle")
      BY <1>5, <2>2, NullsAssumption DEF Check, Look, IsTunnelRunning, ReadPidFails
    <3> QED BY <1>3, <2>1, <3>1 DEF At
  <2>3. CASE ~ReadPidFails(Name(s)) /\ IsTunnelRunning(Name(s))
    <3>1. Goto(s, "stop") /\ "stop" \in Pcs
      BY <1>5, <2>3 DEF Check, Look, Pcs
    <3> QED BY <1>2, <2>1, <2>3, <3>1 DEF Moves, GoesOn, At, ReadPidFails
  <2>4. CASE ~ReadPidFails(Name(s)) /\ ~IsTunnelRunning(Name(s))
    <3>1. Goto(s, Stopped(s)) /\ Stopped(s) \in {"check port", "take down"}
      BY <1>5, <2>4 DEF Check, Look, Stopped
    <3>2. Stopped(s) \in Pcs
      BY <3>1 DEF Pcs
    <3> QED BY <1>2, <2>1, <2>4, <3>1, <3>2 DEF Moves, GoesOn, At, ReadPidFails
  <2> QED BY <2>2, <2>3, <2>4
<1>6. CASE Stop(s)
  <2>1. At(s, "stop") /\ ~At(s, "idle")
    BY <1>6 DEF Stop, At
  <2>2. CASE IsTunnelRunning(Name(s))
    <3>1. session' = [session EXCEPT ![s].pc = "await death", ![s].pid = pidfile[Name(s)]]
      BY <1>6, <2>2 DEF Stop
    <3>2. session[s] \in Commands
      BY <2>1, CommandTypes
    <3>3. At(s, "await death")' /\ session'[s].pid = pidfile[Name(s)] /\ session'[s].name = Name(s)
      BY <1>0, <3>1, <3>2 DEF Sessions0, Commands, At, Name
    <3> QED BY <2>1, <2>2, <3>3 DEF Moves, GoesOn
  <2>3. CASE ~IsTunnelRunning(Name(s))
    BY <1>3, <1>6, <2>1, <2>3 DEF Stop, Look, At
  <2> QED BY <2>2, <2>3
<1>7. CASE AwaitDeath(s)
  <2>1. At(s, "await death") /\ ~At(s, "idle") /\ Goto(s, Stopped(s)) /\ Reaped(s)[Pid(s)] = Free
    BY <1>7 DEF AwaitDeath, At, Pid
  <2>2. Stopped(s) \in {"check port", "take down"} /\ Stopped(s) \in Pcs
    BY DEF Stopped, Pcs
  <2>3. Pid(s) \in Pids => proc[Pid(s)].kind \in {"free", "dead"}
    <3>1. Free.kind = "free"
      BY DEF Free
    <3>2. ASSUME Pid(s) \in Pids PROVE proc[Pid(s)].kind = "dead" \/ proc[Pid(s)] = Free
      BY <1>0, <2>1, <3>2, ReapedType DEF WorldOK
    <3> QED BY <3>1, <3>2
  <2> QED BY <1>2, <2>1, <2>2, <2>3 DEF Moves, GoesOn, At
<1>8. CASE GiveUp(s) \/ TakeDown(s)
  BY <1>3, <1>8 DEF GiveUp, TakeDown, At
<1>9. CASE CheckPort(s)
  <2>1. /\ At(s, "check port") /\ ~At(s, "idle")
        /\ (Goto(s, "spawn") /\ IsPortFree(Name(s))) \/ Goto(s, "idle")
    BY <1>9 DEF CheckPort, Look, At
  <2>2. "spawn" \in Pcs /\ session[s].pc \notin {"wait", "open", "write"}
    BY <2>1 DEF Pcs, At
  <2>3. CASE Goto(s, "spawn") /\ IsPortFree(Name(s))
    BY <1>2, <2>1, <2>2, <2>3 DEF Moves, GoesOn, At
  <2>4. CASE Goto(s, "idle")
    BY <1>3, <2>1, <2>2, <2>4
  <2> QED BY <2>1, <2>3, <2>4
<1>10. CASE Spawn(s)
  <2>1. PICK q \in Pids :
          /\ proc[q] = Free
          /\ session' = [session EXCEPT ![s].pc = "wait", ![s].pid = q,
                                        ![s].tries = session[s].tries + 1]
    BY <1>10 DEF Spawn, Fresh
  <2>2. session[s] \in Commands /\ At(s, "spawn") /\ ~At(s, "idle")
    BY <1>10, CommandTypes DEF Spawn, At
  <2>3. At(s, "wait")' /\ session'[s].pid = q /\ session'[s].name = Name(s)
    BY <1>0, <2>1, <2>2 DEF Sessions0, Commands, At, Name
  <2>4. q \in Pids /\ proc[q].kind = "free"
    BY <2>1 DEF Free
  <2> QED BY <2>2, <2>3, <2>4 DEF Moves, GoesOn
<1>11. CASE Retry(s)
  <2>1. session[s] \in Commands /\ At(s, "wait") /\ ~At(s, "idle") /\ proc[Pid(s)].kind = "dead"
    BY <1>11, CommandTypes DEF Retry, At, Pid
  <2>2. session'[s] = IF session[s].tries < MaxAttempts
                      THEN [session[s] EXCEPT !.pc = "spawn", !.pid = NoPid] ELSE Idle
    BY <1>0, <1>11 DEF Retry, Sessions0
  <2>3. CASE session[s].tries < MaxAttempts
    <3>1. At(s, "spawn")' /\ session'[s].pid = NoPid /\ session'[s].name = Name(s)
      BY <2>1, <2>2, <2>3 DEF Commands, At, Name
    <3> QED BY <2>1, <3>1 DEF Moves, GoesOn
  <2>4. CASE ~(session[s].tries < MaxAttempts)
    BY <2>1, <2>2, <2>4 DEF Moves, Ends0
  <2> QED BY <2>3, <2>4
<1>12. CASE SeeListening(s)
  <2>1. /\ At(s, "wait") /\ ~At(s, "idle") /\ Goto(s, "open") /\ "open" \in Pcs
        /\ IsPortListening(Name(s))
    BY <1>12 DEF SeeListening, Look, At, Pcs
  <2> QED BY <1>2, <2>1 DEF Moves, GoesOn, At
<1>13. CASE OpenPidfile(s)
  <2>1. At(s, "open") /\ ~At(s, "idle") /\ Goto(s, "write") /\ "write" \in Pcs
    BY <1>13 DEF OpenPidfile, At, Pcs
  <2> QED BY <1>2, <2>1 DEF Moves, GoesOn, At
<1>14. CASE WritePid(s)
  <2>1. At(s, "write") /\ ~At(s, "idle") /\ Goto(s, "idle")
    BY <1>14 DEF WritePid, At
  <2>2. pidfile'[Name(s)] = Pid(s)
    BY <1>0, <1>14, <2>1, CommandTypes DEF WritePid, WorldOK, Pid
  <2> QED BY <1>3, <2>1, <2>2
<1>15. CASE Exit(s)
  BY <1>15 DEF Exit, Moves
<1>16. CASE WaitTooLong(s) \/ Interrupt(s)
  BY <1>3, <1>16 DEF WaitTooLong, Interrupt, Crash, At
<1> QED BY <1>1, <1>4, <1>5, <1>6, <1>7, <1>8, <1>9, <1>10, <1>11, <1>12, <1>13, <1>14,
           <1>15, <1>16 DEF Proceed, StopSteps, StartSteps

LEMMA EachSession ==
  ASSUME TInv, [Next]_vars, NEW t \in Sessions
  PROVE  Moves(t)
<1>1. ASSUME NEW s \in Sessions,
             Start(s) \/ Proceed(s) \/ Exit(s) \/ WaitTooLong(s) \/ Interrupt(s)
      PROVE  Moves(t)
  BY <1>1, MoverMoves, CommandSession DEF TInv, Moves
<1>2. CASE \/ \E p \in Pids : Advance(p) \/ Drop(p) \/ Strange(p)
           \/ \E n \in Names : Changes(n, "starting", "on") \/ Changes(n, "on", "off")
           \/ UNCHANGED vars
  BY <1>2, EventSession DEF Moves
<1>3. CASE Reboot
  BY <1>3 DEF Reboot, Crash, Moves, Ends0
<1> QED BY <1>1, <1>2, <1>3 DEF Next
----------------------------------------------------------------------------
(* What a session that died leaves behind.                                 *)

\* Nobody opens an empty pid file but one that read it, and that fails.
LEMMA EmptiedStays ==
  ASSUME TInv, [Next]_vars, NEW n \in Names, Emptied(n)
  PROVE  Emptied(n)'
<1>0. /\ pidfile[n] = Garbled
      /\ \A s \in Sessions : Name(s) = n => session[s].pc \in {"bring up", "check"}
  BY DEF Emptied
<1>1. pidfile'[n] = Garbled
  <2>1. FileStep(n)
    BY EachFile DEF TInv
  <2> QED BY <1>0, <2>1 DEF FileStep, At
<1>2. ASSUME NEW t \in Sessions, session'[t].name = n
      PROVE  session'[t].pc \in {"bring up", "check"}
  <2>1. Moves(t) /\ Idle.name # n
    BY EachSession, NullsAssumption DEF Idle
  <2>2. CASE session'[t] = session[t]
    BY <1>0, <1>2, <2>2 DEF Name
  <2>3. CASE Enters(t)
    BY <2>3 DEF Enters
  <2>4. CASE GoesOn(t)
    BY <1>0, <1>2, <2>4 DEF GoesOn, At
  <2> QED BY <1>2, <2>1, <2>2, <2>3, <2>4 DEF Moves, Ends0
<1> QED BY <1>1, <1>2 DEF Emptied, Name

\* Nobody learns of a stray tunnel: a session knows a pid from a pid file or
\* because it is new, and a pid file gets it from a session.
LEMMA StrayStays ==
  ASSUME TInv, [Next]_vars, NEW p \in Pids, Stray(p)
  PROVE  Stray(p)' \/ proc'[p].kind \in {"free", "dead"}
<1>0. /\ proc[p].kind = "listening" /\ ~proc[p].term
      /\ \A n \in Names : pidfile[n] # p
      /\ \A s \in Sessions : Pid(s) # p
  BY DEF Stray, Pid
<1> SUFFICES ASSUME proc'[p].kind \notin {"free", "dead"} PROVE Stray(p)'
  OBVIOUS
<1>1. proc'[p].kind = "listening" /\ ~proc'[p].term
  <2>1. Becomes(p)
    BY EachProcess DEF TInv
  <2> QED BY <1>0, <2>1 DEF Becomes
<1>2. ASSUME NEW n \in Names PROVE pidfile'[n] # p
  <2>1. FileStep(n)
    BY EachFile DEF TInv
  <2> QED BY <1>0, <2>1, NullsAssumption DEF FileStep
<1>3. ASSUME NEW t \in Sessions PROVE session'[t].pid # p
  <2>1. Moves(t) /\ Idle.pid = NoPid
    BY EachSession DEF Idle
  <2>2. CASE GoesOn(t)
    <3>1. Name(t) \in Names
      BY <2>2, CommandTypes DEF TInv, GoesOn
    <3>2. \/ session'[t].pid \in {Pid(t), NoPid, pidfile[Name(t)]}
          \/ proc[session'[t].pid].kind = "free"
      BY <2>2 DEF GoesOn
    <3> QED BY <1>0, <3>1, <3>2, NullsAssumption
  <2>3. CASE ~GoesOn(t)
    BY <1>0, <2>1, <2>3, NullsAssumption DEF Moves, Enters, Ends0, Pid
  <2> QED BY <2>2, <2>3
<1> QED BY <1>1, <1>2, <1>3 DEF Stray

\* What an up that died leaves is not repaired: a tunnel no pid file names is
\* never stopped, and an empty pid file is never written again.
THEOREM LeftoversStayForGood == Spec => LeftoversStay
<1>1. TInv /\ [Next]_vars =>
        /\ \A p \in Pids : Stray(p) => Stray(p)' \/ proc'[p].kind \in {"free", "dead"}
        /\ \A n \in Names : Emptied(n) => Emptied(n)'
  BY EmptiedStays, StrayStays
<1> QED BY <1>1, AlwaysTyped, PTL DEF Spec, LeftoversStay
----------------------------------------------------------------------------
(* While no session dies and no two sessions are about one name, hermit    *)
(* knows its tunnels.                                                      *)

\* Two sessions are about two names.
Apart == \A s, t \in Sessions : s # t /\ Name(s) \in Names => Name(t) # Name(s)

\* A session waits for the process its pid file names.
Awaits(s) == At(s, "await death") => pidfile[Name(s)] = Pid(s) /\ Pid(s) \in Pids

\* No tunnel is there when one is to be started or the machine to be taken
\* down, and then no other than the one that was started.
Hears(s) ==
  \A p \in Pids : Forwards(p, Name(s)) =>
    /\ session[s].pc \notin {"check port", "spawn", "take down"}
    /\ session[s].pc \in {"wait", "open", "write"} => p = Pid(s)

Known ==
  /\ TInv /\ Apart
  /\ \A s \in Sessions : Awaits(s)
  /\ crashes = 0 => Findable /\ \A s \in Sessions : Hears(s)

LEMMA KnownInit == Init => Known
<1> SUFFICES ASSUME Init PROVE Known
  OBVIOUS
<1>1. TInv
  BY TypeInit
<1>2. \A s \in Sessions : session[s].pc = "idle" /\ Name(s) = NoName
  BY DEF Init, Idle, Name
<1>3. \A p \in Pids, n \in Names : ~Forwards(p, n)
  BY DEF Init, Free, Forwards
<1>4. \A s \in Sessions, p \in Pids : ~Forwards(p, Name(s))
  BY DEF Init, Free, Forwards
<1> QED BY <1>1, <1>2, <1>3, <1>4, NullsAssumption DEF Known, Apart, Awaits, At, Findable, Hears

\* A session that dies is counted.
LEMMA CrashCount ==
  ASSUME TypeOK, [Next]_vars
  PROVE  /\ crashes \in Nat
         /\ crashes' = crashes \/ crashes' = crashes + 1
<1>1. crashes \in Nat
  BY BoundsAssumption DEF TypeOK
<1>2. ASSUME NEW s \in Sessions,
             Start(s) \/ StopSteps(s) \/ TakeDown(s) \/ Exit(s) \/ WaitTooLong(s) \/ Interrupt(s)
      PROVE  crashes' = crashes \/ crashes' = crashes + 1
  BY <1>2 DEF Start, BeginUp, BeginDown, Begin, StopSteps, Check, Stop, AwaitDeath, GiveUp,
              Look, TakeDown, Exit, WaitTooLong, Interrupt, Crash
<1>3. ASSUME NEW s \in Sessions, StartSteps(s)
      PROVE  crashes' = crashes
  BY <1>3 DEF StartSteps, BringUp, CheckPort, Spawn, Retry, SeeListening, Look,
              OpenPidfile, WritePid
<1>4. ASSUME NEW p \in Pids, Advance(p) \/ Drop(p) \/ Strange(p) PROVE crashes' = crashes
  BY <1>4 DEF Advance, Connect, CannotConnect, Terminate, Drop, Ends, Strange
<1>5. ASSUME NEW n \in Names, Changes(n, "starting", "on") \/ Changes(n, "on", "off")
      PROVE  crashes' = crashes
  BY <1>5 DEF Changes
<1>6. CASE Reboot \/ UNCHANGED vars
  BY <1>1, <1>6 DEF Reboot, Crash, vars
<1> QED BY <1>1, <1>2, <1>3, <1>4, <1>5, <1>6 DEF Next, Proceed

LEMMA ApartStep ==
  ASSUME ~Overlap, TInv, Apart, [Next]_vars
  PROVE  Apart'
<1> SUFFICES ASSUME NEW s \in Sessions, NEW t \in Sessions, s # t,
                    session'[s].name \in Names, session'[t].name = session'[s].name
             PROVE  FALSE
  BY DEF Apart, Name
<1>1. Moves(s) /\ Moves(t) /\ Idle.name \notin Names
  BY EachSession, NullsAssumption DEF Idle
<1>2. CASE Enters(s)
  BY <1>2 DEF Enters, Name
<1>3. CASE Enters(t)
  BY <1>3 DEF Enters, Name
<1>4. CASE ~Enters(s) /\ ~Enters(t)
  <2>1. session'[s].name = Name(s) /\ session'[t].name = Name(t)
    BY <1>1, <1>4 DEF Moves, GoesOn, Ends0, Name
  <2> QED BY <2>1 DEF Apart
<1> QED BY <1>2, <1>3, <1>4

LEMMA AwaitsStep ==
  ASSUME TInv, Apart, NEW t \in Sessions, Awaits(t), [Next]_vars
  PROVE  Awaits(t)'
<1> SUFFICES ASSUME At(t, "await death")'
             PROVE  pidfile'[session'[t].name] = session'[t].pid /\ session'[t].pid \in Pids
  BY DEF Awaits, Name, Pid
<1>1. Moves(t) /\ Idle.pc # "await death"
  BY EachSession DEF Idle
<1>2. \/ At(t, "await death") /\ session'[t] = session[t]
      \/ /\ At(t, "stop") /\ session'[t].name = Name(t)
         /\ session'[t].pid = pidfile[Name(t)] /\ IsTunnelRunning(Name(t))
  <2>1. CASE GoesOn(t)
    BY <2>1 DEF GoesOn, At
  <2>2. CASE Enters(t) \/ Ends0(t)
    BY <1>1, <2>2 DEF Enters, Ends0, At
  <2>3. CASE session'[t] = session[t]
    BY <2>3 DEF At
  <2> QED BY <1>1, <2>1, <2>2, <2>3 DEF Moves
<1>3. /\ session'[t].name = Name(t)
      /\ session'[t].pid = pidfile[Name(t)] /\ pidfile[Name(t)] \in Pids
  BY <1>2 DEF Awaits, IsTunnelRunning, Name, Pid
<1>4. Name(t) \in Names /\ FileStep(Name(t))
  <2>1. Name(t) \in Names
    BY <1>2, CommandTypes DEF TInv, At
  <2> QED BY <2>1, EachFile DEF TInv
<1>5. \A s \in Sessions : Name(s) = Name(t) => s = t
  BY <1>4 DEF Apart
<1>6. pidfile'[Name(t)] = pidfile[Name(t)]
  BY <1>2, <1>4, <1>5 DEF FileStep, At
<1> QED BY <1>3, <1>6

\* Only an up of that name starts a tunnel to it.
LEMMA Heard ==
  ASSUME TInv, [Next]_vars, NEW p \in Pids, NEW n \in Names, Forwards(p, n)'
  PROVE  \/ Forwards(p, n)
         \/ \E s \in Sessions : /\ At(s, "spawn") /\ At(s, "wait")' /\ session'[s].pid = p
                                /\ Name(s) = n /\ session'[s].name = n
<1>1. Becomes(p)
  BY EachProcess DEF TInv
<1>2. proc'[p].name = n /\ proc'[p].kind \in {"starting", "listening"}
  BY DEF Forwards
<1> QED BY <1>1, <1>2 DEF Becomes, Forwards

LEMMA FindableStep ==
  ASSUME TInv, [Next]_vars, crashes' = crashes, Findable, crashes = 0,
         \A s \in Sessions : Hears(s)
  PROVE  Findable'
<1> SUFFICES ASSUME NEW p \in Pids, NEW n \in Names, Forwards(p, n)'
             PROVE  \/ pidfile'[n] = p
                    \/ \E s \in Sessions : /\ session'[s].name = n /\ session'[s].pid = p
                                           /\ session'[s].pc \in {"wait", "open", "write"}
  BY DEF Findable, Starting, Name
<1>1. CASE ~Forwards(p, n)
  BY <1>1, Heard DEF At
<1>2. CASE Forwards(p, n) /\ pidfile[n] = p
  <2>1. FileStep(n)
    BY EachFile DEF TInv
  <2>2. \A s \in Sessions : Name(s) = n /\ session[s].pc \in {"wait", "open", "write"} => Pid(s) = p
    BY <1>2 DEF Hears
  <2> QED BY <1>2, <2>1, <2>2 DEF FileStep, At
<1>3. ASSUME Forwards(p, n), NEW s \in Sessions, Name(s) = n, Starting(s, p)
      PROVE  \/ pidfile'[n] = p
             \/ /\ session'[s].name = n /\ session'[s].pid = p
                /\ session'[s].pc \in {"wait", "open", "write"}
  <2>1. Moves(s) /\ session[s].pc \in {"wait", "open", "write"} /\ Pid(s) = p
    BY <1>3, EachSession DEF Starting, Pid
  <2>2. proc[p].kind # "dead" /\ crashes' # crashes + 1
    BY <1>3 DEF Forwards
  <2> QED BY <1>3, <2>1, <2>2 DEF Moves, Enters, GoesOn, Ends0, At, Name, Pid
<1> QED BY <1>1, <1>2, <1>3 DEF Findable

LEMMA HearsStep ==
  ASSUME TInv, Apart, [Next]_vars, Findable, crashes = 0,
         NEW t \in Sessions, Hears(t), Awaits(t)
  PROVE  Hears(t)'
<1> DEFINE pc == session'[t].pc
<1> SUFFICES ASSUME NEW p \in Pids, proc'[p].name = session'[t].name,
                    proc'[p].kind \in {"starting", "listening"}
             PROVE  /\ pc \notin {"check port", "spawn", "take down"}
                    /\ pc \in {"wait", "open", "write"} => p = session'[t].pid
  BY DEF Hears, Forwards, Name, Pid
<1>1. Moves(t) /\ Idle.pc = "idle"
  BY EachSession DEF Idle
<1>2. CASE Enters(t) \/ Ends0(t) \/ At(t, "idle")
  BY <1>1, <1>2 DEF Moves, Enters, GoesOn, Ends0, At
<1>3. CASE ~At(t, "idle") /\ (session'[t] = session[t] \/ GoesOn(t))
  <2>1. Name(t) \in Names /\ session'[t].name = Name(t)
    BY <1>3, CommandTypes DEF TInv, GoesOn, Name
  <2>2. \A s \in Sessions : Name(s) = Name(t) => s = t
    BY <2>1 DEF Apart
  <2>3. Forwards(p, Name(t)) \/ (At(t, "spawn") /\ At(t, "wait")' /\ session'[t].pid = p)
    <3>1. PICK n \in Names : n = Name(t)
      BY <2>1
    <3>2. Forwards(p, n)'
      BY <2>1, <3>1 DEF Forwards
    <3> QED BY <2>2, <3>1, <3>2, Heard
  <2>4. CASE ~Forwards(p, Name(t))
    BY <2>3, <2>4 DEF At
  <2>5. CASE Forwards(p, Name(t))
    <3>1. /\ session[t].pc \notin {"check port", "spawn", "take down"}
          /\ session[t].pc \in {"wait", "open", "write"} => p = Pid(t)
      BY <2>5 DEF Hears
    <3>2. proc[p].kind \notin {"free", "dead"}
      BY <2>5 DEF Forwards
    <3>3. session[t].pc \notin {"wait", "open", "write"} => pidfile[Name(t)] = p
      BY <2>1, <2>2, <2>5 DEF Findable, Starting
    <3>4. At(t, "check") => IsTunnelRunning(Name(t))
      BY <3>2, <3>3 DEF At, IsTunnelRunning, IsPidValid
    <3>5. At(t, "await death") => Pid(t) = p
      BY <3>3 DEF Awaits, At
    <3>6. CASE session'[t] = session[t]
      BY <3>1, <3>6 DEF Pid
    <3>7. CASE GoesOn(t)
      BY <3>1, <3>2, <3>4, <3>5, <3>7 DEF GoesOn, At, Pid
    <3> QED BY <1>3, <3>6, <3>7
  <2> QED BY <2>4, <2>5
<1> QED BY <1>1, <1>2, <1>3 DEF Moves

LEMMA KnownStep ==
  ASSUME ~Overlap, Known, [Next]_vars
  PROVE  Known'
<1>0. TInv /\ TypeOK /\ Apart
  BY DEF Known, TInv
<1>1. TInv' /\ Apart'
  BY <1>0, TypeStep, ApartStep
<1>2. \A s \in Sessions : Awaits(s)'
  BY <1>0, AwaitsStep DEF Known
<1>3. ASSUME crashes' = 0 PROVE crashes = 0 /\ crashes' = crashes
  BY <1>0, <1>3, CrashCount
<1>4. ASSUME crashes' = 0 PROVE Findable'
  BY <1>0, <1>3, <1>4, FindableStep DEF Known
<1>5. ASSUME crashes' = 0, NEW s \in Sessions PROVE Hears(s)'
  BY <1>0, <1>3, <1>5, HearsStep DEF Known
<1> QED BY <1>1, <1>2, <1>4, <1>5 DEF Known

LEMMA AlwaysKnown == ~Overlap /\ Spec => []Known
<1>1. CASE ~Overlap
  <2>1. Known /\ [Next]_vars => Known'
    BY <1>1, KnownStep
  <2> QED BY <2>1, KnownInit, PTL DEF Spec
<1> QED BY <1>1

\* Unless two commands are about one name at a time, or a session died, every
\* tunnel that runs is named by its pid file or about to be.
THEOREM TunnelsAreFindable == ~Overlap /\ Spec => []Findable
<1>1. Known => Findable
  BY DEF Known, Findable
<1> QED BY <1>1, AlwaysKnown, PTL

\* ... and so a down takes no machine away that a tunnel still leads to.
THEOREM DownHangsUpFirst == ~Overlap /\ Spec => DownHangsUp
<1>1. Known /\ [Next]_vars =>
        \A s \in Sessions :
          crashes = 0 /\ At(s, "take down") /\ ~At(s, "take down")' =>
            \A p \in Pids : ~Forwards(p, Name(s))
  BY DEF Known, Hears, At
<1> QED BY <1>1, AlwaysKnown, PTL DEF Spec, DownHangsUp
----------------------------------------------------------------------------
(* A tunnel that up reports leads to its machine, if no other environment  *)
(* can have the port: because each has its own, or because there is one    *)
(* session only, which sees what listens before it starts a tunnel.        *)

Single == \A s, t \in Sessions : s = t
PortsDiffer == \A m, n \in Names : PortOf[m] = PortOf[n] => m = n

\* A process that connects was started by an up that waits for it.
Awaited ==
  \A p \in Pids : proc[p].kind = "starting" => \E s \in Sessions : At(s, "wait") /\ Pid(s) = p

\* Nobody listens on the port when a tunnel is to be started, and then no
\* other than the one that was started.
Listens(s) ==
  /\ At(s, "spawn") => IsPortFree(Name(s))
  /\ session[s].pc \in {"wait", "open", "write"} =>
       \A p \in Pids : ListensFor(p, Name(s)) => p = Pid(s)

Undisturbed == TInv /\ (crashes = 0 => Awaited /\ \A s \in Sessions : Listens(s))

LEMMA UndisturbedInit == Init => Undisturbed
<1> SUFFICES ASSUME Init PROVE Undisturbed
  OBVIOUS
<1>1. \A s \in Sessions : session[s].pc = "idle"
  BY DEF Init, Idle
<1>2. \A p \in Pids : proc[p].kind = "free"
  BY DEF Init, Free
<1> QED BY <1>1, <1>2, TypeInit DEF Undisturbed, Awaited, Listens, At

\* The only process that can connect is the one that the session waits for.
LEMMA AwaitedStep ==
  ASSUME Single, TInv, [Next]_vars, crashes = 0, crashes' = 0, Awaited,
         \A s \in Sessions : Listens(s)
  PROVE  Awaited'
<1> SUFFICES ASSUME NEW p \in Pids, proc'[p].kind = "starting"
             PROVE  \E s \in Sessions : session'[s].pc = "wait" /\ session'[s].pid = p
  BY DEF Awaited, At, Pid
<1>1. Becomes(p)
  BY EachProcess DEF TInv
<1>2. CASE proc[p].kind # "starting"
  BY <1>1, <1>2 DEF Becomes, At
<1>3. CASE proc[p].kind = "starting"
  <2>1. PICK s \in Sessions : At(s, "wait") /\ Pid(s) = p
    BY <1>3 DEF Awaited
  <2>2. \A q \in Pids : ListensFor(q, Name(s)) => q = p
    BY <2>1 DEF Listens, At
  <2>3. ~IsPortListening(Name(s))
    BY <1>3, <2>2 DEF IsPortListening, ListensFor
  <2>4. Moves(s)
    BY EachSession
  <2>5. ~At(s, "open")'
    BY <2>1, <2>3, <2>4 DEF Moves, Enters, GoesOn, Ends0, At, Idle
  <2>6. session'[s] = session[s]
    BY <1>3, <2>1, <2>4, <2>5 DEF Moves, Enters, GoesOn, Ends0, At
  <2> QED BY <2>1, <2>6 DEF At, Pid
<1> QED BY <1>2, <1>3

LEMMA ListensStep ==
  ASSUME Single, TInv, [Next]_vars, crashes = 0, crashes' = 0, Awaited,
         NEW s \in Sessions, Listens(s)
  PROVE  Listens(s)'
<1> DEFINE pc == session'[s].pc
<1> SUFFICES ASSUME NEW p \in Pids, proc'[p].kind = "listening",
                    PortOf[proc'[p].name] = PortOf[session'[s].name],
                    pc \in {"spawn", "wait", "open", "write"}
             PROVE  pc # "spawn" /\ p = session'[s].pid
  BY DEF Listens, IsPortFree, IsPortListening, ListensFor, At, Name, Pid
<1>1. Moves(s) /\ Becomes(p) /\ Idle.pc = "idle"
  BY EachSession, EachProcess DEF TInv, Idle
<1>2. session'[s] = session[s] \/ GoesOn(s)
  BY <1>1 DEF Moves, Enters, Ends0
<1>3. session'[s].name = Name(s)
  BY <1>2 DEF GoesOn, Name
<1>4. \/ ListensFor(p, Name(s))
      \/ proc[p].kind = "starting" /\ At(s, "wait") /\ Pid(s) = p
  <2>1. \/ proc[p].kind = "listening" /\ proc'[p].name = proc[p].name
        \/ proc[p].kind = "starting"
    BY <1>1 DEF Becomes
  <2>2. proc[p].kind = "starting" => At(s, "wait") /\ Pid(s) = p
    BY DEF Single, Awaited
  <2> QED BY <1>3, <2>1, <2>2 DEF ListensFor
<1>5. CASE session'[s] = session[s]
  BY <1>4, <1>5 DEF Listens, IsPortFree, IsPortListening, At, Pid
<1>6. CASE GoesOn(s)
  <2>1. At(s, "check port") => IsPortFree(Name(s)) \/ pc # "spawn"
    BY <1>6 DEF GoesOn, At
  <2>2. At(s, "check port") => FALSE
    BY <1>4, <1>6, <2>1 DEF IsPortFree, IsPortListening, GoesOn, At
  <2>3. At(s, "spawn") => FALSE
    BY <1>4 DEF Listens, IsPortFree, IsPortListening, At
  <2>4. session[s].pc \in {"wait", "open", "write"} => p = Pid(s)
    BY <1>4 DEF Listens
  <2>5. proc[p].kind # "dead"
    BY <1>4 DEF ListensFor
  <2> QED BY <1>6, <2>2, <2>3, <2>4, <2>5 DEF GoesOn, At
<1> QED BY <1>2, <1>5, <1>6

LEMMA UndisturbedStep ==
  ASSUME Single, Undisturbed, [Next]_vars
  PROVE  Undisturbed'
<1>1. TInv /\ TypeOK /\ TInv'
  BY TypeStep DEF Undisturbed, TInv
<1>2. ASSUME crashes' = 0 PROVE crashes = 0
  BY <1>1, <1>2, CrashCount
<1>3. ASSUME crashes' = 0 PROVE Awaited'
  BY <1>1, <1>2, <1>3, AwaitedStep DEF Undisturbed
<1>4. ASSUME crashes' = 0, NEW s \in Sessions PROVE Listens(s)'
  BY <1>1, <1>2, <1>4, ListensStep DEF Undisturbed
<1> QED BY <1>1, <1>3, <1>4 DEF Undisturbed

\* A session that writes a pid has a name of which the port is its own.
LEMMA LeadsApart ==
  ASSUME PortsDiffer, Known, crashes = 0, NEW s \in Sessions, At(s, "write"),
         NEW p \in Pids, ListensFor(p, Name(s))
  PROVE  p = Pid(s)
<1>1. TypeOK /\ Name(s) \in Names /\ proc[p] \in Processes /\ proc[p].kind = "listening"
  BY CommandTypes, Split DEF Known, TInv, At, WorldOK, ListensFor
<1>2. proc[p].name \in Names
  BY <1>1, Kinds DEF Tunnels
<1>3. Forwards(p, Name(s))
  BY <1>1, <1>2 DEF PortsDiffer, ListensFor, Forwards
<1> QED BY <1>3 DEF Known, Hears, At

\* Where no two environments have a port in common, or no two sessions run at
\* a time, the tunnel that up reports is what listens on its port, unless a
\* session died before.
THEOREM TunnelsLead == Single \/ (~Overlap /\ PortsDiffer) => (Spec => Leads)
<1> DEFINE Led == \A s \in Sessions :
             crashes = 0 /\ At(s, "write") /\ pidfile'[Name(s)] = session[s].pid =>
               \A p \in Pids : ListensFor(p, Name(s)) => p = session[s].pid
<1>1. CASE Single
  <2>1. Undisturbed /\ [Next]_vars => Undisturbed'
    BY <1>1, UndisturbedStep
  <2>2. Undisturbed => Led
    BY DEF Undisturbed, Listens, At, Pid
  <2> QED BY <2>1, <2>2, UndisturbedInit, PTL DEF Spec, Leads
<1>2. CASE ~Overlap /\ PortsDiffer
  <2>1. Known => Led
    BY <1>2, LeadsApart DEF Pid
  <2> QED BY <1>2, <2>1, AlwaysKnown, PTL DEF Spec, Leads
<1> QED BY <1>1, <1>2
=============================================================================
