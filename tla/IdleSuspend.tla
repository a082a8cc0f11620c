----------------------------- MODULE IdleSuspend -----------------------------
(***************************************************************************)
(* suspend_on_idle.py, the service on each machine that polls the traffic  *)
(* of the container's sshd and suspends the machine when there was none,   *)
(* or powers it off when suspending keeps failing.  Time passes in steps   *)
(* of the poll frequency.  There are two clocks: time.time(), by which     *)
(* inactivity is measured, runs while the machine is suspended, and        *)
(* time.sleep() does not.                                                  *)
(***************************************************************************)
EXTENDS Naturals

CONSTANTS
  Timeout,    \* activity_timeout, in polls
  MaxFails,   \* suspends that may fail in a row before the next powers off: 10
  Cap,        \* a bound on the clocks: times from Cap on are not told apart
  MaxEvents   \* bound on traffic, restarts, suspends by somebody else and
              \* shutdowns that fail

ASSUME TimesAssumption ==
  /\ Timeout \in Nat \ {0} /\ MaxFails \in Nat /\ Cap \in Nat /\ Cap > Timeout
  /\ MaxEvents \in Nat

VARIABLES
  vm,         \* "running", "suspended" or "off"
  shutdown,   \* whether a power-off is due: "none" or "called"
  pc,         \* "poll" and "rest": asleep until then; "suspend": the call is out
  sleep,      \* what is left of the sleep
  idle,       \* time since last_activity
  fails,      \* suspend_fail_count, up to the first that powers off
  reported,   \* whether the last suspend reported success
  unseen,     \* whether the byte count differs from last_bytes_transmitted
  quiet,      \* time since there was traffic
  awake,      \* time since the machine began to run, or went on running
  meddled,    \* whether somebody else has suspended the machine
  events

script == <<pc, sleep, idle, fails, reported>>
vars == <<vm, shutdown, pc, sleep, idle, fails, reported, unseen, quiet, awake, meddled, events>>
machine == <<vm, shutdown>>
happened == <<meddled, events>>

\* last_bytes_transmitted is None: the first count is news.
Starts == pc = "poll" /\ sleep = 0 /\ idle = 0 /\ fails = 0 /\ reported = TRUE

Init ==
  /\ vm = "running" /\ shutdown = "none"
  /\ Starts
  /\ unseen = TRUE
  /\ quiet = 0 /\ awake = 0 /\ meddled = FALSE /\ events = 0

Later(t) == IF t < Cap THEN t + 1 ELSE Cap

Event == events < MaxEvents /\ events' = events + 1

----------------------------------------------------------------------------
(* The poll loop.                                                          *)

\* The poll decides, on this much inactivity, and with these failures.
Decide(elapsed, count, enough) ==
  /\ vm = "running" /\ pc = "poll" /\ sleep = 0
  /\ idle' = elapsed /\ fails' = count /\ unseen' = FALSE
  /\ IF enough THEN pc' = "suspend" /\ UNCHANGED sleep
               ELSE sleep' = 1 /\ UNCHANGED pc
  /\ UNCHANGED <<machine, reported, quiet, awake, happened>>

\* Mutants: traffic is not looked at; failures before the traffic count too;
\* every poll forgets the failures.
PollBlind == Decide(idle, fails, idle > Timeout)

PollKeepsFails ==
  IF unseen THEN Decide(0, fails, FALSE) ELSE Decide(idle, fails, idle > Timeout)

PollForgets ==
  IF unseen THEN Decide(0, 0, FALSE) ELSE Decide(idle, 0, idle > Timeout)

Poll ==
  IF unseen THEN Decide(0, 0, FALSE) ELSE Decide(idle, fails, idle > Timeout)

\* Mutant: no sleep after the suspend.
SuspendBriefly(suspended, result) ==
  /\ vm = "running" /\ pc = "suspend"
  /\ vm' = IF suspended THEN "suspended" ELSE vm
  /\ reported' = result
  /\ pc' = "rest" /\ sleep' = 0
  /\ UNCHANGED <<shutdown, idle, fails, unseen, quiet, awake, happened>>

\* The suspend works or not, and what works may be reported as a failure.
\* Either way the script is asleep for the whole timeout from then on.
Suspend(suspended, result) ==
  /\ vm = "running" /\ pc = "suspend"
  /\ vm' = IF suspended THEN "suspended" ELSE vm
  /\ reported' = result
  /\ pc' = "rest" /\ sleep' = Timeout
  /\ UNCHANGED <<shutdown, idle, fails, unseen, quiet, awake, happened>>

Suspends ==
  \/ \E result \in BOOLEAN : Suspend(TRUE, result)
  \/ Suspend(FALSE, FALSE)

Failures == IF reported \/ fails > MaxFails THEN fails ELSE fails + 1

\* The power-off is for a minute later; that the call fails is only logged.
CallShutdown ==
  \/ shutdown' = "called" /\ UNCHANGED happened
  \/ Event /\ UNCHANGED <<shutdown, meddled>>

\* The rest is over: count a failure, from the last one on call for a power-off,
\* and go on polling.
Wake ==
  /\ vm = "running" /\ pc = "rest" /\ sleep = 0
  /\ fails' = Failures
  /\ IF ~reported /\ Failures > MaxFails THEN CallShutdown ELSE UNCHANGED <<shutdown, happened>>
  /\ pc' = "poll" /\ sleep' = 1
  /\ UNCHANGED <<vm, idle, reported, unseen, quiet, awake>>

\* A step of time.  The script does what it has to do before time goes on.
Tick ==
  /\ vm = "running" => sleep > 0
  /\ vm # "off"
  /\ idle' = Later(idle) /\ quiet' = Later(quiet)
  /\ IF vm = "running" THEN sleep' = sleep - 1 /\ awake' = Later(awake)
                       ELSE UNCHANGED <<sleep, awake>>
  /\ UNCHANGED <<machine, pc, fails, reported, unseen, happened>>

\* The power-off that was called for, whatever the script is at by then.
PowerOff ==
  /\ vm = "running" /\ shutdown = "called"
  /\ vm' = "off"
  /\ UNCHANGED <<shutdown, script, unseen, quiet, awake, happened>>

----------------------------------------------------------------------------
(* The users, systemd, and whoever else may suspend the machine.           *)

Traffic ==
  /\ vm = "running"
  /\ Event
  /\ unseen' = TRUE /\ quiet' = 0
  /\ UNCHANGED <<machine, script, awake, meddled>>

\* hermit up: the memory of the machine is as it was, its clock is not.
Resume ==
  /\ vm = "suspended"
  /\ vm' = "running" /\ awake' = 0
  /\ UNCHANGED <<shutdown, script, unseen, quiet, happened>>

Restarted ==
  /\ pc' = "poll" /\ sleep' = 0 /\ idle' = 0 /\ fails' = 0 /\ reported' = TRUE
  /\ unseen' = TRUE

Boot ==
  /\ vm = "off"
  /\ vm' = "running" /\ shutdown' = "none" /\ awake' = 0
  /\ Restarted
  /\ UNCHANGED <<quiet, happened>>

\* Restart=always: the script died, for one because iptables has no chain yet.
Restart ==
  /\ vm = "running"
  /\ Event
  /\ Restarted
  /\ UNCHANGED <<machine, quiet, awake, meddled>>

SuspendedByOther ==
  /\ vm = "running"
  /\ Event
  /\ vm' = "suspended" /\ meddled' = TRUE
  /\ UNCHANGED <<shutdown, script, unseen, quiet, awake>>

----------------------------------------------------------------------------
Script == Poll \/ Suspends \/ Wake
World == Traffic \/ Resume \/ Boot \/ Restart \/ SuspendedByOther

Next == Script \/ Tick \/ PowerOff \/ World

Spec == Init /\ [][Next]_vars

\* Time goes on, and the script and a power-off that is due with it; nothing
\* makes users do anything.
FairSpec == Spec /\ WF_vars(Script) /\ WF_vars(Tick) /\ WF_vars(PowerOff)

----------------------------------------------------------------------------
(* What is to hold.                                                        *)

TypeOK ==
  /\ vm \in {"running", "suspended", "off"} /\ shutdown \in {"none", "called"}
  /\ pc \in {"poll", "suspend", "rest"}
  /\ sleep \in 0 .. Timeout
  /\ idle \in 0 .. Cap /\ quiet \in 0 .. Cap /\ awake \in 0 .. Cap
  /\ fails \in 0 .. MaxFails + 1
  /\ reported \in BOOLEAN /\ unseen \in BOOLEAN
  /\ meddled \in BOOLEAN /\ events \in 0 .. MaxEvents

\* The script has decided to suspend the machine.
Decides == pc = "poll" /\ pc' = "suspend"

\* README: the machine suspends itself if nothing has happened for the
\* timeout.  Nothing did, seen by a poll or not.
SuspendsQuiet == [][Decides => quiet > Timeout]_vars

\* Who resumes the machine with "hermit up" has the timeout to use it, however
\* long it was suspended: the script does not take that time for inactivity,
\* as long as nobody but the script suspends the machine.
GraceAfterResume == [][Decides => awake > Timeout \/ meddled]_vars

\* The power-off is the last resort: when it is called for, the machine had
\* been without any traffic that a poll saw for the timeout, and then through
\* every failed suspend.
LastResort ==
  [][shutdown' = "called" /\ shutdown = "none" => idle >= (MaxFails + 2) * Timeout]_vars

\* README: if there was traffic, the machine runs normally.  It is not powered
\* off when there was traffic since the last poll.
PowerOffQuiet == [][vm' = "off" /\ vm # "off" => ~unseen]_vars

\* A machine that nobody uses does not run forever, even if it cannot be
\* suspended and the first calls to power it off fail.
IdleEnds == vm = "running" ~> vm # "running"
=============================================================================
