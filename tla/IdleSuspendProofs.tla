-------------------------- MODULE IdleSuspendProofs --------------------------
(***************************************************************************)
(* Proofs about IdleSuspend, for any timeout, any number of tolerated      *)
(* failures and any number of events.                                      *)
(***************************************************************************)
EXTENDS IdleSuspend, TLAPS

----------------------------------------------------------------------------
(* Type correctness.                                                       *)

LEMMA TypeInit == Init => TypeOK
<1> SUFFICES ASSUME Init PROVE TypeOK
  OBVIOUS
<1>1. reported \in BOOLEAN /\ unseen \in BOOLEAN /\ meddled \in BOOLEAN
  BY DEF Init, Starts
<1>2. /\ sleep \in 0 .. Timeout /\ events \in 0 .. MaxEvents
      /\ idle \in 0 .. Cap /\ quiet \in 0 .. Cap /\ awake \in 0 .. Cap
      /\ fails \in 0 .. MaxFails + 1
  BY TimesAssumption DEF Init, Starts
<1>3. vm = "running" /\ pc = "poll" /\ shutdown = "none"
  BY DEF Init, Starts
<1> QED BY <1>1, <1>2, <1>3 DEF TypeOK

LEMMA LaterType ==
  ASSUME NEW t \in 0 .. Cap
  PROVE  Later(t) \in 0 .. Cap /\ Later(t) >= t
BY TimesAssumption DEF Later

LEMMA DecideType ==
  ASSUME TypeOK, NEW elapsed \in 0 .. Cap, NEW count \in 0 .. MaxFails + 1,
         NEW enough \in BOOLEAN, Decide(elapsed, count, enough)
  PROVE  TypeOK'
<1>1. /\ vm' = "running" /\ shutdown' = shutdown /\ pc' \in {"poll", "suspend", "rest"}
      /\ idle' = elapsed /\ fails' = count
      /\ quiet' = quiet /\ awake' = awake /\ events' = events
  BY DEF Decide, machine, happened, TypeOK
<1>2. reported' \in BOOLEAN /\ unseen' \in BOOLEAN /\ meddled' \in BOOLEAN
  BY DEF Decide, happened, TypeOK
<1>3. sleep' \in 0 .. Timeout
  BY TimesAssumption DEF Decide, TypeOK
<1> QED BY <1>1, <1>2, <1>3, TimesAssumption DEF TypeOK

LEMMA TypeStep ==
  ASSUME TypeOK, [Next]_vars
  PROVE  TypeOK'
<1> USE TimesAssumption
<1>1. CASE Poll
  <2>1. vm = "running" /\ fails \in 0 .. MaxFails + 1 /\ idle \in 0 .. Cap /\ 0 \in 0 .. Cap
    BY <1>1 DEF Poll, Decide, TypeOK
  <2>2. 0 \in 0 .. MaxFails + 1 /\ (idle > Timeout) \in BOOLEAN /\ FALSE \in BOOLEAN
    OBVIOUS
  <2>3. CASE unseen
    BY <1>1, <2>1, <2>2, <2>3, DecideType DEF Poll
  <2>4. CASE ~unseen
    BY <1>1, <2>1, <2>2, <2>4, DecideType DEF Poll
  <2> QED BY <2>3, <2>4
<1>2. CASE Suspends
  <2>1. /\ vm' \in {"running", "suspended", "off"} /\ shutdown' = shutdown /\ pc' = "rest" /\ sleep' = Timeout
        /\ idle' = idle /\ fails' = fails /\ quiet' = quiet /\ awake' = awake
        /\ events' = events /\ vm = "running"
    BY <1>2 DEF Suspends, Suspend, happened
  <2>2. reported' \in BOOLEAN /\ unseen' \in BOOLEAN /\ meddled' \in BOOLEAN
    BY <1>2 DEF Suspends, Suspend, happened, TypeOK
  <2> QED BY <2>1, <2>2 DEF TypeOK
<1>3. CASE Wake
  BY <1>3 DEF Wake, CallShutdown, Event, Failures, happened, TypeOK
<1>4. CASE Tick
  <2>1. idle' \in 0 .. Cap /\ quiet' \in 0 .. Cap /\ awake' \in 0 .. Cap
    BY <1>4, LaterType DEF Tick, TypeOK
  <2> QED BY <1>4, <2>1 DEF Tick, machine, happened, TypeOK
<1>5. CASE Traffic
  BY <1>5 DEF Traffic, Event, machine, script, TypeOK
<1>6. CASE Resume
  BY <1>6 DEF Resume, script, happened, TypeOK
<1>7. CASE Boot
  BY <1>7 DEF Boot, Restarted, happened, TypeOK
<1>8. CASE Restart
  BY <1>8 DEF Restart, Restarted, Event, machine, TypeOK
<1>9. CASE SuspendedByOther
  BY <1>9 DEF SuspendedByOther, Event, script, TypeOK
<1>10. CASE UNCHANGED vars
  BY <1>10 DEF vars, TypeOK
<1>11. CASE PowerOff
  BY <1>11 DEF PowerOff, script, happened, TypeOK
<1> QED BY <1>1, <1>2, <1>3, <1>4, <1>5, <1>6, <1>7, <1>8, <1>9, <1>10, <1>11
        DEF Next, Script, World

\* Types are kept.
THEOREM TypeCorrect == Spec => []TypeOK
BY TypeInit, TypeStep, PTL DEF Spec

----------------------------------------------------------------------------
(* Traffic.  What the script takes for inactivity since its last look is   *)
(* never more than there was.                                              *)

Honest == unseen \/ idle <= quiet

LEMMA HonestStep ==
  ASSUME TypeOK, Honest, [Next]_vars
  PROVE  Honest'
<1> USE TimesAssumption DEF Honest, TypeOK
<1>1. CASE Poll
  BY <1>1 DEF Poll, Decide
<1>2. CASE Suspends
  BY <1>2 DEF Suspends, Suspend
<1>3. CASE Wake
  BY <1>3 DEF Wake
<1>4. CASE Tick
  BY <1>4 DEF Tick, Later
<1>5. CASE World
  BY <1>5 DEF World, Traffic, Resume, Boot, Restart, SuspendedByOther,
              machine, script, happened, Restarted
<1>6. CASE UNCHANGED vars
  BY <1>6 DEF vars
<1>7. CASE PowerOff
  BY <1>7 DEF PowerOff, script
<1> QED BY <1>1, <1>2, <1>3, <1>4, <1>5, <1>6, <1>7 DEF Next, Script

\* Only a poll decides to suspend, one that saw no traffic.
LEMMA PollDecides ==
  ASSUME TypeOK, [Next]_vars, Decides
  PROVE  ~unseen /\ sleep = 0 /\ idle > Timeout
<1>1. CASE Poll
  BY <1>1 DEF Poll, Decide, Decides
<1>2. CASE Suspends
  BY <1>2 DEF Suspends, Suspend, Decides
<1>3. CASE Wake
  BY <1>3 DEF Wake, Decides
<1>4. CASE Tick
  BY <1>4 DEF Tick, Decides
<1>5. CASE World
  BY <1>5 DEF World, Traffic, Resume, Boot, Restart, SuspendedByOther,
              machine, script, happened, Restarted, Decides
<1>6. CASE UNCHANGED vars
  BY <1>6 DEF vars, Decides
<1>7. CASE PowerOff
  BY <1>7 DEF PowerOff, script, Decides
<1> QED BY <1>1, <1>2, <1>3, <1>4, <1>5, <1>6, <1>7 DEF Next, Script

\* A machine with traffic within the timeout is never suspended by the script,
\* whoever else suspends or restarts things.
THEOREM NeverInUse == Spec => SuspendsQuiet
<1>1. Init => Honest
  BY DEF Init, Honest
<1>2. TypeOK /\ Honest /\ [Next]_vars => Honest'
  BY HonestStep
<1>3. TypeOK /\ Honest /\ [Next]_vars => [Decides => quiet > Timeout]_vars
  BY PollDecides, TimesAssumption DEF Honest, TypeOK
<1> QED BY <1>1, <1>2, <1>3, TypeCorrect, PTL DEF Spec, SuspendsQuiet

----------------------------------------------------------------------------
(* Resumes.  As long as nobody else suspends the machine, it is resumed in *)
(* the rest after a suspend, with all of the rest before it.               *)

Rested ==
  ~meddled =>
    /\ vm = "suspended" => pc = "rest" /\ sleep = Timeout
    /\ pc = "rest" => awake + sleep >= Timeout
    /\ pc = "poll" => awake + sleep > Timeout \/ idle <= awake

LEMMA RestedStep ==
  ASSUME TypeOK, Rested, [Next]_vars
  PROVE  Rested'
<1> USE TimesAssumption DEF Rested, TypeOK
<1>1. CASE Poll
  BY <1>1 DEF Poll, Decide, machine, happened
<1>2. CASE Suspends
  BY <1>2 DEF Suspends, Suspend, happened
<1>3. CASE Wake
  BY <1>3 DEF Wake, CallShutdown, happened
<1>4. CASE Tick
  BY <1>4 DEF Tick, Later, machine, happened
<1>5. CASE World
  BY <1>5 DEF World, Traffic, Resume, Boot, Restart, SuspendedByOther,
              machine, script, happened, Restarted
<1>6. CASE UNCHANGED vars
  BY <1>6 DEF vars
<1>7. CASE PowerOff
  BY <1>7 DEF PowerOff, script, happened
<1> QED BY <1>1, <1>2, <1>3, <1>4, <1>5, <1>6, <1>7 DEF Next, Script

\* Who resumes the machine has it for the timeout, as long as nobody else has
\* suspended it.
THEOREM ResumedStaysUp == Spec => GraceAfterResume
<1>1. Init => Rested
  BY DEF Init, Starts, Rested
<1>2. TypeOK /\ Rested /\ [Next]_vars => Rested'
  BY RestedStep
<1>3. TypeOK /\ Rested /\ [Next]_vars => [Decides => awake > Timeout \/ meddled]_vars
  BY PollDecides, TimesAssumption DEF Rested, TypeOK, Decides
<1> QED BY <1>1, <1>2, <1>3, TypeCorrect, PTL DEF Spec, GraceAfterResume

----------------------------------------------------------------------------
(* The last resort.  Every failure that counts has had the whole timeout   *)
(* of its rest, and no traffic was seen since the first.                   *)

\* The times the count of failures stands for, up to the call for the power-off;
\* the clocks have to reach them.
Waited(n) == n * Timeout
Due(n) == Waited(IF n <= MaxFails + 2 THEN n ELSE MaxFails + 2)
ClocksSuffice == Cap >= Waited(MaxFails + 2)

LEMMA WaitedGrows ==
  /\ \A n \in Nat : Waited(n) \in Nat /\ Waited(n + 1) = Waited(n) + Timeout
  /\ \A m, n \in Nat : m <= n => Waited(m) <= Waited(n)
<1> USE TimesAssumption DEF Waited
<1>1. \A n \in Nat : Waited(n) \in Nat /\ Waited(n + 1) = Waited(n) + Timeout
  OBVIOUS
<1>2. ASSUME NEW m \in Nat, NEW n \in Nat, m <= n PROVE Waited(m) <= Waited(n)
  <2>1. PICK k \in Nat : n = m + k
    <3>1. n - m \in Nat /\ n = m + (n - m)
      BY <1>2
    <3> QED BY <3>1
  <2>2. Waited(n) = m * Timeout + k * Timeout /\ k * Timeout \in Nat
    BY <2>1
  <2> QED BY <2>2
<1> QED BY <1>1, <1>2

LEMMA DueGrows ==
  ASSUME ClocksSuffice, NEW n \in 0 .. MaxFails + 2
  PROVE  /\ Due(n) \in Nat /\ Due(n) <= Cap
         /\ Due(n + 1) \in Nat /\ Due(n + 1) <= Cap
         /\ Due(n) <= Due(n + 1) /\ Due(n + 1) <= Due(n) + Timeout
<1> USE TimesAssumption
<1>1. /\ Waited(n) \in Nat /\ Waited(n + 1) \in Nat /\ Waited(MaxFails + 2) \in Nat
      /\ Waited(n + 1) = Waited(n) + Timeout
      /\ Waited(n) <= Waited(MaxFails + 2)
      /\ n + 1 <= MaxFails + 2 => Waited(n + 1) <= Waited(MaxFails + 2)
  <2>1. n \in Nat /\ n + 1 \in Nat /\ MaxFails + 2 \in Nat /\ n <= MaxFails + 2
    OBVIOUS
  <2> QED BY <2>1, WaitedGrows
<1>2. Waited(MaxFails + 2) <= Cap
  BY DEF ClocksSuffice
<1>3. Due(n) = Waited(n)
  BY DEF Due
<1>4. CASE n + 1 <= MaxFails + 2
  BY <1>1, <1>2, <1>3, <1>4 DEF Due
<1>5. CASE n = MaxFails + 2
  <2>1. Due(n + 1) = Waited(n)
    BY <1>5 DEF Due
  <2> QED BY <1>1, <1>2, <1>3, <2>1
<1> QED BY <1>4, <1>5

Counted ==
  /\ pc = "poll" => fails = 0 \/ idle >= Due(fails + 1)
  /\ pc = "suspend" => idle >= Due(fails + 1)
  /\ pc = "rest" => idle + sleep >= Due(fails + 2)

LEMMA CountedStep ==
  ASSUME ClocksSuffice, TypeOK, Counted, [Next]_vars
  PROVE  Counted'
<1>1. fails \in 0 .. MaxFails + 1 /\ fails + 1 \in 0 .. MaxFails + 2 /\ fails + 1 + 1 = fails + 2
  BY TimesAssumption DEF TypeOK
<1>2. /\ Due(fails + 1) \in Nat /\ Due(fails + 1) <= Cap
      /\ Due(fails + 2) \in Nat /\ Due(fails + 2) <= Cap
      /\ Due(fails + 1) <= Due(fails + 2) /\ Due(fails + 2) <= Due(fails + 1) + Timeout
  BY <1>1, DueGrows
<1>3. Due(1) = Timeout
  BY TimesAssumption DEF Due, Waited
<1> USE TimesAssumption DEF Counted, TypeOK
<1>4. CASE Poll
  BY <1>2, <1>3, <1>4 DEF Poll, Decide
<1>5. CASE Suspends
  BY <1>2, <1>5 DEF Suspends, Suspend
<1>6. CASE Wake
  <2>1. /\ pc' = "poll" /\ idle' = idle /\ idle >= Due(fails + 2)
        /\ fails' = Failures
    BY <1>2, <1>6 DEF Wake
  <2>2. CASE reported
    BY <1>2, <2>1, <2>2 DEF Failures
  <2>3. CASE ~reported /\ fails <= MaxFails
    <3>1. fails' = fails + 1 /\ fails' + 1 = fails + 2
      BY <1>1, <2>1, <2>3 DEF Failures
    <3> QED BY <2>1, <3>1
  <2>4. CASE fails > MaxFails
    BY <1>2, <2>1, <2>4 DEF Failures
  <2> QED BY <1>1, <2>2, <2>3, <2>4
<1>7. CASE Tick
  BY <1>2, <1>7 DEF Tick, Later
<1>8. CASE World
  BY <1>8 DEF World, Traffic, Resume, Boot, Restart, SuspendedByOther,
              machine, script, happened, Restarted
<1>9. CASE PowerOff \/ UNCHANGED vars
  BY <1>9 DEF PowerOff, script, vars
<1> QED BY <1>4, <1>5, <1>6, <1>7, <1>8, <1>9 DEF Next, Script

\* Only the end of a rest calls for the power-off.
LEMMA WakeCalls ==
  ASSUME TypeOK, [Next]_vars, shutdown' = "called", shutdown = "none"
  PROVE  pc = "rest" /\ sleep = 0 /\ fails >= MaxFails
<1> USE TimesAssumption DEF TypeOK
<1>1. CASE Wake
  BY <1>1 DEF Wake, Failures
<1>2. CASE Poll \/ Suspends \/ Tick \/ PowerOff \/ World
  BY <1>2 DEF Poll, Decide, Suspends, Suspend, Tick, PowerOff, World, Traffic, Resume, Boot,
              Restart, SuspendedByOther, machine
<1>3. CASE UNCHANGED vars
  BY <1>3 DEF vars
<1> QED BY <1>1, <1>2, <1>3 DEF Next, Script

\* The power-off is called for only after the machine has been without traffic
\* that was seen for the timeout before the first failed suspend and after
\* every one, however many calls for it have failed.
THEOREM PowersOffLast == ClocksSuffice /\ Spec => LastResort
<1>1. Init => Counted
  BY DEF Init, Starts, Counted
<1>2. ClocksSuffice /\ TypeOK /\ Counted /\ [Next]_vars => Counted'
  BY CountedStep
<1>3. TypeOK /\ Counted /\ [Next]_vars
        => [shutdown' = "called" /\ shutdown = "none" => idle >= (MaxFails + 2) * Timeout]_vars
  <2> SUFFICES ASSUME TypeOK, Counted, [Next]_vars, shutdown' = "called", shutdown = "none"
               PROVE  idle >= (MaxFails + 2) * Timeout
    OBVIOUS
  <2>1. pc = "rest" /\ sleep = 0 /\ fails >= MaxFails
    BY WakeCalls
  <2>2. Due(fails + 2) = Waited(MaxFails + 2)
    <3>1. fails = MaxFails \/ fails = MaxFails + 1
      BY <2>1, TimesAssumption DEF TypeOK
    <3> QED BY <3>1, TimesAssumption DEF Due
  <2>3. idle + 0 >= Waited(MaxFails + 2)
    BY <2>1, <2>2 DEF Counted
  <2>4. idle \in Nat
    BY TimesAssumption DEF TypeOK
  <2> QED BY <2>3, <2>4 DEF Waited
<1>4. CASE ~ClocksSuffice
  BY <1>4
<1>5. CASE ClocksSuffice
  <2>1. TypeOK /\ Counted /\ [Next]_vars => Counted'
    BY <1>2, <1>5
  <2> QED BY <1>1, <1>3, <2>1, TypeCorrect, PTL DEF Spec, LastResort
<1> QED BY <1>4, <1>5
=============================================================================
