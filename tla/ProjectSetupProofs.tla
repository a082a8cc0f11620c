------------------------- MODULE ProjectSetupProofs -------------------------
(***************************************************************************)
(* Proofs about ProjectSetup, for any number of creates at a time, of      *)
(* accounts, of attempts and of faults, and any docker images.             *)
(***************************************************************************)
EXTENDS ProjectSetup, SequenceTheorems, WellFoundedInduction, TLAPS

----------------------------------------------------------------------------
(* How a session moves.                                                    *)

Records == [pc : Pcs, account : Files, tries : 0 .. MaxAttempts - 1]

LEMMA RecordTypes ==
  ASSUME TypeOK, NEW s \in Sessions
  PROVE  /\ session[s] \in {Idle} \union Records
         /\ Acc(s) \in Files
         /\ ~At(s, "idle") => session[s] \in Records
         /\ 0 \in 0 .. MaxAttempts - 1
BY BoundsAssumption DEF TypeOK, Records, Idle, Files, Acc, At

\* A session that goes on keeps its account; the others stay where they are.
LEMMA Goes ==
  ASSUME TypeOK, NEW s \in Sessions, NEW pc \in Pcs \union {"idle"},
         Goto(s, pc)
  PROVE  /\ session' \in [Sessions -> {Idle} \union Records]
         /\ session'[s].pc = pc
         /\ session'[s].account = IF pc = "idle" THEN NoAccount ELSE Acc(s)
         /\ \A t \in Sessions : t # s => session'[t] = session[t]
<1>1. session \in [Sessions -> {Idle} \union Records]
  BY DEF TypeOK, Records
<1>2. "idle" \notin Pcs
  BY DEF Pcs
<1>3. CASE pc = "idle"
  BY <1>1, <1>3 DEF Goto, Idle
<1>4. CASE pc # "idle"
  <2>1. [session[s] EXCEPT !.pc = pc, !.tries = 0] \in Records
    <3> DEFINE Any == [pc : Pcs \union {"idle"}, account : Files, tries : 0 .. MaxAttempts - 1]
    <3>1. Idle \in Any /\ session[s] \in Any
      BY <1>1, RecordTypes DEF Records, Idle, Files
    <3> QED BY <1>4, <3>1, RecordTypes DEF Records
  <2>2. session' = [session EXCEPT ![s] = [session[s] EXCEPT !.pc = pc, !.tries = 0]]
    BY <1>4 DEF Goto
  <2>3. session'[s] = [session[s] EXCEPT !.pc = pc, !.tries = 0]
    BY <1>1, <2>2
  <2>4. session'[s].account = Acc(s)
    BY <1>1, <2>3 DEF Records, Idle, Acc
  <2>5. session'[s].pc = pc
    BY <1>1, <2>3 DEF Records, Idle
  <2> QED BY <1>1, <1>4, <2>1, <2>2, <2>4, <2>5
<1> QED BY <1>3, <1>4

LEMMA Takes ==
  ASSUME TypeOK, NEW s \in Sessions, NEW a \in Files, NEW pc \in Pcs, With(s, a, pc)
  PROVE  /\ session' \in [Sessions -> {Idle} \union Records]
         /\ session'[s].pc = pc /\ session'[s].account = a
         /\ \A t \in Sessions : t # s => session'[t] = session[t]
<1>1. [pc |-> pc, account |-> a, tries |-> 0] \in Records
  BY RecordTypes DEF Records
<1> QED BY <1>1 DEF TypeOK, With, Records

----------------------------------------------------------------------------
(* Type correctness.                                                       *)

LEMMA StagesAre == StageNames = {"absent", "made", "editor", "bound", "effective"}
<1>1. /\ Stages[1] = "absent" /\ Stages[2] = "made" /\ Stages[3] = "editor"
      /\ Stages[4] = "bound" /\ Stages[5] = "effective"
  BY DEF Stages
<1>2. 1 .. 5 = {1, 2, 3, 4, 5}
  OBVIOUS
<1> QED BY <1>1, <1>2 DEF StageNames

LEMMA TypeInit == Init => TypeOK
<1> SUFFICES ASSUME Init PROVE TypeOK
  OBVIOUS
<1>1. account \in [AllAccounts -> StageNames]
  BY StagesAre DEF Init
<1>2. api \in BOOLEAN /\ network \in BOOLEAN /\ firewall \in {"none", "right", "wrong"}
  BY DEF Init
<1>3. /\ image \in Images /\ readable \subseteq {image, Requested[image]}
      /\ file \in Files /\ volumes \subseteq Files
  BY DEF Init, Files
<1>4. session \in [Sessions -> {Idle}] /\ faults \in 0 .. MaxFaults
  BY BoundsAssumption DEF Init
<1> QED BY <1>1, <1>2, <1>3, <1>4 DEF TypeOK

\* What a session does about its account is typed in every session.
LEMMA SetsType ==
  ASSUME TypeOK, NEW s \in Sessions, NEW from, NEW to \in StageNames, Sets(s, from, to)
  PROVE  /\ account' \in [AllAccounts -> StageNames]
         /\ UNCHANGED <<registry, file, api, network, firewall, volumes, faults>>
BY DEF TypeOK, Sets

LEMMA TypeStep ==
  ASSUME TypeOK, [Next]_vars
  PROVE  TypeOK'
<1> USE DEF cloud, registry
<1>1. ASSUME NEW s \in Sessions, Begin(s) PROVE TypeOK'
  <2>1. CASE Goto(s, "find account")
    BY <1>1, <2>1, Goes DEF Begin, Pcs, TypeOK, Records
  <2>2. ASSUME NEW a \in Given, With(s, a, "check access") PROVE TypeOK'
    BY <1>1, <2>2, Takes DEF Begin, Pcs, TypeOK, Records, Files, AllAccounts
  <2> QED BY <1>1, <2>1, <2>2 DEF Begin
<1>2. ASSUME NEW s \in Sessions, FindAccount(s) PROVE TypeOK'
  BY <1>2, Goes, Takes DEF FindAccount, Pcs, TypeOK, Records
<1>3. ASSUME NEW s \in Sessions, Enable(s) PROVE TypeOK'
  BY <1>3, Goes DEF Enable, Pcs, TypeOK, Records
<1>4. ASSUME NEW s \in Sessions, MakeNetwork(s) PROVE TypeOK'
  BY <1>4, Goes DEF MakeNetwork, Pcs, TypeOK, Records
<1>5. ASSUME NEW s \in Sessions, MakeAccount(s) PROVE TypeOK'
  <2>1. PICK a \in Accounts : account' = [account EXCEPT ![a] = "made"] /\ With(s, a, "grant")
    BY <1>5 DEF MakeAccount
  <2>2. account' \in [AllAccounts -> StageNames] /\ a \in Files
    BY <2>1, StagesAre DEF TypeOK, Files, AllAccounts
  <2> QED BY <1>5, <2>1, <2>2, Takes DEF MakeAccount, Pcs, TypeOK, Records
<1>6. ASSUME NEW s \in Sessions, Grant(s) PROVE TypeOK'
  BY <1>6, Goes, SetsType, StagesAre DEF Grant, Pcs, TypeOK, Records
<1>7. ASSUME NEW s \in Sessions, Bind(s) PROVE TypeOK'
  BY <1>7, Goes, SetsType, StagesAre DEF Bind, Pcs, TypeOK, Records
<1>8. ASSUME NEW s \in Sessions, AwaitBinding(s) PROVE TypeOK'
  BY <1>8, Goes DEF AwaitBinding, Pcs, TypeOK, Records
<1>9. ASSUME NEW s \in Sessions, OpenFile(s) PROVE TypeOK'
  BY <1>9, Goes DEF OpenFile, Pcs, TypeOK, Records, Files
<1>10. ASSUME NEW s \in Sessions, WriteFile(s) PROVE TypeOK'
  BY <1>10, Goes, RecordTypes DEF WriteFile, Pcs, TypeOK, Records
<1>11. ASSUME NEW s \in Sessions, ReadAgain(s) PROVE TypeOK'
  BY <1>11, Takes DEF ReadAgain, Pcs, TypeOK, Records
<1>12. ASSUME NEW s \in Sessions, CheckAccess(s) PROVE TypeOK'
  BY <1>12, Goes DEF CheckAccess, Pcs, TypeOK, Records
<1>13. ASSUME NEW s \in Sessions, ListRules(s) PROVE TypeOK'
  BY <1>13, Goes DEF ListRules, Pcs, TypeOK, Records
<1>14. ASSUME NEW s \in Sessions, MakeRule(s) PROVE TypeOK'
  BY <1>14, Goes DEF MakeRule, Pcs, TypeOK, Records
<1>15. ASSUME NEW s \in Sessions, MakeVolume(s) PROVE TypeOK'
  BY <1>15, Goes, RecordTypes DEF MakeVolume, TypeOK, Records
<1>16. ASSUME NEW s \in Sessions, CallFails(s) PROVE TypeOK'
  <2>1. CASE session[s].tries + 1 < MaxAttempts
    <3>1. session[s] \in Records
      BY <1>16, RecordTypes DEF CallFails, Retried, At
    <3>2. [session[s] EXCEPT !.tries = @ + 1] \in Records
      BY <2>1, <3>1, BoundsAssumption DEF Records
    <3>3. session' = [session EXCEPT ![s] = [session[s] EXCEPT !.tries = @ + 1]]
      BY <1>16, <2>1, <3>1 DEF CallFails
    <3> QED BY <1>16, <3>2, <3>3, BoundsAssumption DEF CallFails, Fault, TypeOK, Records
  <2>2. CASE ~(session[s].tries + 1 < MaxAttempts)
    BY <1>16, <2>2, Goes, BoundsAssumption DEF CallFails, Fault, TypeOK, Records
  <2> QED BY <2>1, <2>2
<1>17. ASSUME NEW s \in Sessions, Ends(s) PROVE TypeOK'
  BY <1>17, Goes, BoundsAssumption DEF Ends, Fault, TypeOK, Records
<1>18. ASSUME NEW a \in Accounts, TakesEffect(a) PROVE TypeOK'
  BY <1>18, StagesAre DEF TakesEffect, TypeOK
<1>19. CASE EditRule
  BY <1>19, BoundsAssumption DEF EditRule, Fault, TypeOK
<1>20. CASE UNCHANGED vars
  BY <1>20 DEF vars, TypeOK
<1> QED BY <1>1, <1>2, <1>3, <1>4, <1>5, <1>6, <1>7, <1>8, <1>9, <1>10, <1>11, <1>12,
           <1>13, <1>14, <1>15, <1>16, <1>17, <1>18, <1>19, <1>20 DEF Next, Proceed

\* Types are kept, and no call is retried more often than it may be.
THEOREM TypeCorrect == Spec => []TypeOK
BY TypeInit, TypeStep, PTL DEF Spec

----------------------------------------------------------------------------
(* What is set up stays set up.                                            *)

Keeps ==
  /\ UNCHANGED registry
  /\ network => network'
  /\ firewall # "none" => firewall' # "none"
  /\ \A a \in AllAccounts : /\ account[a] = "effective" => account'[a] = "effective"
                            /\ account[a] # "absent" => account'[a] # "absent"

LEMMA KeepsAll ==
  ASSUME TypeOK, [Next]_vars
  PROVE  Keeps
<1> USE DEF cloud, Keeps
<1>0. ASSUME UNCHANGED <<registry, account, network>>, firewall # "none" => firewall' # "none"
      PROVE  Keeps
  BY <1>0
<1>1. ASSUME NEW s \in Sessions, Begin(s) \/ FindAccount(s) \/ Enable(s) PROVE Keeps
  <2>1. UNCHANGED <<registry, account, network, firewall>>
    BY <1>1 DEF Begin, FindAccount, Enable
  <2> QED BY <1>0, <2>1
<1>2. ASSUME NEW s \in Sessions, MakeNetwork(s) PROVE Keeps
  BY <1>2 DEF MakeNetwork
<1>3. ASSUME NEW s \in Sessions, MakeAccount(s) PROVE Keeps
  <2>1. PICK a \in Accounts : /\ \A b \in Accounts : account[b] = "absent" <=> a <= b
                              /\ account' = [account EXCEPT ![a] = "made"]
    BY <1>3 DEF MakeAccount
  <2>2. account[a] = "absent"
    BY <2>1, NullsAssumption
  <2> QED BY <1>3, <2>1, <2>2 DEF MakeAccount, TypeOK
<1>4. ASSUME NEW s \in Sessions, Grant(s) \/ Bind(s) PROVE Keeps
  BY <1>4 DEF Grant, Bind, Sets, TypeOK
<1>5. ASSUME NEW s \in Sessions, AwaitBinding(s) \/ OpenFile(s) \/ WriteFile(s) PROVE Keeps
  <2>1. UNCHANGED <<registry, account, network, firewall>>
    BY <1>5 DEF AwaitBinding, OpenFile, WriteFile
  <2> QED BY <1>0, <2>1
<1>6. ASSUME NEW s \in Sessions, ReadAgain(s) \/ CheckAccess(s) \/ ListRules(s) PROVE Keeps
  <2>1. UNCHANGED <<registry, account, network, firewall>>
    BY <1>6 DEF ReadAgain, CheckAccess, ListRules
  <2> QED BY <1>0, <2>1
<1>7. ASSUME NEW s \in Sessions, MakeRule(s) \/ MakeVolume(s) PROVE Keeps
  <2>1. UNCHANGED <<registry, account, network>> /\ (firewall # "none" => firewall' # "none")
    BY <1>7 DEF MakeRule, MakeVolume
  <2> QED BY <1>0, <2>1
<1>8. ASSUME NEW s \in Sessions, CallFails(s) \/ Ends(s) PROVE Keeps
  <2>1. UNCHANGED <<registry, account, network, firewall>>
    BY <1>8 DEF CallFails, Ends
  <2> QED BY <1>0, <2>1
<1>9. ASSUME NEW a \in Accounts, TakesEffect(a) PROVE Keeps
  BY <1>9 DEF TakesEffect, TypeOK
<1>10. CASE EditRule
  BY <1>10 DEF EditRule
<1>11. CASE UNCHANGED vars
  BY <1>11 DEF vars
<1> QED BY <1>1, <1>2, <1>3, <1>4, <1>5, <1>6, <1>7, <1>8, <1>9, <1>10, <1>11
        DEF Next, Proceed

----------------------------------------------------------------------------
(* The inductive invariant: what each session knows where it is, and that  *)
(* there is a network before there is a rule.                              *)

Knows(s) ==
  /\ session[s].pc \in {"open file", "write file", "list rules", "make rule", "make volume"}
       => CanImpersonate(Acc(s))
  /\ session[s].pc \in {"list rules", "make rule", "make volume"}
       => Requested[image] \in readable
  /\ session[s].pc = "make volume" => firewall # "none"

Networked == firewall # "none" => network

IInv == TypeOK /\ RememberedIsReady /\ Networked /\ \A s \in Sessions : Knows(s)

LEMMA InitIInv == Init => IInv
<1> SUFFICES ASSUME Init PROVE IInv
  OBVIOUS
<1>1. RememberedIsReady
  BY NullsAssumption DEF Init, RememberedIsReady, AllAccounts
<1>2. Networked
  BY DEF Init, Networked
<1>3. \A s \in Sessions : Knows(s)
  BY DEF Init, Knows, Idle
<1> QED BY <1>1, <1>2, <1>3, TypeInit DEF IInv

\* What a session knows, it knows as long as it stays where it is.
LEMMA StillKnows ==
  ASSUME Keeps, NEW t \in Sessions, Knows(t), session'[t] = session[t]
  PROVE  Knows(t)'
BY DEF Keeps, Knows, CanImpersonate, Acc, registry

\* A session that moves has to know what it needs where it gets to; the others
\* go on knowing.
LEMMA OneMoves ==
  ASSUME IInv, [Next]_vars, NEW s \in Sessions, Knows(s)',
         \A t \in Sessions : t # s => session'[t] = session[t]
  PROVE  \A t \in Sessions : Knows(t)'
BY KeepsAll, StillKnows DEF IInv

LEMMA KnowsStep ==
  ASSUME IInv, [Next]_vars
  PROVE  \A t \in Sessions : Knows(t)'
<1>1. TypeOK /\ Keeps
  BY KeepsAll DEF IInv
<1> DEFINE All == \A t \in Sessions : Knows(t)'
<1>2. ASSUME NEW s \in Sessions, NEW pc \in Pcs \union {"idle"}, Goto(s, pc),
             pc \notin {"open file", "write file", "list rules", "make rule", "make volume"}
      PROVE  All
  BY <1>1, <1>2, Goes, OneMoves DEF Knows
<1>3. ASSUME NEW s \in Sessions, NEW a \in Files, NEW pc \in Pcs, With(s, a, pc),
             pc \in {"grant", "check access"}
      PROVE  All
  BY <1>1, <1>3, Takes, OneMoves DEF Knows
<1>4. ASSUME NEW s \in Sessions,
             \/ Begin(s) \/ Enable(s) \/ MakeNetwork(s) \/ Grant(s) \/ Bind(s) \/ MakeVolume(s)
      PROVE  All
  BY <1>2, <1>3, <1>4
     DEF Begin, Enable, MakeNetwork, Grant, Bind, MakeVolume, Pcs, Files, AllAccounts
<1>5. ASSUME NEW s \in Sessions, FindAccount(s) PROVE All
  BY <1>1, <1>2, <1>3, <1>5 DEF FindAccount, Pcs, TypeOK
<1>7. ASSUME NEW s \in Sessions, MakeAccount(s) PROVE All
  BY <1>3, <1>7 DEF MakeAccount, Files, AllAccounts, Pcs
<1>8. ASSUME NEW s \in Sessions, AwaitBinding(s) PROVE All
  <2> "open file" \in Pcs /\ "open file" # "idle"
    BY DEF Pcs
  <2> account' = account
    BY <1>8 DEF AwaitBinding, cloud
  <2>1. session'[s].pc = "open file" /\ session'[s].account = Acc(s)
    BY <1>1, <1>8, Goes DEF AwaitBinding
  <2>2. Knows(s)'
    BY <1>8, <2>1 DEF AwaitBinding, Knows, CanImpersonate, Acc
  <2> QED BY <1>1, <1>8, <2>2, Goes, OneMoves DEF AwaitBinding, Pcs
<1>9. ASSUME NEW s \in Sessions, OpenFile(s) PROVE All
  <2> "write file" \in Pcs /\ "write file" # "idle"
    BY DEF Pcs
  <2> account' = account
    BY <1>9 DEF OpenFile, cloud
  <2>1. session'[s].pc = "write file" /\ session'[s].account = Acc(s)
    BY <1>1, <1>9, Goes DEF OpenFile
  <2>2. CanImpersonate(Acc(s))
    BY <1>9 DEF OpenFile, At, IInv, Knows
  <2>3. Knows(s)'
    BY <2>1, <2>2 DEF Knows, CanImpersonate, Acc
  <2> QED BY <1>1, <1>9, <2>3, Goes, OneMoves DEF OpenFile, Pcs
<1>10. ASSUME NEW s \in Sessions, WriteFile(s) PROVE All
  BY <1>2, <1>10 DEF WriteFile, Pcs
<1>11. ASSUME NEW s \in Sessions, ReadAgain(s) PROVE All
  BY <1>1, <1>3, <1>11 DEF ReadAgain, Pcs, TypeOK
<1>12. ASSUME NEW s \in Sessions, CheckAccess(s) PROVE All
  <2>1. CASE CanImpersonate(Acc(s)) /\ Requested[image] \in readable
    <3> "list rules" \in Pcs /\ "list rules" # "idle"
      BY DEF Pcs
    <3> UNCHANGED <<account, image, readable>>
      BY <1>12 DEF CheckAccess, cloud, registry
    <3>1. session'[s].pc = "list rules" /\ session'[s].account = Acc(s)
      BY <1>1, <1>12, <2>1, Goes DEF CheckAccess
    <3>2. Knows(s)'
      BY <2>1, <3>1 DEF Knows, CanImpersonate, Acc
    <3> QED BY <1>1, <1>12, <2>1, <3>2, Goes, OneMoves DEF CheckAccess, Pcs
  <2>2. CASE ~(CanImpersonate(Acc(s)) /\ Requested[image] \in readable)
    BY <1>2, <1>12, <2>2 DEF CheckAccess
  <2> QED BY <2>1, <2>2
<1>13. ASSUME NEW s \in Sessions, ListRules(s) PROVE All
  <2>1. /\ CanImpersonate(Acc(s)) /\ Requested[image] \in readable
        /\ UNCHANGED <<account, firewall, image, readable>>
    BY <1>13 DEF ListRules, At, IInv, Knows, cloud, registry
  <2>2. ASSUME NEW pc \in {"make rule", "make volume"}, Goto(s, pc),
               pc = "make volume" => firewall # "none"
        PROVE  All
    <3>1. pc \in Pcs /\ pc # "idle"
      BY DEF Pcs
    <3>2. session'[s].pc = pc /\ session'[s].account = Acc(s)
      BY <1>1, <2>2, <3>1, Goes
    <3>3. Knows(s)'
      BY <2>1, <2>2, <3>2 DEF Knows, CanImpersonate, Acc
    <3> QED BY <1>1, <2>2, <3>1, <3>3, Goes, OneMoves
  <2>3. CASE api /\ firewall = "none"
    BY <1>13, <2>2, <2>3 DEF ListRules
  <2>4. CASE api /\ firewall = "right"
    BY <1>13, <2>2, <2>4 DEF ListRules
  <2>5. CASE ~(api /\ firewall = "none") /\ ~(api /\ firewall = "right")
    BY <1>2, <1>13, <2>5 DEF ListRules
  <2> QED BY <2>3, <2>4, <2>5
<1>14. ASSUME NEW s \in Sessions, MakeRule(s) PROVE All
  <2>1. CASE network /\ firewall = "none"
    <3> "make volume" \in Pcs /\ "make volume" # "idle"
      BY DEF Pcs
    <3> /\ UNCHANGED <<account, image, readable>> /\ firewall' = "right"
        /\ Goto(s, "make volume")
      BY <1>14, <2>1 DEF MakeRule, registry
    <3>1. session'[s].pc = "make volume" /\ session'[s].account = Acc(s)
      BY <1>1, Goes
    <3>2. CanImpersonate(Acc(s)) /\ Requested[image] \in readable
      BY <1>14 DEF MakeRule, At, IInv, Knows
    <3>3. Knows(s)'
      BY <3>1, <3>2 DEF Knows, CanImpersonate, Acc
    <3> QED BY <1>1, <1>14, <2>1, <3>3, Goes, OneMoves DEF MakeRule, Pcs
  <2>2. CASE ~(network /\ firewall = "none")
    BY <1>2, <1>14, <2>2 DEF MakeRule
  <2> QED BY <2>1, <2>2
<1>15. ASSUME NEW s \in Sessions, CallFails(s) PROVE All
  <2>1. CASE session[s].tries + 1 < MaxAttempts
    <3>1. session[s] \in Records
      BY <1>1, <1>15, RecordTypes DEF CallFails, Retried, At
    <3>2. session' = [session EXCEPT ![s] = [session[s] EXCEPT !.tries = @ + 1]]
      BY <1>15, <2>1 DEF CallFails
    <3>3. session'[s].pc = session[s].pc /\ \A t \in Sessions : t # s => session'[t] = session[t]
      BY <1>1, <3>1, <3>2 DEF TypeOK, Records
    <3>4. Knows(s)'
      BY <1>15, <3>3 DEF CallFails, Retried, Knows
    <3> QED BY <3>3, <3>4, OneMoves
  <2>2. CASE ~(session[s].tries + 1 < MaxAttempts)
    BY <1>2, <1>15, <2>2 DEF CallFails
  <2> QED BY <2>1, <2>2
<1>16. ASSUME NEW s \in Sessions, Ends(s) PROVE All
  BY <1>2, <1>16 DEF Ends
<1>17. CASE UNCHANGED session
  BY <1>1, <1>17, StillKnows DEF IInv
<1>18. ASSUME NEW a \in Accounts, TakesEffect(a) PROVE UNCHANGED session
  BY <1>18 DEF TakesEffect
<1>19. CASE EditRule
  BY <1>17, <1>19 DEF EditRule
<1>20. CASE UNCHANGED vars
  BY <1>17, <1>20 DEF vars
<1> QED BY <1>4, <1>5, <1>7, <1>8, <1>9, <1>10, <1>11, <1>12, <1>13, <1>14, <1>15,
           <1>16, <1>17, <1>18, <1>19, <1>20 DEF Next, Proceed

\* The file is written only by a session that knows what it writes.
LEMMA FileChanges ==
  ASSUME [Next]_vars
  PROVE  \/ file' = file
         \/ \E s \in Sessions : At(s, "open file") /\ file' = Empty
         \/ \E s \in Sessions : At(s, "write file") /\ file' = Acc(s)
BY DEF Next, Proceed, vars, cloud, Begin, FindAccount, Enable, MakeNetwork, MakeAccount,
       Grant, Bind, Sets, AwaitBinding, OpenFile, WriteFile, ReadAgain, CheckAccess,
       ListRules, MakeRule, MakeVolume, CallFails, Ends, TakesEffect, EditRule

\* A rule is made only where there is a network.
LEMMA OnlyNetworked ==
  ASSUME [Next]_vars, firewall = "none", firewall' # "none"
  PROVE  network
BY DEF Next, Proceed, vars, cloud, Begin, FindAccount, Enable, MakeNetwork, MakeAccount,
       Grant, Bind, Sets, AwaitBinding, OpenFile, WriteFile, ReadAgain, CheckAccess,
       ListRules, MakeRule, MakeVolume, CallFails, Ends, TakesEffect, EditRule

LEMMA IInvStep ==
  ASSUME IInv, [Next]_vars
  PROVE  IInv'
<1>1. TypeOK /\ TypeOK' /\ Keeps
  BY TypeStep, KeepsAll DEF IInv
<1>2. RememberedIsReady'
  <2>1. CASE file' = file
    BY <1>1, <2>1 DEF IInv, RememberedIsReady, CanImpersonate, Keeps
  <2>2. ASSUME NEW s \in Sessions, At(s, "open file"), file' = Empty PROVE RememberedIsReady'
    BY <2>2, NullsAssumption DEF RememberedIsReady, AllAccounts
  <2>3. ASSUME NEW s \in Sessions, At(s, "write file"), file' = Acc(s)
        PROVE  RememberedIsReady'
    BY <1>1, <2>3 DEF IInv, Knows, At, RememberedIsReady, CanImpersonate, Keeps
  <2> QED BY <2>1, <2>2, <2>3, FileChanges
<1>3. Networked'
  BY <1>1, OnlyNetworked DEF IInv, Networked, Keeps
<1> QED BY <1>1, <1>2, <1>3, KnowsStep DEF IInv

LEMMA AlwaysIInv == Spec => []IInv
BY InitIInv, IInvStep, PTL DEF Spec

\* Whatever sessions die and whatever calls fail, an account is remembered only
\* when its role and its binding have taken effect, and it stays so.
THEOREM AccountsReady == Spec => []RememberedIsReady
BY AlwaysIInv, PTL DEF IInv

\* No create makes a disk in a project without a working account, a network
\* and a rule for tunnels.
THEOREM DisksReachable == Spec => DisksAreReachable
<1>1. IInv => [\A s \in Sessions :
                 volumes' # volumes /\ At(s, "make volume") /\ ~At(s, "make volume")' =>
                   /\ CanImpersonate(Acc(s))
                   /\ network /\ firewall # "none"]_vars
  <2> SUFFICES ASSUME IInv, NEW s \in Sessions, At(s, "make volume")
               PROVE  CanImpersonate(Acc(s)) /\ network /\ firewall # "none"
    OBVIOUS
  <2> QED BY DEF IInv, Knows, At, Networked
<1> QED BY <1>1, AlwaysIInv, PTL DEF DisksAreReachable

----------------------------------------------------------------------------
(* What dead sessions leave.                                               *)

\* The accounts a session is about after a step: its own, the one remembered,
\* one that the user gives, or a new one.
LEMMA AccountsTaken ==
  ASSUME TypeOK, [Next]_vars, NEW t \in Sessions
  PROVE  \/ Acc(t)' \in {Acc(t), NoAccount, file} \union Given
         \/ Acc(t)' \in Accounts /\ account[Acc(t)'] = "absent"
<1> USE DEF Acc
<1>1. ASSUME NEW s \in Sessions, NEW pc \in Pcs \union {"idle"}, Goto(s, pc)
      PROVE  Acc(t)' \in {Acc(t), NoAccount}
  BY <1>1, Goes
<1>2. ASSUME NEW s \in Sessions, NEW pc \in Pcs, With(s, file, pc)
      PROVE  Acc(t)' \in {Acc(t), file}
  BY <1>2, Takes DEF TypeOK
<1>3. ASSUME NEW s \in Sessions, MakeAccount(s)
      PROVE  \/ Acc(t)' = Acc(t)
             \/ Acc(t)' \in Accounts /\ account[Acc(t)'] = "absent"
  <2>1. PICK a \in Accounts : /\ \A b \in Accounts : account[b] = "absent" <=> a <= b
                              /\ With(s, a, "grant")
    BY <1>3 DEF MakeAccount
  <2> account[a] = "absent"
    BY <2>1, NullsAssumption
  <2>2. a \in Files /\ "grant" \in Pcs
    BY DEF Files, AllAccounts, Pcs
  <2> QED BY <2>1, <2>2, Takes
<1>4. ASSUME NEW s \in Sessions, CallFails(s)
      PROVE  Acc(t)' \in {Acc(t), NoAccount}
  <2>1. CASE session[s].tries + 1 < MaxAttempts
    <3>1. session[s] \in Records
      BY <1>4, RecordTypes DEF CallFails, Retried, At
    <3>2. session' = [session EXCEPT ![s] = [session[s] EXCEPT !.tries = @ + 1]]
      BY <1>4, <2>1 DEF CallFails
    <3> QED BY <3>1, <3>2 DEF TypeOK, Records
  <2>2. CASE ~(session[s].tries + 1 < MaxAttempts)
    BY <1>1, <1>4, <2>2 DEF CallFails
  <2> QED BY <2>1, <2>2
<1>5. ASSUME NEW s \in Sessions,
             \/ Enable(s) \/ MakeNetwork(s) \/ Grant(s) \/ Bind(s) \/ AwaitBinding(s)
             \/ OpenFile(s) \/ WriteFile(s) \/ CheckAccess(s) \/ ListRules(s)
             \/ MakeRule(s) \/ MakeVolume(s) \/ Ends(s)
      PROVE  Acc(t)' \in {Acc(t), NoAccount}
  <2>1. \E pc \in Pcs \union {"idle"} : Goto(s, pc)
    BY <1>5 DEF Begin, Enable, MakeNetwork, Grant, Bind, AwaitBinding, OpenFile, WriteFile,
                CheckAccess, ListRules, MakeRule, MakeVolume, Ends, Pcs
  <2> QED BY <1>1, <2>1
<1>6. ASSUME NEW s \in Sessions, FindAccount(s) \/ ReadAgain(s)
      PROVE  Acc(t)' \in {Acc(t), NoAccount, file}
  BY <1>1, <1>2, <1>6 DEF FindAccount, ReadAgain, Pcs
<1>7. CASE UNCHANGED session
  BY <1>7
<1>8. ASSUME NEW a \in Accounts, TakesEffect(a) PROVE UNCHANGED session
  BY <1>8 DEF TakesEffect
<1>9. EditRule \/ UNCHANGED vars => UNCHANGED session
  BY DEF EditRule, vars
<1>10. ASSUME NEW s \in Sessions, Begin(s)
       PROVE  Acc(t)' \in {Acc(t), NoAccount} \union Given
  <2>1. CASE Goto(s, "find account")
    BY <1>1, <2>1 DEF Pcs
  <2>2. ASSUME NEW a \in Given, With(s, a, "check access")
        PROVE  Acc(t)' \in {Acc(t)} \union Given
    BY <2>2, Takes DEF Pcs, Files, AllAccounts
  <2> QED BY <1>10, <2>1, <2>2 DEF Begin
<1> QED BY <1>3, <1>4, <1>5, <1>6, <1>7, <1>8, <1>9, <1>10 DEF Next, Proceed

\* A session begins to make an account only if it has seen no file.
LEMMA MakesWithoutFile ==
  ASSUME TypeOK, [Next]_vars, NEW t \in Sessions,
         session[t].pc \notin Making, session'[t].pc \in Making
  PROVE  file = NoAccount
<1> USE DEF Making
<1>1. ASSUME NEW s \in Sessions, NEW pc \in Pcs \union {"idle"}, Goto(s, pc), pc \notin Making
      PROVE  FALSE
  BY <1>1, Goes DEF Pcs
<1>2. ASSUME NEW s \in Sessions, NEW a \in Files, NEW pc \in Pcs \ Making, With(s, a, pc)
      PROVE  FALSE
  BY <1>2, Takes
<1>4. ASSUME NEW s \in Sessions, FindAccount(s) PROVE file = NoAccount
  BY <1>2, <1>4 DEF FindAccount, TypeOK, Pcs
<1>5. ASSUME NEW s \in Sessions,
             \/ Begin(s) \/ CheckAccess(s) \/ MakeVolume(s) \/ Ends(s) \/ WriteFile(s)
      PROVE  FALSE
  BY <1>1, <1>2, <1>5
     DEF Begin, CheckAccess, MakeVolume, Ends, WriteFile, Pcs, Files, AllAccounts
<1>6. ASSUME NEW s \in Sessions, ListRules(s) \/ MakeRule(s) PROVE FALSE
  BY <1>1, <1>6 DEF ListRules, MakeRule, Pcs
<1>7. ASSUME NEW s \in Sessions, ReadAgain(s) PROVE FALSE
  BY <1>2, <1>7 DEF ReadAgain, TypeOK, Pcs
<1>8. ASSUME NEW s \in Sessions, session[s].pc \in Making,
             NEW pc \in Pcs \union {"idle"}, Goto(s, pc)
      PROVE  FALSE
  BY <1>8, Goes
<1>9. ASSUME NEW s \in Sessions,
             \/ Enable(s) \/ MakeNetwork(s) \/ Grant(s) \/ Bind(s) \/ AwaitBinding(s)
             \/ OpenFile(s)
      PROVE  FALSE
  <2>1. session[s].pc \in Making
    BY <1>9 DEF Enable, MakeNetwork, Grant, Bind, AwaitBinding, OpenFile, At, Pcs
  <2>2. \E pc \in Pcs \union {"idle"} : Goto(s, pc)
    BY <1>9 DEF Enable, MakeNetwork, Grant, Bind, AwaitBinding, OpenFile, Pcs
  <2> QED BY <1>8, <2>1, <2>2
<1>10. ASSUME NEW s \in Sessions, MakeAccount(s) PROVE FALSE
  <2>1. session[s].pc \in Making
    BY <1>10 DEF MakeAccount, At, Pcs
  <2>2. \A u \in Sessions : u # s => session'[u] = session[u]
    BY <1>10, Takes DEF MakeAccount, Files, AllAccounts, Pcs
  <2> QED BY <2>1, <2>2
<1>11. ASSUME NEW s \in Sessions, CallFails(s) PROVE FALSE
  <2>1. session[s].pc \in Making
    BY <1>11 DEF CallFails, Retried, Pcs
  <2>2. CASE session[s].tries + 1 < MaxAttempts
    BY <1>11, <2>1, <2>2 DEF CallFails, TypeOK
  <2>3. CASE ~(session[s].tries + 1 < MaxAttempts)
    BY <1>1, <1>11, <2>3 DEF CallFails, Pcs
  <2> QED BY <2>2, <2>3
<1>12. CASE UNCHANGED session
  BY <1>12
<1>13. ASSUME NEW a \in Accounts, TakesEffect(a) PROVE UNCHANGED session
  BY <1>13 DEF TakesEffect
<1>14. EditRule \/ UNCHANGED vars => UNCHANGED session
  BY DEF EditRule, vars
<1> QED BY <1>4, <1>5, <1>6, <1>7, <1>9, <1>10, <1>11, <1>12, <1>13, <1>14 DEF Next, Proceed

LEMMA LeakedStays ==
  ASSUME TypeOK, [Next]_vars, NEW a \in Accounts, Leaked(a)
  PROVE  Leaked(a)'
<1>1. account'[a] # "absent"
  BY KeepsAll DEF Keeps, Leaked, AllAccounts
<1>2. file' # a
  BY FileChanges, NullsAssumption DEF Leaked
<1>3. \A t \in Sessions : Acc(t)' # a
  BY AccountsTaken, NullsAssumption DEF Leaked
<1> QED BY <1>1, <1>2, <1>3 DEF Leaked, Acc

LEMMA EmptiedStays ==
  ASSUME TypeOK, [Next]_vars, Emptied
  PROVE  Emptied'
<1>1. file = Empty /\ \A s \in Sessions : session[s].pc \notin Making
  BY DEF Emptied
<1>2. \A s \in Sessions : ~At(s, "open file") /\ ~At(s, "write file")
  BY <1>1 DEF At, Making, Pcs
<1>3. file' = Empty
  BY <1>1, <1>2, FileChanges
<1>4. \A s \in Sessions : session'[s].pc \notin Making
  BY <1>1, MakesWithoutFile, NullsAssumption
<1> QED BY <1>3, <1>4 DEF Emptied

\* An account that a dead session made is never taken up by another that is not
\* told to, and a file that a dead session emptied is never written again.
THEOREM LeftoversStayForGood == Spec => LeftoversStay
<1>1. TypeOK /\ [Next]_vars =>
        [/\ \A a \in Accounts : Leaked(a) => Leaked(a)'
         /\ Emptied => Emptied']_vars
  BY LeakedStays, EmptiedStays
<1> QED BY <1>1, TypeCorrect, PTL DEF LeftoversStay, Spec
----------------------------------------------------------------------------
(* The names of docker images.  The tokens of a name are read to its end.  *)

Tokens == {"w", "W", ".", "/", ":"}

\* A run of tokens goes as far as it can.
LEMMA RunIs ==
  ASSUME NEW t \in Seq(Tokens), NEW tokens, NEW i \in 1 .. Len(t) + 1, NEW e \in i - 1 .. Len(t),
         \A k \in i .. e : t[k] \in tokens,
         e < Len(t) => t[e + 1] \notin tokens
  PROVE  RunFrom(t, i, tokens) = SubSeq(t, i, e)
<1> DEFINE ends == {j \in i - 1 .. Len(t) : \A k \in i .. j : t[k] \in tokens}
<1>1. e \in ends /\ e \in Int /\ ends \subseteq Int
  OBVIOUS
<1>2. ASSUME NEW j \in ends PROVE j <= e
  <2>1. SUFFICES ASSUME e < j PROVE FALSE
    BY <1>1
  <2>2. e + 1 \in i .. j /\ e < Len(t)
    BY <2>1
  <2> QED BY <2>2
<1>3. \A j \in ends : (\A k \in ends : k <= j) => j = e
  BY <1>1, <1>2
<1>4. (CHOOSE j \in ends : \A k \in ends : k <= j) = e
  BY <1>1, <1>2, <1>3
<1> QED BY <1>4 DEF RunFrom

\* A set of numbers has a least one.
LEMMA LeastOf ==
  ASSUME NEW T \in SUBSET Nat, T # {}
  PROVE  \E x \in T : \A y \in T : ~(y < x)
<1> DEFINE R == OpToRel(<, Nat)
<1>1. IsWellFoundedOn(R, Nat)
  BY NatLessThanWellFounded
<1>2. \A x, y \in Nat : <<x, y>> \in R <=> x < y
  BY DEF OpToRel
<1> HIDE DEF R
<1> QED BY <1>1, <1>2, WFMin

\* A run consists of the tokens it is made of.
LEMMA RunWithin ==
  ASSUME NEW t \in Seq(Tokens), NEW tokens, NEW i \in 1 .. Len(t) + 1
  PROVE  \A k \in 1 .. Len(RunFrom(t, i, tokens)) : RunFrom(t, i, tokens)[k] \in tokens
<1> DEFINE stops == {k \in Nat : k >= i /\ k <= Len(t) + 1 /\ (k <= Len(t) => t[k] \notin tokens)}
<1>1. Len(t) \in Nat /\ i \in Nat /\ i >= 1 /\ i <= Len(t) + 1
  OBVIOUS
<1>2. PICK m \in stops : \A k \in stops : ~(k < m)
  <2>1. Len(t) + 1 \in stops /\ stops \in SUBSET Nat
    BY <1>1
  <2> HIDE DEF stops
  <2> QED BY <2>1, LeastOf
<1> DEFINE e == m - 1
<1>4. e \in i - 1 .. Len(t)
  BY <1>1, <1>2
<1>5. \A k \in i .. e : t[k] \in tokens
  BY <1>1, <1>2
<1>6. e < Len(t) => t[e + 1] \notin tokens
  BY <1>1, <1>2
<1> HIDE DEF e
<1>7. RunFrom(t, i, tokens) = SubSeq(t, i, e)
  BY <1>4, <1>5, <1>6, RunIs
<1>8. \A k \in 1 .. Len(SubSeq(t, i, e)) : SubSeq(t, i, e)[k] = t[i + k - 1] /\ i + k - 1 \in i .. e
  BY <1>1, <1>4
<1> QED BY <1>5, <1>7, <1>8

LEMMA WordsAre ==
  ASSUME NEW k \in Nat, NEW words \in SUBSET Tokens, NEW separators \in SUBSET Tokens,
         NEW t \in Words(k, words, separators)
  PROVE  /\ t \in Seq(Tokens)
         /\ \A i \in 1 .. Len(t) : t[i] \in words \union separators
<1>1. 2 * k + 1 \in Nat /\ t \in [1 .. 2 * k + 1 -> words \union separators]
  BY DEF Words
<1> QED BY <1>1

\* A path that is followed by nothing, or by a colon and a tag.
LEMMA PathAlone ==
  ASSUME NEW t \in Seq(Tokens), \A i \in 1 .. Len(t) : t[i] \in {"w", "/"}
  PROVE  Path(t) = t /\ Tag(t, Len(t) + 1) = << >>
<1>1. Len(t) \in Nat /\ 1 \in 1 .. Len(t) + 1 /\ Len(t) \in 1 - 1 .. Len(t)
  OBVIOUS
<1>2. Path(t) = SubSeq(t, 1, Len(t))
  BY <1>1, RunIs DEF Path
<1>3. ~(Len(t) + 1 <= Len(t))
  BY <1>1
<1> QED BY <1>2, <1>3, SubSeqFull DEF Tag

LEMMA SplitAtColon ==
  ASSUME NEW t \in Seq(Tokens), NEW n \in Nat, NEW m \in Nat, Len(t) = n + 1 + m,
         \A i \in 1 .. n : t[i] \in {"w", "/"},
         t[n + 1] = ":",
         \A i \in n + 2 .. n + 1 + m : t[i] \in {"w", "."}
  PROVE  /\ Path(t) = SubSeq(t, 1, n)
         /\ Tag(t, n + 1) = SubSeq(t, n + 2, n + 1 + m)
<1>1. RunFrom(t, 1, {"w", "/"}) = SubSeq(t, 1, n)
  <2>1. 1 \in 1 .. Len(t) + 1 /\ n \in 1 - 1 .. Len(t) /\ t[n + 1] \notin {"w", "/"}
    OBVIOUS
  <2> QED BY <2>1, RunIs
<1>2. RunFrom(t, n + 2, {"w", "/", "."}) = SubSeq(t, n + 2, n + 1 + m)
  <2> DEFINE i == n + 2
             e == n + 1 + m
  <2>1. i \in 1 .. Len(t) + 1 /\ e \in i - 1 .. Len(t) /\ ~(e < Len(t))
    OBVIOUS
  <2>2. \A k \in i .. e : t[k] \in {"w", "/", "."}
    OBVIOUS
  <2> HIDE DEF i, e
  <2>3. RunFrom(t, i, {"w", "/", "."}) = SubSeq(t, i, e)
    BY <2>1, <2>2, RunIs
  <2> QED BY <2>3 DEF i, e
<1>3. n + 1 <= Len(t) /\ n + 1 + 1 = n + 2
  OBVIOUS
<1> QED BY <1>1, <1>2, <1>3 DEF Path, Tag

\* A part of a sequence that has the elements of another is the other.
LEMMA PartIs ==
  ASSUME NEW t \in Seq(Tokens), NEW u \in Seq(Tokens), NEW i \in Nat,
         i + Len(u) <= Len(t),
         \A k \in 1 .. Len(u) : t[i + k] = u[k]
  PROVE  SubSeq(t, i + 1, i + Len(u)) = u
<1> DEFINE p == SubSeq(t, i + 1, i + Len(u))
<1>1. Len(u) \in Nat /\ Len(t) \in Nat
  OBVIOUS
<1>2. p \in Seq(Tokens) /\ Len(p) = Len(u)
  BY <1>1
<1>3. \A k \in 1 .. Len(u) : p[k] = t[i + k]
  BY <1>1
<1> HIDE DEF p
<1>4. p = u
  BY <1>2, <1>3, SeqEqual
<1> QED BY <1>4 DEF p

LEMMA PathAndTag ==
  ASSUME NEW path \in Seq(Tokens), NEW tag \in Seq(Tokens),
         \A i \in 1 .. Len(path) : path[i] \in {"w", "/"},
         \A i \in 1 .. Len(tag) : tag[i] \in {"w", "."}
  PROVE  LET t == path \o (<<":">> \o tag)
         IN  Path(t) = path /\ Tag(t, Len(path) + 1) = tag
<1> DEFINE n == Len(path)
           m == Len(tag)
           u == <<":">> \o tag
           t == path \o u
<1>1. n \in Nat /\ m \in Nat
  OBVIOUS
<1>2. <<":">> \in Seq(Tokens) /\ Len(<<":">>) = 1 /\ <<":">>[1] = ":"
  BY DEF Tokens
<1>3. /\ u \in Seq(Tokens) /\ Len(u) = 1 + m /\ u[1] = ":"
      /\ \A i \in 1 .. m : u[1 + i] = tag[i]
  BY <1>1, <1>2, ConcatProperties
<1> HIDE DEF u
<1>4. /\ t \in Seq(Tokens) /\ Len(t) = n + (1 + m)
      /\ \A i \in 1 .. n + (1 + m) : t[i] = IF i <= n THEN path[i] ELSE u[i - n]
  <2>1. /\ t \in Seq(Tokens) /\ Len(t) = Len(path) + Len(u)
        /\ \A i \in 1 .. Len(path) + Len(u) : t[i] = IF i <= Len(path) THEN path[i] ELSE u[i - Len(path)]
    BY <1>3, ConcatProperties
  <2> HIDE DEF t
  <2> QED BY <1>3, <2>1
<1> HIDE DEF n, m, t
<1>5. \A i \in 1 .. n : t[i] = path[i]
  BY <1>1, <1>4
<1>6. t[n + 1] = ":"
  BY <1>1, <1>3, <1>4
<1>7. ASSUME NEW i \in 1 .. m PROVE t[n + 1 + i] = tag[i]
  <2>1. n + 1 + i \in 1 .. n + (1 + m) /\ ~(n + 1 + i <= n) /\ (n + 1 + i) - n = 1 + i
    BY <1>1
  <2> QED BY <1>3, <1>4, <2>1
<1>8. \A i \in n + 2 .. n + 1 + m : t[i] \in {"w", "."}
  <2> SUFFICES ASSUME NEW i \in n + 2 .. n + 1 + m PROVE t[i] \in {"w", "."}
    OBVIOUS
  <2>1. i - (n + 1) \in 1 .. m /\ i = n + 1 + (i - (n + 1))
    BY <1>1
  <2> QED BY <1>7, <2>1 DEF m
<1>9. /\ Path(t) = SubSeq(t, 1, n)
      /\ Tag(t, n + 1) = SubSeq(t, n + 2, n + 1 + m)
  <2>1. \A i \in 1 .. n : t[i] \in {"w", "/"}
    BY <1>5 DEF n
  <2>2. Len(t) = n + 1 + m
    BY <1>1, <1>4
  <2> QED BY <1>1, <1>4, <1>6, <1>8, <2>1, <2>2, SplitAtColon
<1>10. SubSeq(t, 1, n) = path
  <2>1. 0 + n <= Len(t) /\ \A k \in 1 .. n : t[0 + k] = path[k]
    BY <1>1, <1>4, <1>5
  <2>2. SubSeq(t, 0 + 1, 0 + n) = path
    BY <1>1, <1>4, <2>1, PartIs DEF n
  <2> QED BY <1>1, <2>2
<1>11. SubSeq(t, n + 2, n + 1 + m) = tag
  <2> DEFINE i == n + 1
  <2>1. i \in Nat /\ i + m <= Len(t) /\ \A k \in 1 .. m : t[i + k] = tag[k]
    BY <1>1, <1>4, <1>7
  <2> HIDE DEF i
  <2>2. SubSeq(t, i + 1, i + m) = tag
    BY <1>4, <2>1, PartIs DEF m
  <2> QED BY <1>1, <2>2 DEF i
<1> QED BY <1>9, <1>10, <1>11 DEF n, t, u

LEMMA PartsAre ==
  ASSUME NEW n \in Names
  PROVE  /\ n.path \in Seq(Tokens) /\ \A i \in 1 .. Len(n.path) : n.path[i] \in {"w", "/", "."}
         /\ n.tag \in Seq(Tokens) /\ \A i \in 1 .. Len(n.tag) : n.tag[i] \in {"w", "W", "."}
<1>1. n.path \in Paths /\ n.tag \in Tags
  BY DEF Names
<1>2. /\ {"w"} \in SUBSET Tokens /\ {"w", "W"} \in SUBSET Tokens
      /\ {"/", "."} \in SUBSET Tokens /\ {"."} \in SUBSET Tokens
  BY DEF Tokens
<1>3. PICK k \in 0 .. Segments - 1 : n.path \in Words(k, {"w"}, {"/", "."})
  BY <1>1 DEF Paths
<1>4. /\ n.path \in Seq(Tokens)
      /\ \A i \in 1 .. Len(n.path) : n.path[i] \in {"w"} \union {"/", "."}
  <2>1. k \in Nat
    BY SizesAssumption
  <2> QED BY <1>2, <1>3, <2>1, WordsAre
<1>5. CASE n.tag = << >>
  BY <1>4, <1>5
<1>6. CASE n.tag # << >>
  <2>1. PICK m \in 0 .. Labels : n.tag \in Words(m, {"w", "W"}, {"."})
    BY <1>1, <1>6 DEF Tags
  <2>2. /\ n.tag \in Seq(Tokens)
        /\ \A i \in 1 .. Len(n.tag) : n.tag[i] \in {"w", "W"} \union {"."}
    <3>1. m \in Nat
      BY SizesAssumption
    <3> QED BY <1>2, <2>1, <3>1, WordsAre
  <2> QED BY <1>4, <2>2
<1> QED BY <1>5, <1>6

\* The text of a name without a host and a digest.
LEMMA TextIs ==
  ASSUME NEW n \in Names, n.host = << >>, ~n.digest
  PROVE  /\ Text(n) = n.path \o (IF n.tag = << >> THEN << >> ELSE <<":">> \o n.tag)
         /\ Text(n) \in Seq(Tokens)
<1> DEFINE rest == IF n.tag = << >> THEN << >> ELSE <<":">> \o n.tag
<1>1. n.path \in Seq(Tokens) /\ n.tag \in Seq(Tokens) /\ <<":">> \in Seq(Tokens)
  BY PartsAre DEF Tokens
<1>2. rest \in Seq(Tokens)
  BY <1>1, ConcatProperties
<1>3. Text(n) = ((<< >> \o n.path) \o rest) \o << >>
  BY DEF Text
<1> HIDE DEF rest
<1>4. << >> \o n.path = n.path
  BY <1>1, ConcatEmptySeq
<1>5. n.path \o rest \in Seq(Tokens)
  BY <1>1, <1>2, ConcatProperties
<1>6. (n.path \o rest) \o << >> = n.path \o rest
  BY <1>5, ConcatEmptySeq
<1> QED BY <1>3, <1>4, <1>5, <1>6 DEF rest

\* What the registry is asked for is the image the user named if, and only if,
\* its name is plain: of any other, however long its path and its tag, the
\* parser drops a part.
THEOREM PlainNamesAreAsked == \A n \in Names : Parse(Text(n)) = n <=> Plain(n)
<1> SUFFICES ASSUME NEW n \in Names PROVE Parse(Text(n)) = n <=> Plain(n)
  OBVIOUS
<1>1. n \in [host : Hosts, port : {<< >>, <<"w">>}, path : Paths, tag : Tags, digest : BOOLEAN]
  BY DEF Names
<1>2. ASSUME Plain(n) PROVE Parse(Text(n)) = n
  <2>1. n.host = << >> /\ n.port = << >> /\ ~n.digest
    BY <1>2 DEF Plain, Names
  <2>2. n = [host |-> << >>, port |-> << >>, path |-> n.path, tag |-> n.tag, digest |-> FALSE]
    BY <1>1, <2>1
  <2>3. /\ n.path \in Seq(Tokens) /\ \A i \in 1 .. Len(n.path) : n.path[i] \in {"w", "/"}
        /\ n.tag \in Seq(Tokens) /\ \A i \in 1 .. Len(n.tag) : n.tag[i] \in {"w", "."}
    BY <1>2, PartsAre DEF Plain
  <2>4. Path(Text(n)) = n.path /\ Tag(Text(n), Len(n.path) + 1) = n.tag
    <3>1. CASE n.tag = << >>
      <4>1. Text(n) = n.path
        BY <2>1, <2>3, <3>1, TextIs, ConcatEmptySeq
      <4> QED BY <2>3, <3>1, <4>1, PathAlone
    <3>2. CASE n.tag # << >>
      <4>1. Text(n) = n.path \o (<<":">> \o n.tag)
        BY <2>1, <3>2, TextIs
      <4> QED BY <2>3, <4>1, PathAndTag
    <3> QED BY <3>1, <3>2
  <2> QED BY <2>2, <2>4 DEF Parse
<1>3. ASSUME Parse(Text(n)) = n PROVE Plain(n)
  <2> DEFINE t == Text(n)
             i == Len(n.path) + 1
  <2>1. /\ n.host = << >> /\ n.digest = FALSE
        /\ n.path = Path(t) /\ n.tag = Tag(t, Len(Path(t)) + 1)
    <3>1. /\ Parse(t).host = << >> /\ Parse(t).digest = FALSE
          /\ Parse(t).path = Path(t) /\ Parse(t).tag = Tag(t, Len(Path(t)) + 1)
      BY DEF Parse
    <3> HIDE DEF t
    <3> QED BY <1>3, <3>1 DEF t
  <2>2. t \in Seq(Tokens) /\ Len(t) \in Nat /\ i \in Nat /\ i >= 1
    <3>1. t \in Seq(Tokens) /\ n.path \in Seq(Tokens)
      BY <2>1, TextIs, PartsAre
    <3> HIDE DEF t
    <3> QED BY <3>1
  <2>3. \A k \in 1 .. Len(n.path) : n.path[k] # "."
    <3>1. 1 \in 1 .. Len(t) + 1
      BY <2>2
    <3> HIDE DEF t
    <3> QED BY <2>1, <2>2, <3>1, RunWithin DEF Path
  <2>4. \A k \in 1 .. Len(n.tag) : n.tag[k] # "W"
    <3> HIDE DEF t, i
    <3>1. n.tag = Tag(t, i)
      BY <2>1 DEF i
    <3>2. CASE i <= Len(t) /\ t[i] = ":"
      <4>1. n.tag = RunFrom(t, i + 1, {"w", "/", "."}) /\ i + 1 \in 1 .. Len(t) + 1
        BY <2>2, <3>1, <3>2 DEF Tag
      <4> QED BY <2>2, <4>1, RunWithin
    <3>3. CASE ~(i <= Len(t) /\ t[i] = ":")
      BY <3>1, <3>3 DEF Tag
    <3> QED BY <3>2, <3>3
  <2> QED BY <2>1, <2>3, <2>4 DEF Plain
<1> QED BY <1>2, <1>3

\* However many creates run at a time and whatever fails, no create for an
\* image with a plain name gets to its disk unless its account can read that
\* image.
THEOREM PlainImagesRead == Spec => []PlainImagesAreReadable
<1>1. IInv => PlainImagesAreReadable
  <2> SUFFICES ASSUME IInv, NEW s \in Sessions, At(s, "make volume"), Plain(image)
               PROVE  image \in readable
    BY DEF PlainImagesAreReadable
  <2>1. image \in Images /\ image \in Names /\ Requested[image] \in readable
    BY ImagesAssumption DEF IInv, TypeOK, Knows, At
  <2>2. Requested[image] = image
    BY <2>1, PlainNamesAreAsked DEF Requested
  <2> QED BY <2>1, <2>2
<1> QED BY <1>1, AlwaysIInv, PTL
=============================================================================
