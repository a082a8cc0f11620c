------------------------ MODULE InstanceConfigsProofs ------------------------
(***************************************************************************)
(* Proofs about InstanceConfigs, for any number of names, ports and        *)
(* sessions, any faults and any directory of an older hermit.              *)
(***************************************************************************)
EXTENDS InstanceConfigs, TLAPS, WellFoundedInduction

----------------------------------------------------------------------------
(* Entries of the directory.                                               *)

\* What an entry can be, by its fields.
Shaped ==
  [kind : {"none", "empty"}, name : {NoName}, port : {0}, legacy : {FALSE}]
    \union [kind : {"link"}, name : All, port : {0}, legacy : {FALSE}]
    \union [kind : {"file"}, name : All, port : Ports, legacy : BOOLEAN]

LEMMA EntryShape ==
  /\ NoEntry \in Shaped /\ NoEntry \in Entries /\ NoEntry.kind = "none"
  /\ Empty \in Shaped /\ Empty \in Entries /\ Empty.kind = "empty"
  /\ \A n \in All : Link(n) \in Entries /\ Link(n).kind = "link" /\ Link(n).name = n
  /\ \A n \in All, p \in Ports :
       /\ File(n, p) \in Entries /\ File(n, p).kind = "file"
       /\ File(n, p).name = n /\ File(n, p).port = p
       /\ LegacyFile(n, p) \in Entries /\ LegacyFile(n, p).kind = "file"
       /\ LegacyFile(n, p).name = n /\ LegacyFile(n, p).port = p
  /\ Entries \subseteq Shaped
<1>1. NoEntry \in Shaped /\ NoEntry \in Entries /\ NoEntry.kind = "none"
  BY DEF NoEntry, Shaped, Entries
<1>8. Empty \in Shaped /\ Empty \in Entries /\ Empty.kind = "empty"
  BY DEF Empty, Shaped, Entries
<1>2. \A n \in All : Link(n) \in Entries /\ Link(n).kind = "link" /\ Link(n).name = n
  <2>1. \A n \in All : Link(n).kind = "link" /\ Link(n).name = n
    BY DEF Link
  <2>2. \A n \in All : Link(n) \in {Link(m) : m \in All}
    OBVIOUS
  <2> QED BY <2>1, <2>2 DEF Entries
<1>3. \A n \in All, p \in Ports : File(n, p) \in Entries /\ LegacyFile(n, p) \in Entries
  <2> SUFFICES ASSUME NEW n \in All, NEW p \in Ports
               PROVE  File(n, p) \in Entries /\ LegacyFile(n, p) \in Entries
    OBVIOUS
  <2>1. File(n, p) \in {File(m, q) : m \in All, q \in Ports}
    OBVIOUS
  <2>2. LegacyFile(n, p) \in {LegacyFile(m, q) : m \in All, q \in Ports}
    OBVIOUS
  <2> QED BY <2>1, <2>2 DEF Entries
<1>4. \A n \in All, p \in Ports :
       /\ File(n, p).kind = "file" /\ File(n, p).name = n /\ File(n, p).port = p
       /\ LegacyFile(n, p).kind = "file" /\ LegacyFile(n, p).name = n /\ LegacyFile(n, p).port = p
  BY DEF File, LegacyFile
<1>5. \A n \in All : Link(n) \in Shaped
  BY DEF Link, Shaped
<1>6. \A n \in All, p \in Ports : File(n, p) \in Shaped /\ LegacyFile(n, p) \in Shaped
  BY DEF File, LegacyFile, Shaped
<1>7. Entries \subseteq Shaped
  BY <1>1, <1>5, <1>6, <1>8 DEF Entries
<1> QED BY <1>1, <1>2, <1>3, <1>4, <1>7, <1>8

LEMMA EntryParts ==
  ASSUME NEW e \in Entries
  PROVE  /\ e.kind \in {"none", "empty", "link", "file"}
         /\ e.kind = "none" <=> e = NoEntry
         /\ e.kind = "empty" <=> e = Empty
         /\ e.kind \in {"link", "file"} => e.name \in All
         /\ e.kind = "file" => e.port \in Ports
<1>1. e \in Shaped
  BY EntryShape
<1>2. CASE e \in [kind : {"none", "empty"}, name : {NoName}, port : {0}, legacy : {FALSE}]
  <2>1. \/ e = [kind |-> "none", name |-> NoName, port |-> 0, legacy |-> FALSE]
        \/ e = [kind |-> "empty", name |-> NoName, port |-> 0, legacy |-> FALSE]
    BY <1>2
  <2> QED BY <2>1 DEF NoEntry, Empty
<1>3. CASE e \in [kind : {"link"}, name : All, port : {0}, legacy : {FALSE}]
  BY <1>3, EntryShape
<1>4. CASE e \in [kind : {"file"}, name : All, port : Ports, legacy : BOOLEAN]
  BY <1>4, EntryShape
<1> QED BY <1>1, <1>2, <1>3, <1>4 DEF Shaped

----------------------------------------------------------------------------
(* Type correctness.                                                       *)

Nm(s) == session[s].name
Runs == [pc : Steps, name : All \union {NoName}, port : Ports \union {0},
         hosts : SUBSET (All \X Ports)]
Sessions0 == [Sessions -> {Idle} \union Runs]

\* create knows a port from the beginning.
Ported(s) ==
  session[s].pc \in {"check name", "open config", "write config"} => session[s].port \in Ports

TInv == TypeOK /\ \A s \in Sessions : Ported(s)

\* A session without a name only updates the section of ssh.
Named(s) == Nm(s) = NoName => session[s].pc \in {"idle", "list configs", "write ssh"}

LEMMA Parts ==
  TypeOK <=> /\ entry \in [All -> Entries]
             /\ \A n \in Names : entry[n].kind # "link"
             /\ ssh \subseteq All \X Ports
             /\ session \in Sessions0
             /\ \A s \in Sessions : Named(s)
             /\ orderly \in BOOLEAN /\ faults \in 0 .. MaxFaults
BY DEF TypeOK, Sessions0, Runs, Named, Nm

LEMMA PartsNext ==
  TypeOK' <=> /\ entry' \in [All -> Entries]
              /\ \A n \in Names : entry'[n].kind # "link"
              /\ ssh' \subseteq All \X Ports
              /\ session' \in Sessions0
              /\ \A s \in Sessions : Named(s)'
              /\ orderly' \in BOOLEAN /\ faults' \in 0 .. MaxFaults
BY DEF TypeOK, Sessions0, Runs, Named, Nm

LEMMA RunTypes ==
  ASSUME TypeOK, NEW s \in Sessions
  PROVE  /\ session \in Sessions0
         /\ At(s, "idle") => session[s] = Idle
         /\ ~At(s, "idle") => session[s] \in Runs /\ Nm(s) \in All \union {NoName}
         /\ session[s].pc \notin {"idle", "list configs", "write ssh"} => Nm(s) \in All
         /\ "idle" \notin Steps
<1>1. session \in Sessions0 /\ Named(s)
  BY Parts
<1>2. session[s] \in Runs => session[s].pc \in Steps /\ Nm(s) \in All \union {NoName}
  BY DEF Runs, Nm
<1>3. Idle.pc = "idle" /\ "idle" \notin Steps
  BY DEF Idle, Steps
<1> QED BY <1>1, <1>2, <1>3 DEF Sessions0, At, Named

\* What is read is a config with a name and a port.
LEMMA Reads ==
  ASSUME TypeOK, NEW n \in All, Readable(n)
  PROVE  Config(n) \in Entries /\ Config(n).name \in All /\ Config(n).port \in Ports
<1>1. entry \in [All -> Entries]
  BY Parts
<1>2. entry[n].kind = "link" => entry[n].name \in All
  BY <1>1, EntryParts
<1>3. Config(n) \in Entries /\ Config(n).kind = "file"
  BY <1>1, <1>2 DEF Config, Readable
<1> QED BY <1>3, EntryParts

LEMMA HostsType ==
  ASSUME TypeOK, AllUsable
  PROVE  Hosts \subseteq All \X Ports
<1>1. \A n \in Present : n \in All /\ Readable(n)
  BY DEF AllUsable, Listable, Present
<1>2. InstanceNames \subseteq All
  BY <1>1, Reads DEF InstanceNames
<1>3. \A n \in InstanceNames : Readable(n)
  BY DEF AllUsable, Usable
<1>4. \A n \in InstanceNames : <<Config(n).name, Config(n).port>> \in All \X Ports
  BY <1>2, <1>3, Reads
<1> QED BY <1>4 DEF Hosts

\* A session that goes on keeps what it knows.
LEMMA Goes ==
  ASSUME TypeOK, NEW s \in Sessions, ~At(s, "idle"), NEW pc \in Steps \union {"idle"},
         Nm(s) = NoName => pc \in {"idle", "list configs", "write ssh"},
         Goto(s, pc)
  PROVE  /\ session' \in Sessions0 /\ Named(s)'
         /\ session'[s].pc = pc
         /\ pc = "idle" => session'[s] = Idle
         /\ pc # "idle" => session'[s].name = Nm(s) /\ session'[s].port = session[s].port
         /\ \A t \in Sessions : t # s => session'[t] = session[t]
<1>1. session \in Sessions0 /\ session[s] \in Runs /\ "idle" \notin Steps
  BY RunTypes
<1>2. Idle.pc = "idle"
  BY DEF Idle
<1>3. CASE pc = "idle"
  <2>1. session' = [session EXCEPT ![s] = Idle]
    BY <1>3 DEF Goto
  <2> QED BY <1>1, <1>2, <1>3, <2>1 DEF Sessions0, Named
<1>4. CASE pc # "idle"
  <2> DEFINE x == [session[s] EXCEPT !.pc = pc]
  <2>1. session' = [session EXCEPT ![s] = x]
    BY <1>4 DEF Goto
  <2>2. x \in Runs /\ x.pc = pc /\ x.name = Nm(s) /\ x.port = session[s].port
    BY <1>1, <1>4 DEF Runs, Nm
  <2> HIDE DEF x
  <2>3. session'[s] = x /\ session' \in Sessions0 /\ \A t \in Sessions : t # s => session'[t] = session[t]
    BY <1>1, <2>1, <2>2 DEF Sessions0
  <2> QED BY <1>4, <2>2, <2>3 DEF Named, Nm
<1> QED BY <1>3, <1>4

LEMMA Begins ==
  ASSUME TypeOK, NEW s \in Sessions, NEW pc \in Steps, NEW n \in All \union {NoName},
         NEW p \in Ports \union {0}, n = NoName => pc = "list configs",
         Begin(s, pc, n, p)
  PROVE  /\ session' \in Sessions0 /\ Named(s)'
         /\ session'[s].pc = pc /\ session'[s].name = n
         /\ \A t \in Sessions : t # s => session'[t] = session[t]
         /\ UNCHANGED <<entry, ssh, faults>>
<1> DEFINE x == [pc |-> pc, name |-> n, port |-> p, hosts |-> {}]
<1>1. x \in Runs /\ x.pc = pc /\ x.name = n
  BY DEF Runs
<1>2. session' = [session EXCEPT ![s] = x] /\ UNCHANGED <<entry, ssh, faults>>
  BY DEF Begin
<1>3. session \in Sessions0
  BY RunTypes
<1> HIDE DEF x
<1> QED BY <1>1, <1>2, <1>3 DEF Sessions0, Named, Nm

LEMMA TypeInit == Init => TypeOK
<1> SUFFICES ASSUME Init PROVE TypeOK
  OBVIOUS
<1>1. [n \in All |-> NoEntry] \in [All -> Entries] /\ NoEntry.kind # "link"
  BY EntryShape
<1>2. FirstPort \in Ports
  BY PortsAssumption DEF Ports
<1>3. ASSUME NEW d \in LegacyDirs
      PROVE  d \in [All -> Entries] /\ \A n \in Names : d[n].kind # "link"
  <2>1. PICK m \in Names, e \in {NoEntry} \union {Link(k) : k \in Names} :
          d = [[n \in All |-> NoEntry] EXCEPT ![m] = LegacyFile(m, FirstPort), ![Default] = e]
    BY <1>3 DEF LegacyDirs
  <2>2. m \in All /\ Default \in All /\ m # Default /\ Names \subseteq All
    BY NamesAssumption DEF All
  <2>3. e \in Entries
    BY <2>2, EntryShape
  <2>4. LegacyFile(m, FirstPort) \in Entries /\ LegacyFile(m, FirstPort).kind = "file"
    BY <1>2, <2>2, EntryShape
  <2>5. \A n \in Names : d[n] \in {NoEntry, LegacyFile(m, FirstPort)}
    BY <2>1, <2>2, NamesAssumption
  <2>6. d \in [All -> Entries]
    BY <1>1, <2>1, <2>3, <2>4
  <2> QED BY <1>1, <2>4, <2>5, <2>6
<1>4. entry = [n \in All |-> NoEntry] \/ entry \in LegacyDirs
  BY DEF Init
<1>5. entry \in [All -> Entries] /\ \A n \in Names : entry[n].kind # "link"
  BY <1>1, <1>3, <1>4 DEF All
<1>6. session \in Sessions0 /\ \A s \in Sessions : Named(s)
  BY DEF Init, Sessions0, Named, Idle
<1>7. ssh \subseteq All \X Ports /\ faults \in 0 .. MaxFaults /\ orderly \in BOOLEAN
  BY SwitchesAssumption DEF Init
<1> QED BY <1>5, <1>6, <1>7, Parts

\* What a step does to the directory.
EntryMove(s) ==
  \/ entry' = entry
  \/ At(s, "open config") /\ \E n \in All : entry' = [entry EXCEPT ![n] = Empty]
  \/ /\ At(s, "write config")
     /\ \E n \in All : entry' = [entry EXCEPT ![n] = File(Nm(s), session[s].port)]
  \/ entry' = [entry EXCEPT ![Default] = NoEntry]
  \/ At(s, "set default") /\ entry' = [entry EXCEPT ![Default] = Link(Nm(s))]
  \/ At(s, "drop config") /\ entry' = [entry EXCEPT ![Nm(s)] = NoEntry]

LEMMA EntryStep ==
  ASSUME TypeOK, NEW s \in Sessions, Start(s) \/ Proceed(s) \/ Interrupt(s)
  PROVE  EntryMove(s)
<1>1. CASE Start(s)
  BY <1>1 DEF Start, BeginCreate, BeginUp, BeginDelete, BeginUpdateSsh, Begin, EntryMove
<1>2. CASE OpenConfig(s) \/ WriteConfig(s)
  <2>1. Nm(s) \in All
    BY <1>2, RunTypes DEF OpenConfig, WriteConfig, Write, At
  <2>2. Target(Nm(s)) \in All
    BY <2>1, Parts, EntryParts DEF Target
  <2>3. entry[Target(Nm(s))] = entry[Target(Nm(s))] /\ entry \in [All -> Entries]
    BY Parts
  <2>4. CASE UNCHANGED entry
    BY <2>4 DEF EntryMove
  <2>5. CASE OpenConfig(s) /\ ~UNCHANGED entry
    BY <2>2, <2>5 DEF OpenConfig, Look, EntryMove, Nm
  <2>6. CASE WriteConfig(s) /\ ~UNCHANGED entry
    <3>1. /\ At(s, "write config")
          /\ entry' = [entry EXCEPT ![Target(Nm(s))] =
               IF @.kind \in {"empty", "file"} THEN File(Nm(s), session[s].port) ELSE @]
      BY <2>6 DEF WriteConfig, Write, Nm
    <3>2. CASE entry[Target(Nm(s))].kind \in {"empty", "file"}
      BY <2>2, <3>1, <3>2 DEF EntryMove
    <3>3. CASE entry[Target(Nm(s))].kind \notin {"empty", "file"}
      BY <2>2, <2>3, <2>6, <3>1, <3>3
    <3> QED BY <3>2, <3>3
  <2> QED BY <1>2, <2>4, <2>5, <2>6
<1>3. CASE \/ CheckName(s) \/ ContactCloud(s) \/ ListConfigs(s) \/ WriteSsh(s) \/ ClearDefault(s)
           \/ SetDefault(s) \/ DropDefault(s) \/ DropConfig(s) \/ Interrupt(s)
  BY <1>3 DEF CheckName, ContactCloud, ListConfigs, WriteSsh, ClearDefault, SetDefault,
              DropDefault, DropConfig, Interrupt, Look, EntryMove, Nm
<1> QED BY <1>1, <1>2, <1>3 DEF Proceed

LEMMA SetEntry ==
  ASSUME TypeOK, NEW n \in All, NEW e \in Entries, n \in Names => e.kind # "link",
         entry' = [entry EXCEPT ![n] = e]
  PROVE  /\ entry' \in [All -> Entries] /\ \A m \in Names : entry'[m].kind # "link"
         /\ entry'[n] = e /\ \A m \in All : m # n => entry'[m] = entry[m]
<1>1. /\ entry \in [All -> Entries] /\ \A m \in Names : entry[m].kind # "link"
      /\ Names \subseteq All
  BY Parts DEF All
<1> QED BY <1>1

LEMMA EntryType ==
  ASSUME TypeOK, NEW s \in Sessions, Ported(s), EntryMove(s)
  PROVE  entry' \in [All -> Entries] /\ \A n \in Names : entry'[n].kind # "link"
<1>1. /\ entry \in [All -> Entries] /\ \A n \in Names : entry[n].kind # "link"
      /\ Names \subseteq All /\ Default \in All /\ Default \notin Names
  BY Parts, NamesAssumption DEF All
<1>2. ASSUME At(s, "write config"), NEW n \in All,
             entry' = [entry EXCEPT ![n] = File(Nm(s), session[s].port)]
      PROVE  entry' \in [All -> Entries] /\ \A m \in Names : entry'[m].kind # "link"
  <2>1. Nm(s) \in All
    BY <1>2, RunTypes DEF At
  <2>2. session[s].port \in Ports
    BY <1>2 DEF Ported, At
  <2>3. File(Nm(s), session[s].port) \in Entries /\ File(Nm(s), session[s].port).kind = "file"
    BY <2>1, <2>2, EntryShape
  <2> QED BY <1>2, <2>3, SetEntry
<1>10. ASSUME NEW n \in All, entry' = [entry EXCEPT ![n] = Empty]
      PROVE  entry' \in [All -> Entries] /\ \A m \in Names : entry'[m].kind # "link"
  BY <1>10, EntryShape, SetEntry
<1>3. CASE At(s, "set default") /\ entry' = [entry EXCEPT ![Default] = Link(Nm(s))]
  <2>1. Nm(s) \in All
    BY <1>3, RunTypes DEF At
  <2>2. Link(Nm(s)) \in Entries
    BY <2>1, EntryShape
  <2> QED BY <1>1, <1>3, <2>2, SetEntry
<1>4. ASSUME NEW n \in All, entry' = [entry EXCEPT ![n] = NoEntry]
      PROVE  entry' \in [All -> Entries] /\ \A m \in Names : entry'[m].kind # "link"
  BY <1>4, EntryShape, SetEntry
<1>5. At(s, "drop config") => Nm(s) \in All
  BY RunTypes DEF At
<1>6. CASE entry' = entry
  BY <1>1, <1>6
<1>7. CASE At(s, "write config")
           /\ \E n \in All : entry' = [entry EXCEPT ![n] = File(Nm(s), session[s].port)]
  BY <1>2, <1>7
<1>8. CASE entry' = [entry EXCEPT ![Default] = NoEntry]
  BY <1>1, <1>4, <1>8
<1>9. CASE At(s, "drop config") /\ entry' = [entry EXCEPT ![Nm(s)] = NoEntry]
  BY <1>4, <1>5, <1>9
<1>11. CASE \E n \in All : entry' = [entry EXCEPT ![n] = Empty]
  BY <1>10, <1>11
<1> QED BY <1>3, <1>6, <1>7, <1>8, <1>9, <1>11 DEF EntryMove

\* What a step does to the session that takes it: to write a config it has to
\* open it first.
SessionMove(s) ==
  /\ Named(s)' /\ Ported(s)' /\ session' \in Sessions0
  /\ At(s, "write config")' => At(s, "open config") /\ Nm(s)' = Nm(s)
  /\ \A t \in Sessions : t # s => session'[t] = session[t]

LEMMA StartStep ==
  ASSUME TypeOK, NEW s \in Sessions, Start(s)
  PROVE  SessionMove(s) /\ UNCHANGED <<entry, ssh, faults>> /\ orderly' \in BOOLEAN
<1>1. NoName \notin All /\ Names \subseteq All /\ CreateNames \subseteq All /\ 0 \in Ports \union {0}
      /\ ChosenPorts \subseteq Ports
  BY NamesAssumption, CreateNamesAssumption, PortsAssumption DEF All, Ports
<1>2. {"check name", "contact cloud", "list configs", "drop default"} \subseteq Steps
  BY DEF Steps
<1>3. ASSUME InTurn PROVE orderly' \in BOOLEAN
  BY <1>3, Parts DEF InTurn
<1>4. ASSUME NEW n \in CreateNames, BeginCreate(s, n)
      PROVE  SessionMove(s) /\ UNCHANGED <<entry, ssh, faults>> /\ orderly' \in BOOLEAN
  <2>1. PICK p \in Ports : Begin(s, "check name", n, p) /\ orderly' \in BOOLEAN
    BY <1>1, <1>3, <1>4 DEF BeginCreate
  <2>2. session'[s].port = p
    <3>1. session' = [session EXCEPT ![s] = [pc |-> "check name", name |-> n, port |-> p, hosts |-> {}]]
      BY <2>1 DEF Begin
    <3> QED BY <3>1, RunTypes DEF Sessions0
  <2>3. "check name" \in Steps /\ n \in All \union {NoName} /\ n # NoName
        /\ p \in Ports \union {0}
    BY <1>1, <1>2
  <2>4. /\ session' \in Sessions0 /\ Named(s)' /\ session'[s].pc = "check name"
        /\ \A t \in Sessions : t # s => session'[t] = session[t]
        /\ UNCHANGED <<entry, ssh, faults>>
    BY <2>1, <2>3, Begins
  <2>5. Ported(s)'
    BY <2>2 DEF Ported
  <2> QED BY <2>1, <2>4, <2>5 DEF SessionMove, At
<1>5. ASSUME NEW n \in All, BeginUp(s, n)
      PROVE  SessionMove(s) /\ UNCHANGED <<entry, ssh, faults>> /\ orderly' \in BOOLEAN
  <2>1. PICK m \in All, p \in Ports : m = Config(n).name /\ p = Config(n).port
    BY <1>5, Reads DEF BeginUp, Usable
  <2>2. Begin(s, "contact cloud", m, p) /\ InTurn
    BY <1>5, <2>1 DEF BeginUp
  <2>3. "contact cloud" \in Steps /\ m \in All \union {NoName} /\ m # NoName
        /\ p \in Ports \union {0}
    BY <1>1, <1>2, <2>1
  <2>4. /\ session' \in Sessions0 /\ Named(s)' /\ session'[s].pc = "contact cloud"
        /\ \A t \in Sessions : t # s => session'[t] = session[t]
        /\ UNCHANGED <<entry, ssh, faults>>
    BY <2>2, <2>3, Begins
  <2>5. Ported(s)'
    BY <2>4 DEF Ported
  <2> QED BY <1>3, <2>2, <2>4, <2>5 DEF SessionMove, At
<1>6. ASSUME NEW n \in All, BeginDelete(s, n)
      PROVE  SessionMove(s) /\ UNCHANGED <<entry, ssh, faults>> /\ orderly' \in BOOLEAN
  <2>1. PICK m \in All : m = Config(n).name
    BY <1>6, Reads DEF BeginDelete
  <2>2. Begin(s, "drop default", m, 0) /\ InTurn
    BY <1>6, <2>1 DEF BeginDelete
  <2>3. "drop default" \in Steps /\ m \in All \union {NoName} /\ m # NoName
        /\ 0 \in Ports \union {0}
    BY <1>1, <1>2, <2>1
  <2>4. /\ session' \in Sessions0 /\ Named(s)' /\ session'[s].pc = "drop default"
        /\ \A t \in Sessions : t # s => session'[t] = session[t]
        /\ UNCHANGED <<entry, ssh, faults>>
    BY <2>2, <2>3, Begins
  <2>5. Ported(s)'
    BY <2>4 DEF Ported
  <2> QED BY <1>3, <2>2, <2>4, <2>5 DEF SessionMove, At
<1>7. CASE BeginUpdateSsh(s)
  <2>1. Begin(s, "list configs", NoName, 0) /\ InTurn
    BY <1>7 DEF BeginUpdateSsh
  <2> QED BY <1>1, <1>2, <1>3, <2>1, Begins DEF SessionMove, Ported, At
<1> QED BY <1>4, <1>5, <1>6, <1>7 DEF Start

\* The step a session goes on with, which keeps its name and its port.
LEMMA GotoMove ==
  ASSUME TInv, NEW s \in Sessions, ~At(s, "idle"),
         NEW pc \in Steps \union {"idle"},
         pc = "check name" => FALSE,
         pc = "open config" => At(s, "check name"),
         pc = "write config" => At(s, "open config"),
         At(s, "list configs") \/ At(s, "write ssh") => pc = "idle",
         Goto(s, pc)
  PROVE  SessionMove(s)
<1>1. TypeOK /\ Named(s) /\ Ported(s)
  BY Parts DEF TInv
<1>2. Nm(s) = NoName => pc \in {"idle", "list configs", "write ssh"}
  BY <1>1 DEF Named, At
<1>3. session' \in Sessions0 /\ Named(s)' /\ session'[s].pc = pc
      /\ (pc # "idle" => session'[s].name = Nm(s) /\ session'[s].port = session[s].port)
      /\ \A t \in Sessions : t # s => session'[t] = session[t]
  BY <1>1, <1>2, Goes
<1> QED BY <1>1, <1>3 DEF SessionMove, Ported, At, Nm

LEMMA ProceedStep ==
  ASSUME TInv, NEW s \in Sessions, Proceed(s)
  PROVE  SessionMove(s) /\ ssh' \subseteq All \X Ports /\ UNCHANGED <<orderly, faults>>
<1>1. TypeOK /\ ssh \subseteq All \X Ports /\ session \in Sessions0 /\ "idle" \notin Steps
  BY Parts, RunTypes DEF TInv
<1>2. CASE \/ CheckName(s) \/ OpenConfig(s) \/ WriteConfig(s) \/ ContactCloud(s)
           \/ ClearDefault(s) \/ SetDefault(s) \/ DropDefault(s) \/ DropConfig(s)
  <2>1. UNCHANGED <<ssh, orderly, faults>>
    BY <1>2 DEF CheckName, OpenConfig, WriteConfig, Write, ContactCloud, ClearDefault,
                SetDefault, DropDefault, DropConfig, Look, history
  <2>2. \E pc \in (Steps \ {"check name"}) \union {"idle"} :
          /\ Goto(s, pc)
          /\ pc = "open config" => At(s, "check name")
          /\ pc = "write config" => At(s, "open config")
    <3> DEFINE G(pc) == /\ Goto(s, pc)
                        /\ pc = "open config" => At(s, "check name")
                        /\ pc = "write config" => At(s, "open config")
    <3>1. \/ G("idle") \/ G("open config") \/ G("write config") \/ G("list configs")
          \/ G("set default") \/ G("drop config")
      BY <1>2 DEF CheckName, OpenConfig, WriteConfig, Write, ContactCloud, ClearDefault,
                  SetDefault, DropDefault, DropConfig, Look
    <3>2. {"open config", "write config", "list configs", "set default", "drop config"}
            \subseteq Steps \ {"check name"}
      BY DEF Steps
    <3> HIDE DEF G
    <3>3. \E pc \in (Steps \ {"check name"}) \union {"idle"} : G(pc)
      BY <3>1, <3>2
    <3> QED BY <3>3 DEF G
  <2>3. ~At(s, "idle") /\ ~At(s, "list configs") /\ ~At(s, "write ssh")
    BY <1>2 DEF CheckName, OpenConfig, WriteConfig, Write, ContactCloud, ClearDefault,
                SetDefault, DropDefault, DropConfig, At
  <2> QED BY <1>1, <2>1, <2>2, <2>3, GotoMove
<1>3. CASE ListConfigs(s)
  <2>1. At(s, "list configs") /\ UNCHANGED <<ssh, orderly, faults>>
    BY <1>3 DEF ListConfigs, history
  <2>2. CASE ~AllUsable
    <3>1. Goto(s, "idle") /\ ~At(s, "idle")
      BY <1>3, <2>1, <2>2 DEF ListConfigs, At
    <3> QED BY <1>1, <2>1, <3>1, GotoMove
  <2>3. CASE AllUsable
    <3> DEFINE x == [session[s] EXCEPT !.pc = "write ssh", !.hosts = Hosts]
    <3>1. session' = [session EXCEPT ![s] = x]
      BY <1>3, <2>3, <1>1 DEF ListConfigs, Sessions0
    <3>2. session[s] \in Runs
      BY <1>1, <2>1, RunTypes DEF At
    <3>3. x \in Runs /\ x.pc = "write ssh"
      BY <1>1, <2>3, <3>2, HostsType DEF Runs, Steps
    <3> HIDE DEF x
    <3>4. session'[s] = x /\ session' \in Sessions0
          /\ \A t \in Sessions : t # s => session'[t] = session[t]
      BY <1>1, <3>1, <3>3 DEF Sessions0
    <3> QED BY <1>1, <2>1, <3>3, <3>4 DEF SessionMove, Named, Ported, At
  <2> QED BY <2>2, <2>3
<1>4. CASE WriteSsh(s)
  <2> DEFINE x == IF session[s].name = NoName THEN Idle
                  ELSE [session[s] EXCEPT !.pc = "clear default", !.hosts = {}]
  <2>1. At(s, "write ssh") /\ UNCHANGED <<orderly, faults>> /\ ssh' = session[s].hosts
        /\ session' = [session EXCEPT ![s] = x]
    BY <1>1, <1>4 DEF WriteSsh, history, Sessions0
  <2>2. session[s] \in Runs
    BY <1>1, <2>1, RunTypes DEF At
  <2>3. x \in {Idle} \union Runs /\ (x = Idle \/ (x.pc = "clear default" /\ x.name # NoName))
    BY <2>2 DEF Runs, Steps
  <2>4. ssh' \subseteq All \X Ports
    BY <2>1, <2>2 DEF Runs
  <2> HIDE DEF x
  <2>5. session'[s] = x /\ session' \in Sessions0
        /\ \A t \in Sessions : t # s => session'[t] = session[t]
    BY <1>1, <2>1, <2>3 DEF Sessions0
  <2>6. Idle.pc = "idle"
    BY DEF Idle
  <2> QED BY <2>1, <2>3, <2>4, <2>5, <2>6 DEF SessionMove, Named, Nm, Ported, At
<1> QED BY <1>2, <1>3, <1>4 DEF Proceed

LEMMA InterruptStep ==
  ASSUME TInv, NEW s \in Sessions, Interrupt(s)
  PROVE  SessionMove(s) /\ UNCHANGED <<entry, ssh>> /\ orderly' \in BOOLEAN
         /\ faults' \in 0 .. MaxFaults
<1>1. faults \in 0 .. MaxFaults /\ MaxFaults \in Nat
  BY SwitchesAssumption, Parts DEF TInv
<1>2. ~At(s, "idle") /\ Goto(s, "idle")
  BY DEF Interrupt
<1>3. SessionMove(s)
  BY <1>2, GotoMove
<1>4. faults < MaxFaults /\ faults' = faults + 1 /\ UNCHANGED <<entry, ssh>> /\ orderly' = FALSE
  BY DEF Interrupt
<1>5. faults' \in 0 .. MaxFaults
  BY <1>1, <1>4
<1> QED BY <1>3, <1>4, <1>5

LEMMA TypeStep == TInv /\ [Next]_vars => TInv'
<1> SUFFICES ASSUME TInv, [Next]_vars PROVE TInv'
  OBVIOUS
<1>1. ASSUME NEW s \in Sessions, Start(s) \/ Proceed(s) \/ Interrupt(s)
      PROVE  TInv'
  <2>1. TypeOK /\ Ported(s) /\ \A t \in Sessions : Named(t) /\ Ported(t)
    BY Parts DEF TInv
  <2>2. SessionMove(s) /\ ssh' \subseteq All \X Ports /\ orderly' \in BOOLEAN
        /\ faults' \in 0 .. MaxFaults
    BY <1>1, <2>1, StartStep, ProceedStep, InterruptStep, Parts
  <2>3. entry' \in [All -> Entries] /\ \A n \in Names : entry'[n].kind # "link"
    BY <1>1, <2>1, EntryStep, EntryType
  <2>4. \A t \in Sessions : Named(t)' /\ Ported(t)'
    BY <2>1, <2>2 DEF SessionMove, Named, Nm, Ported
  <2> QED BY <2>2, <2>3, <2>4, PartsNext DEF TInv, SessionMove
<1>2. CASE UNCHANGED vars
  BY <1>2 DEF vars, TInv, TypeOK, Ported, At, history
<1> QED BY <1>1, <1>2 DEF Next

LEMMA TInvAlways == Spec => []TInv
<1>1. Init => TInv
  <2> SUFFICES ASSUME Init PROVE TInv
    OBVIOUS
  <2>1. \A s \in Sessions : session[s] = Idle
    BY DEF Init
  <2>2. Idle.pc = "idle"
    BY DEF Idle
  <2> QED BY <2>1, <2>2, TypeInit DEF TInv, Ported
<1> QED BY <1>1, TypeStep, PTL DEF Spec

\* The directory holds links and files only where the code expects them and
\* every session that is about an instance knows its name.
THEOREM TypeCorrect == Spec => []TypeOK
<1>1. TInv => TypeOK
  BY DEF TInv
<1> QED BY <1>1, TInvAlways, PTL

----------------------------------------------------------------------------
(* The default, when no two sessions are about one name and none creates an *)
(* instance called "default".                                               *)

Separate == ~Overlap /\ CreateNames \subseteq Names

\* The files of the directory are about the instances they are named for, and
\* default.json leads to one of them.
DirInv ==
  /\ \A n \in Configs : entry[n].name = n
  /\ entry[Default] # NoEntry =>
       entry[Default].kind = "link" /\ entry[Default].name \in Configs

\* The steps that rest on a config.
Based == {"contact cloud", "list configs", "write ssh", "clear default", "set default",
          "drop default", "drop config"}

\* What a session knows of the directory is still so, whatever others did
\* since it looked.
SessionInv(s) ==
  /\ Nm(s) \in Names \union {NoName}
  /\ At(s, "open config") => entry[Nm(s)] = NoEntry
  /\ At(s, "write config") => entry[Nm(s)] = Empty
  /\ session[s].pc \in Based /\ Nm(s) # NoName => Nm(s) \in Configs
  /\ At(s, "drop config") /\ entry[Default] # NoEntry => entry[Default].name # Nm(s)

Apart == \A s, t \in Sessions : s # t /\ Nm(s) # NoName => Nm(s) # Nm(t)

DInv == TInv /\ DirInv /\ Apart /\ \A s \in Sessions : SessionInv(s)

\* The steps there are on the directory.
CleanMove(s) ==
  \/ entry' = entry
  \/ /\ At(s, "open config") /\ Nm(s) \in Names /\ entry[Nm(s)] = NoEntry
     /\ entry' = [entry EXCEPT ![Nm(s)] = Empty]
  \/ /\ At(s, "write config") /\ Nm(s) \in Names /\ entry[Nm(s)] = Empty
     /\ \E p \in Ports : entry' = [entry EXCEPT ![Nm(s)] = File(Nm(s), p)]
  \/ entry' = [entry EXCEPT ![Default] = NoEntry]
  \/ /\ At(s, "set default") /\ Nm(s) \in Configs
     /\ entry' = [entry EXCEPT ![Default] = Link(Nm(s))]
  \/ /\ At(s, "drop config") /\ Nm(s) \in Configs
     /\ entry' = [entry EXCEPT ![Nm(s)] = NoEntry]

LEMMA Basics ==
  /\ NoName \notin All /\ Default \notin Names /\ Names \subseteq All /\ Default \in All
BY NamesAssumption DEF All

\* What a link leads to, and what there is under an instance's name.
LEMMA Opens ==
  ASSUME TInv, DirInv
  PROVE  /\ \A n \in Names : Exists(n) <=> entry[n] # NoEntry
         /\ \A n \in Names : Readable(n) <=> n \in Configs
         /\ Exists(Default) <=> entry[Default] # NoEntry
         /\ Readable(Default) <=> entry[Default] # NoEntry
         /\ entry[Default] # NoEntry => Config(Default).name = entry[Default].name
         /\ \A n \in All : Readable(n) => Config(n).name \in Configs
<1>1. /\ entry \in [All -> Entries] /\ \A n \in Names : entry[n].kind # "link"
  BY Parts DEF TInv
<1>2. \A n \in All : entry[n] \in Entries
  BY <1>1
<1>3. \A n \in Names : entry[n] # NoEntry <=> entry[n].kind \in {"file", "empty"}
  BY <1>1, <1>2, Basics, EntryParts, EntryShape
<1>4. \A n \in Names : Config(n) = entry[n]
  BY <1>1 DEF Config
<1>5. NoEntry.kind = "none"
  BY EntryShape
<1>6. \A n \in Names : Readable(n) <=> n \in Configs
  BY <1>4 DEF Readable, Configs
<1>7. \A n \in Names : Readable(n) => Config(n).name \in Configs
  BY <1>4, <1>6 DEF DirInv
<1>8. CASE entry[Default] = NoEntry
  <2>1. ~Exists(Default) /\ ~Readable(Default)
    BY <1>5, <1>8 DEF Exists, Readable, Config
  <2> QED BY <1>3, <1>4, <1>6, <1>7, <1>8, <2>1, Basics DEF Exists, All
<1>9. CASE entry[Default] # NoEntry
  <2>1. /\ entry[Default].name \in Configs
        /\ Config(Default) = entry[entry[Default].name]
        /\ entry[entry[Default].name].name = entry[Default].name
    BY <1>9 DEF DirInv, Config
  <2>2. Exists(Default) /\ Readable(Default)
    BY <2>1 DEF Exists, Readable, Configs
  <2> QED BY <1>3, <1>4, <1>6, <1>7, <1>9, <2>1, <2>2, Basics DEF Exists, All
<1> QED BY <1>8, <1>9

LEMMA Clean ==
  ASSUME DInv, NEW s \in Sessions, Start(s) \/ Proceed(s) \/ Interrupt(s)
  PROVE  CleanMove(s)
<1>1. TypeOK /\ SessionInv(s) /\ Ported(s)
  BY DEF DInv, TInv
<1>2. CASE UNCHANGED entry
  BY <1>2 DEF CleanMove
<1>3. CASE Start(s) \/ Interrupt(s)
  BY <1>3 DEF Start, BeginCreate, BeginUp, BeginDelete, BeginUpdateSsh, Begin, Interrupt, CleanMove
<1>4. CASE (OpenConfig(s) \/ WriteConfig(s)) /\ ~UNCHANGED entry
  <2>1. Nm(s) \in All /\ session[s].port \in Ports
    BY <1>1, <1>4, RunTypes DEF OpenConfig, WriteConfig, Write, Ported, At
  <2>2. Nm(s) \in Names /\ Empty.kind = "empty" /\ NoEntry.kind = "none"
    BY <1>1, <2>1, Basics, EntryShape DEF SessionInv
  <2>3. CASE OpenConfig(s)
    <3>1. At(s, "open config") /\ entry[Nm(s)] = NoEntry
      BY <1>1, <2>3 DEF OpenConfig, SessionInv
    <3>2. Target(Nm(s)) = Nm(s)
      BY <2>2, <3>1 DEF Target
    <3>3. entry' = [entry EXCEPT ![Nm(s)] = Empty]
      BY <2>2, <2>3, <3>1, <3>2 DEF OpenConfig, Nm
    <3> QED BY <2>2, <3>1, <3>3 DEF CleanMove
  <2>4. CASE WriteConfig(s)
    <3>1. At(s, "write config") /\ entry[Nm(s)] = Empty
      BY <1>1, <2>4 DEF WriteConfig, Write, SessionInv
    <3>2. Target(Nm(s)) = Nm(s)
      BY <2>2, <3>1 DEF Target
    <3>3. entry' = [entry EXCEPT ![Nm(s)] = File(Nm(s), session[s].port)]
      BY <2>2, <2>4, <3>1, <3>2 DEF WriteConfig, Write, Nm
    <3> QED BY <2>1, <2>2, <3>1, <3>3 DEF CleanMove
  <2> QED BY <1>4, <2>3, <2>4
<1>5. CASE SetDefault(s) /\ ~UNCHANGED entry
  <2>1. At(s, "set default") /\ entry' = [entry EXCEPT ![Default] = Link(Nm(s))]
    BY <1>5 DEF SetDefault, Nm
  <2>2. Nm(s) \in All
    BY <1>1, <2>1, RunTypes DEF At
  <2>3. Nm(s) \in Configs
    BY <1>1, <2>1, <2>2, Basics DEF SessionInv, Based, At
  <2> QED BY <2>1, <2>3 DEF CleanMove
<1>6. CASE DropConfig(s)
  <2>1. At(s, "drop config") /\ entry' = [entry EXCEPT ![Nm(s)] = NoEntry]
    BY <1>6 DEF DropConfig, Nm
  <2>2. Nm(s) \in Configs
    BY <1>1, <2>1, RunTypes, Basics DEF SessionInv, Based, At
  <2> QED BY <2>1, <2>2 DEF CleanMove
<1>7. CASE CheckName(s) \/ ContactCloud(s) \/ ListConfigs(s) \/ WriteSsh(s) \/ ClearDefault(s)
             \/ DropDefault(s)
  BY <1>7 DEF CheckName, ContactCloud, ListConfigs, WriteSsh, ClearDefault, DropDefault,
              Look, CleanMove
<1> QED BY <1>2, <1>3, <1>4, <1>5, <1>6, <1>7 DEF Proceed

\* An entry after a step, by the kind of the step.
LEMMA Moved ==
  ASSUME DInv, NEW s \in Sessions, CleanMove(s)
  PROVE  \/ entry' = entry
         \/ /\ At(s, "open config") /\ Nm(s) \in Names /\ entry[Nm(s)] = NoEntry
            /\ entry'[Nm(s)] = Empty
            /\ \A n \in All : n # Nm(s) => entry'[n] = entry[n]
         \/ /\ At(s, "write config") /\ Nm(s) \in Names /\ entry[Nm(s)] = Empty
            /\ entry'[Nm(s)].kind = "file" /\ entry'[Nm(s)].name = Nm(s)
            /\ \A n \in All : n # Nm(s) => entry'[n] = entry[n]
         \/ /\ entry'[Default] = NoEntry
            /\ \A n \in All : n # Default => entry'[n] = entry[n]
         \/ /\ At(s, "set default") /\ Nm(s) \in Configs
            /\ entry'[Default].kind = "link" /\ entry'[Default].name = Nm(s)
            /\ \A n \in All : n # Default => entry'[n] = entry[n]
         \/ /\ At(s, "drop config") /\ Nm(s) \in Configs
            /\ entry'[Nm(s)] = NoEntry
            /\ \A n \in All : n # Nm(s) => entry'[n] = entry[n]
<1>1. /\ TypeOK /\ NoEntry \in Entries /\ Empty \in Entries
      /\ NoEntry.kind = "none" /\ Empty.kind = "empty"
  BY EntryShape DEF DInv, TInv
<1>2. ASSUME At(s, "write config"), Nm(s) \in Names, NEW p \in Ports,
             entry' = [entry EXCEPT ![Nm(s)] = File(Nm(s), p)]
      PROVE  /\ entry'[Nm(s)].kind = "file" /\ entry'[Nm(s)].name = Nm(s)
             /\ \A n \in All : n # Nm(s) => entry'[n] = entry[n]
  <2>1. PICK n \in Names : n = Nm(s)
    BY <1>2
  <2>2. File(n, p) \in Entries /\ File(n, p).kind = "file" /\ File(n, p).name = n
    BY EntryShape, Basics
  <2> QED BY <1>1, <1>2, <2>1, <2>2, SetEntry, Basics
<1>3. ASSUME entry' = [entry EXCEPT ![Default] = NoEntry]
      PROVE  /\ entry'[Default] = NoEntry
             /\ \A n \in All : n # Default => entry'[n] = entry[n]
  BY <1>1, <1>3, SetEntry, Basics
<1>4. ASSUME Nm(s) \in Names, entry' = [entry EXCEPT ![Default] = Link(Nm(s))]
      PROVE  /\ entry'[Default].kind = "link" /\ entry'[Default].name = Nm(s)
             /\ \A n \in All : n # Default => entry'[n] = entry[n]
  <2>1. PICK n \in Names : n = Nm(s)
    BY <1>4
  <2>2. Link(n) \in Entries /\ Link(n).kind = "link" /\ Link(n).name = n
    BY EntryShape, Basics
  <2> QED BY <1>1, <1>4, <2>1, <2>2, SetEntry, Basics
<1>5. ASSUME Nm(s) \in Names, NEW e \in {NoEntry, Empty},
             entry' = [entry EXCEPT ![Nm(s)] = e]
      PROVE  /\ entry'[Nm(s)] = e
             /\ \A n \in All : n # Nm(s) => entry'[n] = entry[n]
  <2>1. PICK n \in Names : n = Nm(s)
    BY <1>5
  <2> QED BY <1>1, <1>5, <2>1, SetEntry, Basics
<1>6. Configs \subseteq Names
  BY DEF Configs
<1> QED BY <1>2, <1>3, <1>4, <1>5, <1>6 DEF CleanMove

\* No config is written twice, or linked over.
KeepsWritten == \A n \in Names : entry[n].kind = "file" => entry'[n] \in {entry[n], NoEntry}

LEMMA DirStep ==
  ASSUME DInv, NEW s \in Sessions, CleanMove(s)
  PROVE  DirInv' /\ KeepsWritten
<1>1. /\ DirInv /\ SessionInv(s) /\ Configs \subseteq Names
      /\ NoEntry.kind = "none" /\ Empty.kind = "empty"
  BY EntryShape DEF DInv, Configs
<1>2. \A n \in Names : n # Default /\ n \in All
  BY Basics
<1>3. CASE entry' = entry
  BY <1>1, <1>3 DEF DirInv, Configs, KeepsWritten
<1>4. CASE /\ At(s, "open config") /\ Nm(s) \in Names /\ entry[Nm(s)] = NoEntry
           /\ entry'[Nm(s)] = Empty
           /\ \A n \in All : n # Nm(s) => entry'[n] = entry[n]
  BY <1>1, <1>4, Basics DEF DirInv, Configs, KeepsWritten
<1>5. CASE /\ At(s, "write config") /\ Nm(s) \in Names /\ entry[Nm(s)] = Empty
           /\ entry'[Nm(s)].kind = "file" /\ entry'[Nm(s)].name = Nm(s)
           /\ \A n \in All : n # Nm(s) => entry'[n] = entry[n]
  <2>1. Nm(s) \notin Configs /\ Configs' = Configs \union {Nm(s)}
    BY <1>1, <1>2, <1>5 DEF Configs
  <2>2. entry'[Default] = entry[Default] /\ \A n \in Configs : entry'[n] = entry[n]
    BY <1>1, <1>2, <1>5, <2>1, Basics
  <2>3. DirInv'
    BY <1>1, <1>5, <2>1, <2>2 DEF DirInv
  <2>4. KeepsWritten
    BY <1>1, <1>2, <1>5 DEF KeepsWritten
  <2> QED BY <2>3, <2>4
<1>6. CASE /\ entry'[Default] = NoEntry
           /\ \A n \in All : n # Default => entry'[n] = entry[n]
  BY <1>1, <1>6, Basics DEF DirInv, Configs, KeepsWritten
<1>7. CASE /\ At(s, "set default") /\ Nm(s) \in Configs
           /\ entry'[Default].kind = "link" /\ entry'[Default].name = Nm(s)
           /\ \A n \in All : n # Default => entry'[n] = entry[n]
  BY <1>1, <1>7, Basics DEF DirInv, Configs, KeepsWritten
<1>8. CASE /\ At(s, "drop config") /\ Nm(s) \in Configs
           /\ entry'[Nm(s)] = NoEntry
           /\ \A n \in All : n # Nm(s) => entry'[n] = entry[n]
  <2>1. entry[Default] # NoEntry => entry[Default].name # Nm(s)
    BY <1>1, <1>8 DEF SessionInv
  <2>2. Configs' = Configs \ {Nm(s)}
    BY <1>1, <1>2, <1>8 DEF Configs
  <2>3. entry'[Default] = entry[Default] /\ \A n \in Configs' : entry'[n] = entry[n]
    BY <1>1, <1>2, <1>8, <2>2, Basics
  <2>4. DirInv'
    BY <1>1, <2>1, <2>2, <2>3 DEF DirInv
  <2>5. KeepsWritten
    BY <1>2, <1>8 DEF KeepsWritten
  <2> QED BY <2>4, <2>5
<1> QED BY <1>3, <1>4, <1>5, <1>6, <1>7, <1>8, Moved

\* A config that nobody will write any more stays empty.
LEMMA LeftStep ==
  ASSUME DInv, NEW s \in Sessions, CleanMove(s), SessionMove(s), NEW n \in Names, LeftEmpty(n)
  PROVE  LeftEmpty(n)'
<1>1. /\ entry[n] = Empty /\ Empty.kind = "empty" /\ NoEntry.kind = "none"
      /\ n # Default /\ n \in All /\ SessionInv(s)
  BY EntryShape, Basics DEF LeftEmpty, DInv
<1>2. ~(At(s, "write config") /\ Nm(s) = n) /\ (At(s, "open config") => Nm(s) # n)
  BY <1>1 DEF LeftEmpty, SessionInv, Nm
<1>3. ~(At(s, "drop config") /\ Nm(s) \in Configs /\ Nm(s) = n)
  BY <1>1 DEF Configs
<1>4. entry'[n] = Empty
  BY <1>1, <1>2, <1>3, Moved
<1>5. ASSUME NEW t \in Sessions PROVE ~(At(t, "write config")' /\ Nm(t)' = n)
  <2>1. CASE t = s
    BY <1>2, <2>1 DEF SessionMove
  <2>2. CASE t # s
    BY <2>2 DEF SessionMove, LeftEmpty, At, Nm
  <2> QED BY <2>1, <2>2
<1> QED BY <1>4, <1>5 DEF LeftEmpty, Nm

\* What another session knows of the directory stays so.
LEMMA OtherStep ==
  ASSUME DInv, NEW s \in Sessions, CleanMove(s), NEW t \in Sessions, t # s,
         session'[t] = session[t]
  PROVE  SessionInv(t)'
<1>1. SessionInv(t) /\ SessionInv(s) /\ (Nm(t) # NoName => Nm(t) # Nm(s)) /\ DirInv
  BY DEF DInv, Apart
<1>2. Nm(t)' = Nm(t) /\ session'[t].pc = session[t].pc /\ \A pc : At(t, pc)' <=> At(t, pc)
  BY DEF Nm, At
<1>3. CASE entry' = entry
  BY <1>1, <1>2, <1>3 DEF SessionInv, Configs
<1>4. Nm(t) = NoName => session[t].pc \in {"idle", "list configs", "write ssh"}
  BY Parts DEF DInv, TInv, Named
<1>5. CASE Nm(t) = NoName
  BY <1>1, <1>2, <1>4, <1>5 DEF SessionInv, At
<1>6. CASE Nm(t) # NoName
  <2>1. Nm(t) \in Names /\ Nm(t) # Nm(s) /\ Nm(t) # Default /\ Nm(t) \in All
    BY <1>1, <1>6, Basics DEF SessionInv
  <2>2. entry'[Nm(t)] = entry[Nm(t)]
    BY <2>1, Moved
  <2>3. At(t, "drop config") /\ entry'[Default] # NoEntry => entry'[Default].name # Nm(t)
    <3>1. \/ entry'[Default] = entry[Default]
          \/ entry'[Default] = NoEntry
          \/ entry'[Default].name = Nm(s)
      BY Moved, Basics
    <3>2. At(t, "drop config") /\ entry[Default] # NoEntry => entry[Default].name # Nm(t)
      BY <1>1 DEF SessionInv
    <3>3. CASE entry'[Default] = entry[Default]
      BY <3>2, <3>3
    <3> QED BY <2>1, <3>1, <3>3
  <2>4. Nm(t) \in Configs => Nm(t) \in Configs'
    BY <2>2 DEF Configs
  <2> QED BY <1>1, <1>2, <2>1, <2>2, <2>3, <2>4 DEF SessionInv
<1> QED BY <1>5, <1>6

\* The names of the sessions stay apart: one goes on with its name or ends,
\* and one that begins takes a name nobody has.
LEMMA ApartStep ==
  ASSUME DInv, NEW s \in Sessions, \A t \in Sessions : t # s => session'[t] = session[t],
         \/ Nm(s)' \in {Nm(s), NoName}
         \/ \A t \in Sessions : t # s => Nm(t) # Nm(s)'
  PROVE  Apart'
BY DEF DInv, Apart, Nm

LEMMA OwnProceed ==
  ASSUME DInv, NEW s \in Sessions, Proceed(s) \/ Interrupt(s)
  PROVE  SessionInv(s)' /\ Nm(s)' \in {Nm(s), NoName}
<1>1. /\ TInv /\ TypeOK /\ SessionInv(s) /\ DirInv /\ session \in Sessions0
      /\ "idle" \notin Steps
  BY RunTypes DEF DInv, TInv
<1>2. Idle.pc = "idle" /\ Idle.name = NoName
  BY DEF Idle
<1>3. ASSUME session'[s] = Idle
      PROVE  SessionInv(s)' /\ Nm(s)' \in {Nm(s), NoName}
  BY <1>2, <1>3 DEF SessionInv, Nm, At
<1>4. ASSUME ~At(s, "idle"), Goto(s, "idle")
      PROVE  SessionInv(s)' /\ Nm(s)' \in {Nm(s), NoName}
  <2>1. session'[s] = Idle
    BY <1>1, <1>4, Goes
  <2> QED BY <1>3, <2>1
<1>5. ASSUME NEW pc \in Steps, Goto(s, pc)
      PROVE  session'[s].pc = pc /\ Nm(s)' = Nm(s) /\ (\A q : At(s, q)' <=> pc = q)
  <2>1. CASE At(s, "idle")
    <3>1. session[s] = Idle /\ pc # "idle"
      BY <1>1, <1>5, <2>1, RunTypes
    <3>2. session' = [session EXCEPT ![s] = [Idle EXCEPT !.pc = pc]]
      BY <1>1, <1>5, <3>1 DEF Goto, Sessions0
    <3>3. session'[s] = [Idle EXCEPT !.pc = pc]
      BY <1>1, <3>2 DEF Sessions0
    <3> QED BY <3>1, <3>3 DEF Idle, Nm, At
  <2>2. CASE ~At(s, "idle")
    <3> DEFINE x == [session[s] EXCEPT !.pc = pc]
    <3>1. session[s] \in Runs /\ pc # "idle"
      BY <1>1, <1>5, <2>2, RunTypes
    <3>2. session' = [session EXCEPT ![s] = x]
      BY <1>5, <3>1 DEF Goto
    <3>3. x.pc = pc /\ x.name = Nm(s)
      BY <3>1 DEF Runs, Nm
    <3> HIDE DEF x
    <3>4. session'[s] = x
      BY <1>1, <3>2 DEF Sessions0
    <3> QED BY <3>3, <3>4 DEF Nm, At
  <2> QED BY <2>1, <2>2
<1>6. CASE Interrupt(s)
  BY <1>4, <1>6 DEF Interrupt
<1>7. CASE CheckName(s)
  <2>1. At(s, "check name") /\ UNCHANGED entry /\ Nm(s) \in Names
    BY <1>1, <1>7, RunTypes, Basics DEF CheckName, Look, SessionInv, At
  <2>2. CASE Exists(Nm(s))
    BY <1>4, <1>7, <2>1, <2>2 DEF CheckName, Look, At, Nm
  <2>3. CASE ~Exists(Nm(s))
    <3>1. entry[Nm(s)] = NoEntry
      BY <1>1, <2>1, <2>3, Opens
    <3>2. Goto(s, "open config") /\ "open config" \in Steps
      BY <1>7, <2>3 DEF CheckName, Look, Nm, Steps
    <3> QED BY <1>5, <2>1, <3>1, <3>2 DEF SessionInv, Based, At
  <2> QED BY <2>2, <2>3
<1>15. CASE OpenConfig(s)
  <2>1. At(s, "open config") /\ Nm(s) \in Names /\ entry[Nm(s)] = NoEntry /\ NoEntry.kind = "none"
    <3>1. At(s, "open config")
      BY <1>15 DEF OpenConfig
    <3>2. Nm(s) \in All
      BY <1>1, <3>1, RunTypes DEF At
    <3> QED BY <1>1, <3>1, <3>2, Basics, EntryShape DEF SessionInv
  <2>2. Target(Nm(s)) = Nm(s)
    BY <2>1 DEF Target
  <2>3. Goto(s, "write config") /\ entry' = [entry EXCEPT ![Nm(s)] = Empty]
    BY <1>15, <2>1, <2>2 DEF OpenConfig, Nm
  <2>4. entry'[Nm(s)] = Empty
    <3>1. PICK n \in Names : n = Nm(s)
      BY <2>1
    <3> QED BY <1>1, <2>3, <3>1, SetEntry, EntryShape, Basics
  <2>5. "write config" \in Steps
    BY DEF Steps
  <2> QED BY <1>5, <2>1, <2>3, <2>4, <2>5 DEF SessionInv, Based, At
<1>8. CASE WriteConfig(s)
  <2>1. At(s, "write config") /\ Nm(s) \in Names /\ entry[Nm(s)] = Empty /\ Empty.kind = "empty"
    <3>1. At(s, "write config")
      BY <1>8 DEF WriteConfig, Write
    <3>2. Nm(s) \in All
      BY <1>1, <3>1, RunTypes DEF At
    <3> QED BY <1>1, <3>1, <3>2, Basics, EntryShape DEF SessionInv
  <2>2. Target(Nm(s)) = Nm(s)
    BY <2>1 DEF Target
  <2>3. /\ Goto(s, "list configs")
        /\ entry' = [entry EXCEPT ![Nm(s)] = File(Nm(s), session[s].port)]
    BY <1>8, <2>1, <2>2 DEF WriteConfig, Write, Nm
  <2>4. Nm(s) \in Configs'
    <3>1. PICK n \in Names, p \in Ports : n = Nm(s) /\ p = session[s].port
      BY <2>1 DEF DInv, TInv, Ported, At
    <3>2. File(n, p) \in Entries /\ File(n, p).kind = "file"
      BY EntryShape, Basics
    <3> QED BY <1>1, <2>1, <2>3, <3>1, <3>2, SetEntry, Basics DEF Configs
  <2>5. "list configs" \in Steps
    BY DEF Steps
  <2> QED BY <1>5, <2>1, <2>3, <2>4, <2>5 DEF SessionInv, Based, At
<1>9. CASE ContactCloud(s)
  <2>1. At(s, "contact cloud") /\ Goto(s, "list configs") /\ UNCHANGED entry
    BY <1>9 DEF ContactCloud, Look
  <2>2. "list configs" \in Steps
    BY DEF Steps
  <2>3. Configs' = Configs /\ (Nm(s) # NoName => Nm(s) \in Configs)
    BY <1>1, <2>1 DEF SessionInv, Based, At, Configs
  <2> QED BY <1>1, <1>5, <2>1, <2>2, <2>3 DEF SessionInv, At
<1>10. CASE ListConfigs(s)
  <2>1. At(s, "list configs") /\ UNCHANGED entry
    BY <1>10 DEF ListConfigs
  <2>4. Configs' = Configs /\ (Nm(s) # NoName => Nm(s) \in Configs)
    BY <1>1, <2>1 DEF SessionInv, Based, At, Configs
  <2>2. CASE ~AllUsable
    BY <1>4, <1>10, <2>1, <2>2 DEF ListConfigs, At
  <2>3. CASE AllUsable
    <3> DEFINE x == [session[s] EXCEPT !.pc = "write ssh", !.hosts = Hosts]
    <3>1. session[s] \in Runs
      BY <1>1, <2>1, RunTypes DEF At
    <3>2. session'[s] = x
      BY <1>1, <1>10, <2>3 DEF ListConfigs, Sessions0
    <3>3. x.pc = "write ssh" /\ x.name = Nm(s)
      BY <3>1 DEF Runs, Nm
    <3> HIDE DEF x
    <3> QED BY <1>1, <2>4, <3>2, <3>3 DEF SessionInv, Nm, At
  <2> QED BY <2>2, <2>3
<1>11. CASE WriteSsh(s)
  <2>1. At(s, "write ssh") /\ UNCHANGED entry
    BY <1>11 DEF WriteSsh
  <2>4. Configs' = Configs /\ (Nm(s) # NoName => Nm(s) \in Configs)
    BY <1>1, <2>1 DEF SessionInv, Based, At, Configs
  <2>2. CASE Nm(s) = NoName
    <3>1. session'[s] = Idle
      BY <1>1, <1>11, <2>2 DEF WriteSsh, Sessions0, Nm
    <3> QED BY <1>3, <3>1
  <2>3. CASE Nm(s) # NoName
    <3> DEFINE x == [session[s] EXCEPT !.pc = "clear default", !.hosts = {}]
    <3>1. session[s] \in Runs
      BY <1>1, <2>1, RunTypes DEF At
    <3>2. session'[s] = x
      BY <1>1, <1>11, <2>3 DEF WriteSsh, Sessions0, Nm
    <3>3. x.pc = "clear default" /\ x.name = Nm(s)
      BY <3>1 DEF Runs, Nm
    <3> HIDE DEF x
    <3> QED BY <1>1, <2>4, <3>2, <3>3 DEF SessionInv, Nm, At
  <2> QED BY <2>2, <2>3
<1>12. CASE ClearDefault(s)
  <2>1. At(s, "clear default") /\ Goto(s, "set default") /\ "set default" \in Steps
    BY <1>12 DEF ClearDefault, Steps
  <2>2. \A n \in Names : entry'[n] = entry[n]
    <3>1. entry' \in {entry, [entry EXCEPT ![Default] = NoEntry]} /\ NoEntry \in Entries
      BY <1>12, EntryShape DEF ClearDefault
    <3>2. CASE entry' = [entry EXCEPT ![Default] = NoEntry]
      BY <1>1, <3>1, <3>2, SetEntry, Basics
    <3> QED BY <3>1, <3>2
  <2>3. Configs' = Configs /\ (Nm(s) # NoName => Nm(s) \in Configs)
    BY <1>1, <2>1, <2>2 DEF SessionInv, Based, At, Configs
  <2> QED BY <1>1, <1>5, <2>1, <2>3 DEF SessionInv, At
<1>13. CASE SetDefault(s) \/ DropConfig(s)
  BY <1>4, <1>13 DEF SetDefault, DropConfig, At
<1>14. CASE DropDefault(s)
  <2>1. At(s, "drop default") /\ Nm(s) \in Configs /\ Configs \subseteq Names
    BY <1>1, <1>14, RunTypes, Basics DEF DropDefault, SessionInv, Based, At, Configs
  <2>2. CASE Goto(s, "idle")
    BY <1>4, <2>1, <2>2 DEF At
  <2>3. CASE /\ Goto(s, "drop config")
             /\ entry' = IF Exists(Default) /\ Config(Default).name = Nm(s)
                         THEN [entry EXCEPT ![Default] = NoEntry] ELSE entry
    <3>1. /\ entry'[Default] # NoEntry => entry'[Default].name # Nm(s)
          /\ \A n \in Names : entry'[n] = entry[n]
      <4>1. CASE Exists(Default) /\ Config(Default).name = Nm(s)
        <5>1. entry' = [entry EXCEPT ![Default] = NoEntry] /\ NoEntry \in Entries
          BY <2>3, <4>1, EntryShape
        <5>2. entry'[Default] = NoEntry /\ \A n \in Names : entry'[n] = entry[n]
          BY <1>1, <5>1, SetEntry, Basics
        <5> QED BY <5>2
      <4>2. CASE ~(Exists(Default) /\ Config(Default).name = Nm(s))
        BY <1>1, <2>3, <4>2, Opens
      <4> QED BY <4>1, <4>2
    <3>2. "drop config" \in Steps
      BY DEF Steps
    <3>3. Nm(s) \in Configs'
      BY <2>1, <3>1 DEF Configs
    <3> QED BY <1>5, <2>1, <2>3, <3>1, <3>2, <3>3 DEF SessionInv
  <2> QED BY <1>14, <2>2, <2>3 DEF DropDefault, Nm
<1> QED BY <1>6, <1>7, <1>8, <1>9, <1>10, <1>11, <1>12, <1>13, <1>14, <1>15 DEF Proceed

LEMMA OwnStart ==
  ASSUME CreateNames \subseteq Names, ~Overlap \/ orderly', DInv, NEW s \in Sessions, Start(s)
  PROVE  /\ SessionInv(s)'
         /\ \/ Nm(s)' = NoName
            \/ \A t \in Sessions : t # s => Nm(t) # Nm(s)'
<1>1. TInv /\ TypeOK /\ DirInv /\ session \in Sessions0
  BY RunTypes DEF DInv, TInv
<1>2. ASSUME NEW pc, NEW n, NEW p, Begin(s, pc, n, p),
             ~Overlap \/ \A t \in Sessions : At(t, "idle")
      PROVE  /\ session'[s].pc = pc /\ Nm(s)' = n /\ UNCHANGED entry
             /\ n # NoName => \A t \in Sessions : t # s => Nm(t) # n
  <2>1. session'[s] = [pc |-> pc, name |-> n, port |-> p, hosts |-> {}] /\ UNCHANGED entry
    BY <1>1, <1>2 DEF Begin, Sessions0
  <2>2. CASE ~Overlap
    <3>1. n \notin {session[t].name : t \in Sessions} \ {NoName}
      BY <1>2, <2>2 DEF Begin
    <3> QED BY <2>1, <3>1 DEF Nm
  <2>3. CASE \A t \in Sessions : At(t, "idle")
    <3>1. \A t \in Sessions : session[t] = Idle
      BY <1>1, <2>3, RunTypes
    <3> QED BY <2>1, <3>1 DEF Nm, Idle
  <2> QED BY <1>2, <2>2, <2>3
<1>3. ASSUME NEW n \in CreateNames, BeginCreate(s, n)
      PROVE  /\ SessionInv(s)' /\ \A t \in Sessions : t # s => Nm(t) # Nm(s)'
  <2>1. PICK p : /\ Begin(s, "check name", n, p)
                 /\ ~Overlap \/ \A t \in Sessions : At(t, "idle")
    BY <1>3 DEF BeginCreate, InTurn
  <2>2. n \in Names /\ n # NoName
    BY NamesAssumption
  <2>3. session'[s].pc = "check name" /\ Nm(s)' = n /\ \A t \in Sessions : t # s => Nm(t) # n
    BY <1>2, <2>1, <2>2
  <2> QED BY <2>2, <2>3 DEF SessionInv, Based, At
<1>4. ASSUME NEW n \in All, BeginUp(s, n)
      PROVE  /\ SessionInv(s)' /\ \A t \in Sessions : t # s => Nm(t) # Nm(s)'
  <2>1. PICK m \in Names : m = Config(n).name /\ m \in Configs
    BY <1>1, <1>4, Opens DEF BeginUp, Usable, Configs
  <2>2. PICK p : /\ Begin(s, "contact cloud", m, p)
                 /\ ~Overlap \/ \A t \in Sessions : At(t, "idle")
    BY <1>4, <2>1 DEF BeginUp, InTurn
  <2>3. m # NoName
    BY NamesAssumption
  <2>4. /\ session'[s].pc = "contact cloud" /\ Nm(s)' = m /\ UNCHANGED entry
        /\ \A t \in Sessions : t # s => Nm(t) # m
    BY <1>2, <2>2, <2>3
  <2>5. m \in Configs'
    BY <2>1, <2>4 DEF Configs
  <2> QED BY <2>1, <2>4, <2>5 DEF SessionInv, At
<1>5. ASSUME NEW n \in All, BeginDelete(s, n)
      PROVE  /\ SessionInv(s)' /\ \A t \in Sessions : t # s => Nm(t) # Nm(s)'
  <2>1. PICK m \in Names : m = Config(n).name /\ m \in Configs
    BY <1>1, <1>5, Opens DEF BeginDelete, Configs
  <2>2. /\ Begin(s, "drop default", m, 0)
        /\ ~Overlap \/ \A t \in Sessions : At(t, "idle")
    BY <1>5, <2>1 DEF BeginDelete, InTurn
  <2>3. m # NoName
    BY NamesAssumption
  <2>4. /\ session'[s].pc = "drop default" /\ Nm(s)' = m /\ UNCHANGED entry
        /\ \A t \in Sessions : t # s => Nm(t) # m
    BY <1>2, <2>2, <2>3
  <2>5. m \in Configs'
    BY <2>1, <2>4 DEF Configs
  <2> QED BY <2>1, <2>4, <2>5 DEF SessionInv, At
<1>6. CASE BeginUpdateSsh(s)
  <2>1. /\ Begin(s, "list configs", NoName, 0)
        /\ ~Overlap \/ \A t \in Sessions : At(t, "idle")
    BY <1>6 DEF BeginUpdateSsh, InTurn
  <2>2. session'[s].pc = "list configs" /\ Nm(s)' = NoName
    BY <1>2, <2>1
  <2> QED BY <2>2 DEF SessionInv, At
<1> QED BY <1>3, <1>4, <1>5, <1>6 DEF Start

LEMMA DInit == Init => DInv
<1> SUFFICES ASSUME Init PROVE DInv
  OBVIOUS
<1>1. \A s \in Sessions : session[s] = Idle
  BY DEF Init
<1>2. Idle.pc = "idle" /\ Idle.name = NoName
  BY DEF Idle
<1>3. TInv
  BY <1>1, <1>2, TypeInit DEF TInv, Ported
<1>4. Apart /\ \A s \in Sessions : SessionInv(s)
  BY <1>1, <1>2 DEF Apart, SessionInv, Nm, At
<1>5. CASE entry = [n \in All |-> NoEntry]
  <2>1. DirInv
    BY <1>5, Basics, EntryShape DEF DirInv, Configs
  <2> QED BY <1>3, <1>4, <2>1 DEF DInv
<1>7. NoEntry.kind = "none"
  BY EntryShape
<1>6. CASE entry \in {d \in LegacyDirs : d[Default] = NoEntry \/ d[d[Default].name] # NoEntry}
  <2>1. PICK m \in Names, e \in {NoEntry} \union {Link(k) : k \in Names} :
          entry = [[n \in All |-> NoEntry] EXCEPT ![m] = LegacyFile(m, FirstPort), ![Default] = e]
    BY <1>6 DEF LegacyDirs
  <2>2. FirstPort \in Ports
    BY PortsAssumption DEF Ports
  <2>3. LegacyFile(m, FirstPort).name = m /\ LegacyFile(m, FirstPort).kind = "file"
    BY <2>2, EntryShape, Basics
  <2>4. /\ entry[Default] = e /\ entry[m] = LegacyFile(m, FirstPort)
        /\ \A n \in Names : n # m => entry[n] = NoEntry
    BY <2>1, Basics
  <2>5. e # NoEntry => e.kind = "link" /\ e.name \in Names
    BY EntryShape, Basics
  <2>6. entry[Default] # NoEntry => entry[entry[Default].name] # NoEntry
    BY <1>6
  <2>8. Configs = {m}
    BY <1>7, <2>3, <2>4 DEF Configs
  <2>7. DirInv
    BY <2>3, <2>4, <2>5, <2>6, <2>8 DEF DirInv
  <2> QED BY <1>3, <1>4, <2>7 DEF DInv
<1> QED BY <1>5, <1>6 DEF Init

\* A step of a session keeps the invariant, rewrites no config and leaves the
\* ones that were left empty.
LEMMA DStep ==
  ASSUME CreateNames \subseteq Names, ~Overlap \/ orderly', DInv,
         NEW s \in Sessions, Start(s) \/ Proceed(s) \/ Interrupt(s)
  PROVE  DInv' /\ KeepsWritten /\ \A n \in Names : LeftEmpty(n) => LeftEmpty(n)'
<1>1. TInv /\ TypeOK /\ CleanMove(s)
  BY Clean DEF DInv, TInv
<1>2. TInv'
  BY <1>1, TypeStep DEF Next
<1>7. SessionMove(s)
  BY <1>1, StartStep, ProceedStep, InterruptStep
<1>3. \A t \in Sessions : t # s => session'[t] = session[t]
  BY <1>7 DEF SessionMove
<1>4. /\ SessionInv(s)'
      /\ \/ Nm(s)' \in {Nm(s), NoName}
         \/ \A t \in Sessions : t # s => Nm(t) # Nm(s)'
  BY OwnProceed, OwnStart
<1>5. Apart'
  BY <1>3, <1>4, ApartStep
<1>6. \A t \in Sessions : SessionInv(t)'
  BY <1>1, <1>3, <1>4, OtherStep
<1> QED BY <1>1, <1>2, <1>5, <1>6, <1>7, DirStep, LeftStep DEF DInv

LEMMA DInvAlways == Separate /\ Spec => []DInv
<1> SUFFICES ASSUME Separate PROVE Spec => []DInv
  OBVIOUS
<1>1. DInv /\ [Next]_vars => DInv'
  <2> SUFFICES ASSUME DInv, [Next]_vars PROVE DInv'
    OBVIOUS
  <2>1. CASE Next
    BY <2>1, DStep DEF Next, Separate
  <2>2. CASE UNCHANGED vars
    <3>1. TInv'
      BY TypeStep DEF DInv
    <3> QED BY <2>2, <3>1 DEF vars, DInv, DirInv, Configs, Apart, SessionInv, Nm, At
  <2> QED BY <2>1, <2>2
<1> QED BY <1>1, DInit, PTL DEF Spec

\* If no two sessions at a time are about one name and none creates an
\* instance called "default", default.json always leads to a config: no
\* interleaving and no death of sessions leaves it dangling.
THEOREM DefaultAlwaysResolves == Separate /\ Spec => []DefaultResolves
<1>1. DInv => DefaultResolves
  BY Opens, EntryShape DEF DInv, DefaultResolves
<1> QED BY <1>1, DInvAlways, PTL

\* Under the same conditions no session writes a config that is there: it
\* stays as create wrote it until a delete removes it, and as a create that died
\* before it wrote it left it.
THEOREM ConfigsStayAsWritten == Separate /\ Spec => ConfigsNotRewritten
<1> SUFFICES ASSUME Separate PROVE Spec => ConfigsNotRewritten
  OBVIOUS
<1>1. DInv /\ [Next]_vars =>
        [\A n \in Names : /\ entry[n].kind = "file" => entry'[n] \in {entry[n], NoEntry}
                          /\ LeftEmpty(n) => LeftEmpty(n)']_vars
  BY DStep DEF Next, Separate, KeepsWritten
<1> QED BY <1>1, DInvAlways, PTL DEF Spec, ConfigsNotRewritten
----------------------------------------------------------------------------
(* Ports, while users run one command at a time and choose no ports.       *)

\* A set of numbers has a least one, and a set of ports a greatest.
LEMMA LeastOf ==
  ASSUME NEW T \in SUBSET Nat, T # {}
  PROVE  \E x \in T : \A y \in T : x <= y
<1> DEFINE R == OpToRel(<, Nat)
<1>1. IsWellFoundedOn(R, Nat)
  BY NatLessThanWellFounded
<1>2. \A x, y \in Nat : <<x, y>> \in R <=> x < y
  BY DEF OpToRel
<1> HIDE DEF R
<1>3. PICK x \in T : \A y \in T : ~(<<y, x>> \in R)
  BY <1>1, WFMin
<1>4. ASSUME NEW y \in T PROVE x <= y
  <2>1. x \in Nat /\ y \in Nat
    OBVIOUS
  <2>2. ~(y < x)
    BY <1>2, <1>3, <2>1
  <2> QED BY <2>1, <2>2
<1> QED BY <1>4

LEMMA MaxPort ==
  ASSUME NEW P \in SUBSET Ports, P # {}
  PROVE  Max(P) \in P /\ \A p \in P : p <= Max(P)
<1> DEFINE T == {LastPort - p : p \in P}
<1>1. P \subseteq Nat /\ LastPort \in Nat /\ \A p \in P : p <= LastPort
  BY PortsAssumption DEF Ports
<1>2. T \in SUBSET Nat /\ T # {}
  <2>1. \A p \in P : LastPort - p \in Nat
    BY <1>1
  <2> QED BY <2>1
<1>3. PICK x \in T : \A y \in T : x <= y
  BY <1>2, LeastOf
<1>4. PICK q \in P : x = LastPort - q
  BY <1>3
<1>5. ASSUME NEW p \in P PROVE q >= p
  <2>1. LastPort - p \in T
    OBVIOUS
  <2>2. LastPort - q <= LastPort - p
    BY <1>3, <1>4, <2>1
  <2> QED BY <1>1, <2>2
<1>6. Max(P) \in P /\ \A p \in P : Max(P) >= p
  BY <1>5 DEF Max
<1> QED BY <1>1, <1>6

Listed(n) == \E s \in Sessions : Nm(s) = n /\ session[s].pc \in {"list configs", "write ssh"}

\* One command at a time, on configs of this hermit only.
OneAtATime ==
  /\ \A s, t \in Sessions : s # t => At(s, "idle") \/ At(t, "idle")
  /\ \A n \in Configs : ~entry[n].legacy

\* A create has a port that is greater than those of the configs, because
\* they are still the ones it looked at.
FreshPort(s) ==
  session[s].pc \in {"check name", "open config", "write config"} =>
    \A n \in Configs : entry[n].port < session[s].port

DistinctPorts ==
  \A m, n \in Configs : m # n => entry[m].port # entry[n].port

\* ssh knows the configs, but for one that the running command will add.
SshKnows ==
  /\ \A n \in Configs : <<n, entry[n].port>> \in ssh \/ Listed(n)
  /\ \A s \in Sessions : At(s, "write ssh") =>
       \A n \in Configs : <<n, entry[n].port>> \in session[s].hosts

\* No create died between opening its config and writing it.
NoneLeft == \A n \in Names : ~LeftEmpty(n)

OrderInv ==
  OneAtATime /\ (\A s \in Sessions : FreshPort(s)) /\ DistinctPorts /\ SshKnows /\ NoneLeft

OInv == TInv /\ (orderly => DInv /\ OrderInv)

\* A config is empty only while it is being written.
NoneEmpty == \A n \in Names : entry[n] # Empty

LEMMA AllWritten ==
  ASSUME NoneLeft, NEW s \in Sessions, session[s].pc # "write config",
         \A t \in Sessions : t # s => session[t] = Idle
  PROVE  NoneEmpty
<1>1. Idle.pc = "idle"
  BY DEF Idle
<1>2. \A t \in Sessions : ~At(t, "write config")
  BY <1>1 DEF At
<1> QED BY <1>2 DEF NoneEmpty, NoneLeft, LeftEmpty

\* What a command reads then.
LEMMA ReadsAll ==
  ASSUME DInv, OneAtATime, NoneEmpty
  PROVE  /\ AllUsable
         /\ InstanceNames = Configs
         /\ \A n \in Configs : Config(n) = entry[n] /\ entry[n].name = n /\ entry[n].port \in Ports
<1>1. TInv /\ TypeOK /\ DirInv
  BY DEF DInv, TInv
<1>2. \A n \in Names : entry[n].kind # "link" /\ Config(n) = entry[n]
  BY <1>1, Parts DEF Config
<1>3. \A n \in Names : entry[n] # NoEntry => n \in Configs
  <2>1. \A n \in Names : entry[n] \in Entries
    BY <1>1, Parts, Basics
  <2> QED BY <1>2, <2>1, EntryParts DEF NoneEmpty, Configs
<1>4. \A n \in Present : Readable(n)
  BY <1>1, <1>3, Opens DEF Present, All
<1>5. \A n \in Configs : n \in Names /\ n \in Present /\ Config(n).name = n /\ entry[n].name = n
  BY <1>1, <1>2, EntryShape DEF Configs, Present, DirInv, All
<1>6. \A n \in Present : n \in All /\ Config(n).name \in Configs
  BY <1>1, <1>4, Opens DEF Present
<1>7. InstanceNames = Configs
  BY <1>5, <1>6 DEF InstanceNames
<1>8. \A n \in Configs : Config(n) = entry[n] /\ Readable(n) /\ ~Config(n).legacy
  BY <1>1, <1>2, <1>5, Opens DEF OneAtATime
<1>9. AllUsable
  BY <1>4, <1>7, <1>8 DEF AllUsable, Listable, Usable
<1>10. \A n \in Configs : entry[n].port \in Ports
  BY <1>1, <1>5, <1>8, Basics, Reads
<1> QED BY <1>5, <1>7, <1>8, <1>9, <1>10

LEMMA UnusedIsUnused ==
  ASSUME DInv, OneAtATime, NoneEmpty, NEW n \in Configs
  PROVE  entry[n].port < UnusedPort
<1> DEFINE P == {Config(m).port : m \in InstanceNames}
<1>1. InstanceNames = Configs /\ \A m \in Configs : Config(m).port \in Ports
  BY ReadsAll
<1>2. P \in SUBSET Ports /\ entry[n].port \in P
  BY <1>1, ReadsAll
<1>3. Max(P) \in P /\ entry[n].port <= Max(P)
  BY <1>2, MaxPort
<1>4. UnusedPort = 1 + Max(P)
  BY <1>1 DEF UnusedPort
<1>5. Max(P) \in Int /\ entry[n].port \in Int
  BY <1>2, <1>3 DEF Ports
<1> HIDE DEF P
<1> QED BY <1>3, <1>4, <1>5

LEMMA HostsKnow ==
  ASSUME DInv, OneAtATime, NoneEmpty, NEW n \in Configs
  PROVE  <<n, entry[n].port>> \in Hosts
BY ReadsAll DEF Hosts

\* A command runs alone: the other sessions are idle before and after its step.
LEMMA Alone ==
  ASSUME DInv, OneAtATime, orderly', NEW s \in Sessions, Start(s) \/ Proceed(s)
  PROVE  \A t \in Sessions : t # s => session[t] = Idle /\ session'[t] = Idle
<1>1. TInv /\ TypeOK
  BY DEF DInv, TInv
<1>2. \A t \in Sessions : t # s => session'[t] = session[t]
  BY <1>1, StartStep, ProceedStep DEF SessionMove
<1>3. CASE Start(s)
  <2>1. \A t \in Sessions : At(t, "idle")
    BY <1>3 DEF Start, BeginCreate, BeginUp, BeginDelete, BeginUpdateSsh, InTurn
  <2> QED BY <1>1, <1>2, <2>1, RunTypes
<1>4. CASE Proceed(s)
  <2>1. ~At(s, "idle")
    BY <1>4 DEF Proceed, CheckName, OpenConfig, WriteConfig, Write, ContactCloud, ListConfigs,
                WriteSsh, ClearDefault, SetDefault, DropDefault, DropConfig, At
  <2>2. \A t \in Sessions : t # s => At(t, "idle")
    BY <2>1 DEF OneAtATime
  <2> QED BY <1>1, <1>2, <2>2, RunTypes
<1> QED BY <1>3, <1>4

\* What a step has to do for order to be kept.
Registers(s) ==
  /\ \A n \in Configs' : \/ <<n, entry'[n].port>> \in ssh'
                         \/ Nm(s)' = n /\ session'[s].pc \in {"list configs", "write ssh"}
  /\ At(s, "write ssh")' => \A n \in Configs' : <<n, entry'[n].port>> \in session'[s].hosts

LEMMA Ordered ==
  ASSUME NEW s \in Sessions, \A t \in Sessions : t # s => session'[t] = Idle,
         \A n \in Configs' : ~entry'[n].legacy,
         FreshPort(s)', DistinctPorts', Registers(s), NoneLeft'
  PROVE  OrderInv'
<1>1. Idle.pc = "idle"
  BY DEF Idle
<1>2. \A t \in Sessions : t # s => session'[t].pc = "idle"
  BY <1>1
<1>3. OneAtATime'
  BY <1>2 DEF OneAtATime, At
<1>4. \A t \in Sessions : FreshPort(t)'
  BY <1>2 DEF FreshPort
<1>5. \A n \in Configs' : <<n, entry'[n].port>> \in ssh' \/ Listed(n)'
  BY DEF Registers, Listed
<1>6. \A t \in Sessions : At(t, "write ssh")' =>
         \A n \in Configs' : <<n, entry'[n].port>> \in session'[t].hosts
  BY <1>2 DEF Registers, At
<1> QED BY <1>3, <1>4, <1>5, <1>6 DEF OrderInv, SshKnows

\* Of a step that writes no config, only the session and ssh matter.
LEMMA Shrinks ==
  ASSUME OrderInv, NEW s \in Sessions, \A t \in Sessions : t # s => session'[t] = Idle,
         \A n \in Configs' : n \in Configs /\ entry'[n] = entry[n],
         FreshPort(s)', Registers(s), NoneEmpty'
  PROVE  OrderInv'
<1>1. \A n \in Configs' : ~entry'[n].legacy
  BY DEF OrderInv, OneAtATime
<1>2. DistinctPorts'
  BY DEF OrderInv, DistinctPorts
<1>3. NoneLeft'
  BY DEF NoneEmpty, NoneLeft, LeftEmpty
<1> QED BY <1>1, <1>2, <1>3, Ordered

\* Before a command writes a config, and after it wrote the section of ssh,
\* the section is complete.
LEMMA KnownBefore ==
  ASSUME OrderInv, NEW s \in Sessions, \A t \in Sessions : t # s => session[t] = Idle,
         session[s].pc \notin {"list configs", "write ssh"}, NEW n \in Configs
  PROVE  <<n, entry[n].port>> \in ssh
<1>1. Idle.pc = "idle"
  BY DEF Idle
<1>2. ~Listed(n)
  BY <1>1 DEF Listed
<1> QED BY <1>2 DEF OrderInv, SshKnows

LEMMA OrderStart ==
  ASSUME DInv, OrderInv, orderly', NEW s \in Sessions, Start(s)
  PROVE  OrderInv'
<1>1. TInv /\ TypeOK /\ OneAtATime /\ session \in Sessions0
  BY RunTypes DEF DInv, TInv, OrderInv
<1>2. \A t \in Sessions : t # s => session[t] = Idle /\ session'[t] = Idle
  BY <1>1, Alone
<1>3. UNCHANGED <<entry, ssh>> /\ Configs' = Configs
  BY <1>1, StartStep DEF Configs
<1>4. At(s, "idle") /\ session[s].pc = "idle"
  BY DEF Start, BeginCreate, BeginUp, BeginDelete, BeginUpdateSsh, Begin, At
<1>5. \A n \in Configs : <<n, entry[n].port>> \in ssh
  BY <1>2, <1>4, KnownBefore
<1>6. PICK pc \in {"check name", "contact cloud", "list configs", "drop default"} :
        \E n, p : Begin(s, pc, n, p) /\ (pc = "check name" => p = UnusedPort)
  BY DEF Start, BeginCreate, BeginUp, BeginDelete, BeginUpdateSsh
<1>7. session'[s].pc = pc /\ (pc = "check name" => session'[s].port = UnusedPort)
  <2>1. PICK n, p : Begin(s, pc, n, p) /\ (pc = "check name" => p = UnusedPort)
    BY <1>6
  <2> DEFINE x == [pc |-> pc, name |-> n, port |-> p, hosts |-> {}]
  <2>2. x.pc = pc /\ x.port = p
    OBVIOUS
  <2>3. session'[s] = x
    BY <1>1, <2>1 DEF Begin, Sessions0
  <2> HIDE DEF x
  <2> QED BY <2>1, <2>2, <2>3
<1>10. NoneEmpty /\ NoneEmpty'
  BY <1>2, <1>3, <1>4, AllWritten DEF OrderInv, NoneEmpty
<1>8. FreshPort(s)'
  BY <1>1, <1>3, <1>6, <1>7, <1>10, UnusedIsUnused DEF FreshPort
<1>9. Registers(s)
  BY <1>3, <1>5, <1>6, <1>7 DEF Registers, At
<1> QED BY <1>2, <1>3, <1>8, <1>9, <1>10, Shrinks

\* The config that create opens is the only empty one.
LEMMA OrderOpenConfig ==
  ASSUME DInv, OrderInv, NEW s \in Sessions, OpenConfig(s),
         \A t \in Sessions : t # s => session[t] = Idle /\ session'[t] = Idle
  PROVE  OrderInv'
<1>1. TInv /\ TypeOK /\ SessionInv(s) /\ FreshPort(s) /\ NoneLeft
  BY DEF DInv, TInv, OrderInv
<1>2. At(s, "open config") /\ ~At(s, "idle") /\ session[s].pc = "open config"
  BY DEF OpenConfig, At
<1>3. /\ Nm(s) \in Names /\ entry[Nm(s)] = NoEntry
      /\ NoEntry.kind = "none" /\ Empty.kind = "empty"
  <2>1. Nm(s) \in All
    BY <1>1, <1>2, RunTypes DEF At
  <2> QED BY <1>1, <1>2, <2>1, Basics, EntryShape DEF SessionInv
<1>4. Target(Nm(s)) = Nm(s)
  BY <1>3 DEF Target
<1>5. Goto(s, "write config") /\ UNCHANGED ssh /\ entry' = [entry EXCEPT ![Nm(s)] = Empty]
  BY <1>3, <1>4 DEF OpenConfig, Nm
<1>6. entry'[Nm(s)] = Empty /\ \A m \in Names : m # Nm(s) => entry'[m] = entry[m]
  <2>1. PICK n \in Names : n = Nm(s)
    BY <1>3
  <2> QED BY <1>1, <1>5, <2>1, SetEntry, EntryShape, Basics
<1>7. Configs' = Configs /\ \A m \in Configs : entry'[m] = entry[m]
  BY <1>3, <1>6 DEF Configs
<1>8. "write config" \in Steps /\ "write config" # "idle"
  BY DEF Steps
<1>9. /\ session'[s].pc = "write config" /\ Nm(s)' = Nm(s)
      /\ session'[s].port = session[s].port
  BY <1>1, <1>2, <1>3, <1>5, <1>8, Goes, Basics DEF Nm
<1>10. FreshPort(s)'
  BY <1>1, <1>2, <1>7, <1>9 DEF FreshPort
<1>11. DistinctPorts' /\ \A n \in Configs' : ~entry'[n].legacy
  BY <1>7 DEF OrderInv, DistinctPorts, OneAtATime
<1>12. Registers(s)
  <2>1. session[s].pc \notin {"list configs", "write ssh"}
    BY <1>2
  <2>2. \A m \in Configs : <<m, entry[m].port>> \in ssh
    BY <2>1, KnownBefore
  <2>3. \A m \in Configs' : <<m, entry'[m].port>> \in ssh'
    <3>1. ssh' = ssh
      BY <1>5
    <3>2. ASSUME NEW m \in Configs' PROVE m \in Configs /\ entry'[m].port = entry[m].port
      BY <1>7
    <3> QED BY <2>2, <3>1, <3>2
  <2>4. ~At(s, "write ssh")'
    BY <1>9 DEF At
  <2> QED BY <2>3, <2>4 DEF Registers
<1>13. NoneLeft'
  <2>1. NoneEmpty
    BY <1>1, <1>2, AllWritten
  <2>2. \A m \in Names : m # Nm(s) => entry'[m] # Empty
    BY <1>6, <2>1 DEF NoneEmpty
  <2> QED BY <1>9, <2>2 DEF NoneLeft, LeftEmpty, At, Nm
<1> QED BY <1>10, <1>11, <1>12, <1>13, Ordered

\* The config that create writes, at a port no other config has.
LEMMA OrderWriteConfig ==
  ASSUME DInv, OrderInv, NEW s \in Sessions, WriteConfig(s),
         \A t \in Sessions : t # s => session[t] = Idle /\ session'[t] = Idle
  PROVE  OrderInv'
<1>1. /\ TInv /\ TypeOK /\ SessionInv(s) /\ Ported(s) /\ FreshPort(s) /\ DistinctPorts
      /\ OneAtATime /\ NoneLeft
  BY DEF DInv, TInv, OrderInv
<1>2. At(s, "write config") /\ ~At(s, "idle")
  BY DEF WriteConfig, Write, At
<1>3. Nm(s) \in Names /\ entry[Nm(s)] = Empty /\ Empty.kind = "empty"
  <2>1. Nm(s) \in All
    BY <1>1, <1>2, RunTypes DEF At
  <2> QED BY <1>1, <1>2, <2>1, Basics, EntryShape DEF SessionInv
<1>4. PICK n \in Names, p \in Ports : n = Nm(s) /\ p = session[s].port
  BY <1>1, <1>2, <1>3 DEF Ported, At
<1>5. /\ Goto(s, "list configs") /\ UNCHANGED ssh
      /\ entry' = [entry EXCEPT ![n] = File(n, p)]
  <2>1. Target(Nm(s)) = Nm(s)
    BY <1>3 DEF Target
  <2> QED BY <1>3, <1>4, <2>1 DEF WriteConfig, Write, Nm
<1>6. File(n, p) \in Entries /\ File(n, p).kind = "file" /\ File(n, p).port = p /\ ~File(n, p).legacy
  BY EntryShape, Basics DEF File
<1>7. entry'[n] = File(n, p) /\ \A m \in Names : m # n => entry'[m] = entry[m]
  BY <1>1, <1>5, <1>6, SetEntry, Basics
<1>8. \A m \in Configs' : m = n \/ (m # n /\ m \in Configs /\ entry'[m] = entry[m])
  BY <1>7 DEF Configs
<1>9. "list configs" \in Steps /\ "list configs" # "idle"
  BY DEF Steps
<1>10. session'[s].pc = "list configs" /\ Nm(s)' = n
  BY <1>1, <1>2, <1>4, <1>5, <1>9, Goes DEF Nm
<1>11. \A m \in Configs : entry[m].port < p /\ entry[m].port \in Ports
  <2>1. \A m \in Configs : entry[m].port < p
    BY <1>1, <1>2, <1>4 DEF FreshPort, At
  <2>2. \A m \in Configs : entry[m].kind = "file" /\ entry[m] \in Entries
    BY <1>1, Parts, Basics DEF Configs
  <2> QED BY <2>1, <2>2, EntryParts
<1>12. DistinctPorts'
  <2> SUFFICES ASSUME NEW l \in Configs', NEW m \in Configs', l # m
               PROVE  entry'[l].port # entry'[m].port
    BY DEF DistinctPorts
  <2>1. p \in Int /\ \A q \in Ports : q \in Int
    BY PortsAssumption DEF Ports
  <2>2. CASE l = n
    BY <1>6, <1>7, <1>8, <1>11, <2>1, <2>2
  <2>3. CASE m = n
    BY <1>6, <1>7, <1>8, <1>11, <2>1, <2>3
  <2>4. CASE l # n /\ m # n
    BY <1>1, <1>8, <2>4 DEF DistinctPorts
  <2> QED BY <2>2, <2>3, <2>4
<1>13. \A m \in Configs' : ~entry'[m].legacy
  BY <1>1, <1>6, <1>7, <1>8 DEF OneAtATime
<1>14. FreshPort(s)'
  BY <1>10 DEF FreshPort
<1>15. Registers(s)
  <2>1. session[s].pc \notin {"list configs", "write ssh"}
    BY <1>2 DEF At
  <2>2. \A m \in Configs : <<m, entry[m].port>> \in ssh
    BY <2>1, KnownBefore
  <2>3. ssh' = ssh
    BY <1>5
  <2>4. \A m \in Configs' : m = n \/ <<m, entry'[m].port>> \in ssh'
    BY <1>8, <2>2, <2>3
  <2>5. ~At(s, "write ssh")'
    BY <1>10 DEF At
  <2> QED BY <1>10, <2>4, <2>5 DEF Registers
<1>16. NoneLeft'
  <2>1. Idle.pc = "idle"
    BY DEF Idle
  <2>2. \A m \in Names : m # n => entry[m] # Empty
    BY <1>1, <1>4, <2>1 DEF NoneLeft, LeftEmpty, At, Nm
  <2>3. \A m \in Names : entry'[m] # Empty
    BY <1>3, <1>6, <1>7, <2>2
  <2> QED BY <2>3 DEF NoneLeft, LeftEmpty
<1> QED BY <1>12, <1>13, <1>14, <1>15, <1>16, Ordered

\* Listing the configs succeeds, and what is listed is written.
LEMMA OrderSsh ==
  ASSUME DInv, OrderInv, NEW s \in Sessions, ListConfigs(s) \/ WriteSsh(s),
         \A t \in Sessions : t # s => session[t] = Idle /\ session'[t] = Idle
  PROVE  OrderInv'
<1>1. TypeOK /\ OneAtATime /\ session \in Sessions0
  BY RunTypes DEF DInv, TInv, OrderInv
<1>2. UNCHANGED entry /\ Configs' = Configs
  BY DEF ListConfigs, WriteSsh, Configs
<1>3. ~At(s, "idle")
  BY DEF ListConfigs, WriteSsh, At
<1>4. session[s] \in Runs
  BY <1>1, <1>3, RunTypes
<1>7. NoneEmpty /\ NoneEmpty'
  <2>1. session[s].pc # "write config"
    BY DEF ListConfigs, WriteSsh, At
  <2> QED BY <1>2, <2>1, AllWritten DEF OrderInv, NoneEmpty
<1>5. CASE ListConfigs(s)
  <2> DEFINE x == [session[s] EXCEPT !.pc = "write ssh", !.hosts = Hosts]
  <2>1. AllUsable /\ \A n \in Configs : <<n, entry[n].port>> \in Hosts
    BY <1>1, <1>7, ReadsAll, HostsKnow
  <2>2. session'[s] = x /\ UNCHANGED ssh
    BY <1>1, <1>5, <2>1 DEF ListConfigs, Sessions0
  <2>3. x.pc = "write ssh" /\ x.hosts = Hosts /\ x.name = Nm(s)
    BY <1>4 DEF Runs, Nm
  <2> HIDE DEF x
  <2>4. session[s].pc = "list configs"
    BY <1>5 DEF ListConfigs, At
  <2>5. \A n \in Configs : <<n, entry[n].port>> \in ssh \/ Nm(s) = n
    <3>1. \A n \in Configs : <<n, entry[n].port>> \in ssh \/ Listed(n)
      BY DEF OrderInv, SshKnows
    <3>2. Idle.pc = "idle"
      BY DEF Idle
    <3> QED BY <3>1, <3>2 DEF Listed
  <2>6. Registers(s)
    BY <1>2, <2>1, <2>2, <2>3, <2>5 DEF Registers, At, Nm
  <2>7. FreshPort(s)'
    BY <2>2, <2>3 DEF FreshPort
  <2> QED BY <1>2, <1>7, <2>6, <2>7, Shrinks
<1>6. CASE WriteSsh(s)
  <2> DEFINE x == IF session[s].name = NoName THEN Idle
                  ELSE [session[s] EXCEPT !.pc = "clear default", !.hosts = {}]
  <2>1. session'[s] = x /\ ssh' = session[s].hosts /\ At(s, "write ssh")
    BY <1>1, <1>6 DEF WriteSsh, Sessions0
  <2>2. x.pc \in {"idle", "clear default"}
    BY <1>4 DEF Runs, Idle
  <2> HIDE DEF x
  <2>3. \A n \in Configs : <<n, entry[n].port>> \in ssh'
    BY <2>1 DEF OrderInv, SshKnows
  <2>4. Registers(s)
    BY <1>2, <2>1, <2>2, <2>3 DEF Registers, At
  <2>5. FreshPort(s)'
    BY <2>1, <2>2 DEF FreshPort
  <2> QED BY <1>2, <1>7, <2>4, <2>5, Shrinks
<1> QED BY <1>5, <1>6

\* The other steps write no config, and leave ssh as it is.
LEMMA OrderOther ==
  ASSUME DInv, OrderInv, NEW s \in Sessions,
         \/ CheckName(s) \/ ContactCloud(s) \/ ClearDefault(s) \/ SetDefault(s)
         \/ DropDefault(s) \/ DropConfig(s),
         \A t \in Sessions : t # s => session[t] = Idle /\ session'[t] = Idle
  PROVE  OrderInv'
<1>1. TInv /\ TypeOK /\ SessionInv(s) /\ session \in Sessions0
  BY RunTypes DEF DInv, TInv
<1>2. /\ ~At(s, "idle") /\ UNCHANGED ssh
      /\ session[s].pc \notin {"idle", "open config", "write config", "list configs", "write ssh"}
  BY DEF CheckName, ContactCloud, ClearDefault, SetDefault, DropDefault, DropConfig, At, Look
<1>3. \A n \in Configs : <<n, entry[n].port>> \in ssh
  BY <1>2, KnownBefore
<1>4. NoneEmpty' /\ \A n \in Configs' : n \in Configs /\ entry'[n] = entry[n]
  <2>1. Start(s) \/ Proceed(s) \/ Interrupt(s)
    BY DEF Proceed
  <2>2. CleanMove(s)
    BY <2>1, Clean
  <2>3. ~At(s, "open config") /\ ~At(s, "write config")
    BY <1>2 DEF At
  <2>4. \A n \in Names : entry'[n] = entry[n] \/ entry'[n] = NoEntry
    BY <2>2, <2>3, Moved, Basics
  <2>5. NoneEmpty
    BY <1>2, AllWritten DEF OrderInv
  <2>6. NoEntry.kind = "none" /\ Empty.kind = "empty"
    BY EntryShape
  <2> QED BY <2>4, <2>5, <2>6 DEF Configs, NoneEmpty
<1>5. PICK pc \in {"idle", "open config", "list configs", "set default", "drop config"} :
        Goto(s, pc) /\ (pc = "open config" => At(s, "check name"))
  BY DEF CheckName, ContactCloud, ClearDefault, SetDefault, DropDefault, DropConfig, Look
<1>6. pc \in Steps \union {"idle"}
  BY DEF Steps
<1>7. session[s] \in Runs /\ Nm(s) # NoName
  BY <1>1, <1>2, RunTypes, Basics
<1>8. session'[s].pc = pc /\ (pc # "idle" => session'[s].port = session[s].port)
  BY <1>1, <1>2, <1>5, <1>6, <1>7, Goes
<1>9. FreshPort(s)'
  <2>1. CASE pc = "open config"
    <3>1. \A n \in Configs : entry[n].port < session[s].port
      BY <1>5, <2>1 DEF OrderInv, FreshPort, At
    <3> QED BY <1>4, <1>8, <2>1, <3>1 DEF FreshPort
  <2>2. CASE pc # "open config"
    BY <1>8, <2>2 DEF FreshPort
  <2> QED BY <2>1, <2>2
<1>10. Registers(s)
  BY <1>2, <1>3, <1>4, <1>8 DEF Registers, At
<1> QED BY <1>4, <1>9, <1>10, Shrinks

LEMMA OInit == Init => OInv
<1> SUFFICES ASSUME Init PROVE OInv
  OBVIOUS
<1>1. DInv
  BY DInit
<1>2. \A s \in Sessions : session[s].pc = "idle"
  BY DEF Init, Idle
<1>3. orderly => \A n \in Names : entry[n] = NoEntry
  BY Basics DEF Init
<1>4. NoEntry.kind = "none" /\ Empty.kind = "empty"
  BY EntryShape
<1>5. orderly => Configs = {} /\ NoneLeft
  BY <1>3, <1>4 DEF Configs, NoneLeft, LeftEmpty
<1>6. orderly => OrderInv
  BY <1>2, <1>5 DEF OrderInv, OneAtATime, FreshPort, DistinctPorts, SshKnows, At
<1> QED BY <1>1, <1>6 DEF OInv, DInv

LEMMA OStep == CreateNames \subseteq Names /\ OInv /\ [Next]_vars => OInv'
<1> SUFFICES ASSUME CreateNames \subseteq Names, OInv, [Next]_vars PROVE OInv'
  OBVIOUS
<1>1. TInv'
  BY TypeStep DEF OInv
<1>2. ASSUME NEW s \in Sessions, Start(s) \/ Proceed(s) \/ Interrupt(s), orderly'
      PROVE  DInv' /\ OrderInv'
  <2>1. (Start(s) \/ Proceed(s)) /\ orderly
    BY <1>2 DEF Start, BeginCreate, BeginUp, BeginDelete, BeginUpdateSsh, InTurn, Interrupt,
                Proceed, CheckName, OpenConfig, WriteConfig, Write, ContactCloud, ListConfigs,
                WriteSsh, ClearDefault, SetDefault, DropDefault, DropConfig, Look, history
  <2>2. DInv /\ OrderInv /\ OneAtATime
    BY <2>1 DEF OInv, OrderInv
  <2>3. DInv'
    BY <1>2, <2>2, DStep
  <2>4. \A t \in Sessions : t # s => session[t] = Idle /\ session'[t] = Idle
    BY <1>2, <2>1, <2>2, Alone
  <2>5. OrderInv'
    BY <1>2, <2>1, <2>2, <2>4, OrderStart, OrderOpenConfig, OrderWriteConfig, OrderSsh, OrderOther DEF Proceed
  <2> QED BY <2>3, <2>5
<1>3. CASE UNCHANGED vars
  <2>1. UNCHANGED <<entry, ssh, session, orderly>>
    BY <1>3 DEF vars, history
  <2>2. DInv => DInv'
    BY <1>1, <2>1 DEF DInv, DirInv, Configs, Apart, SessionInv, Nm, At
  <2>3. OrderInv => OrderInv'
    <3>1. Configs' = Configs /\ (NoneLeft => NoneLeft')
      BY <2>1 DEF Configs, NoneLeft, LeftEmpty, At
    <3>2. SshKnows => SshKnows'
      BY <2>1, <3>1 DEF SshKnows, Listed, Nm, At
    <3> QED BY <2>1, <3>1, <3>2 DEF OrderInv, OneAtATime, FreshPort, DistinctPorts, At
  <2> QED BY <1>1, <2>1, <2>2, <2>3 DEF OInv
<1> QED BY <1>1, <1>2, <1>3 DEF Next, OInv

LEMMA OInvAlways == CreateNames \subseteq Names /\ Spec => []OInv
<1> SUFFICES ASSUME CreateNames \subseteq Names PROVE Spec => []OInv
  OBVIOUS
<1> QED BY OInit, OStep, PTL DEF Spec

\* As long as users run one command at a time, each to its end, choose no
\* ports and create no instance called "default", find_unused_port never gives
\* a port that the config of another instance has, although the config is
\* written long after the port was picked.
THEOREM PortsStayDistinct == CreateNames \subseteq Names /\ Spec => []PortsDistinct
<1> SUFFICES ASSUME CreateNames \subseteq Names PROVE Spec => []PortsDistinct
  OBVIOUS
<1>1. OInv => PortsDistinct
  BY DEF OInv, OrderInv, DistinctPorts, PortsDistinct
<1> QED BY <1>1, OInvAlways, PTL

\* Under the same conditions hermit's section of ~/.ssh/config has the port of
\* every config whenever no command runs: listing the configs cannot fail
\* then, and a command that wrote a config goes on to rewrite the section.
THEOREM SshStaysComplete == CreateNames \subseteq Names /\ Spec => []SshComplete
<1> SUFFICES ASSUME CreateNames \subseteq Names PROVE Spec => []SshComplete
  OBVIOUS
<1>1. ASSUME OInv PROVE SshComplete
  <2> SUFFICES ASSUME orderly, \A s \in Sessions : At(s, "idle"), NEW n \in Configs
               PROVE  <<n, entry[n].port>> \in ssh
    BY DEF SshComplete
  <2>1. ~Listed(n)
    BY DEF Listed, At
  <2> QED BY <1>1, <2>1 DEF OInv, OrderInv, SshKnows
<1> QED BY <1>1, OInvAlways, PTL
==============================================================================
