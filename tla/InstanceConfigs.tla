--------------------------- MODULE InstanceConfigs ---------------------------
(***************************************************************************)
(* The files behind the instance configs: the directory                    *)
(* ~/.hermit/instances with one <name>.json per instance and the symbolic  *)
(* link default.json, and hermit's section of ~/.ssh/config.  A session    *)
(* reads the directory as a whole, may take minutes, and writes single     *)
(* files; nothing locks the directory.  What the commands do to the cloud  *)
(* meanwhile is Lifecycle.tla.                                             *)
(***************************************************************************)
EXTENDS Integers, FiniteSetsExt

CONSTANTS
  Names,        \* the instances' names
  Default,      \* the name "default"
  NoName,
  CreateNames,  \* the names users pass to create, Default perhaps among them
  FirstPort,    \* 3022, the first port find_unused_port gives away
  LastPort,     \* bound on the ports of one behaviour
  ChosenPorts,  \* the ports users pass as --local-port
  Sessions,
  Legacy,       \* whether a config of an older hermit may be there at first
  Overlap,      \* whether two sessions may be about one name
  MaxFaults     \* bound on the sessions that die

ASSUME NamesAssumption == Default \notin Names /\ NoName \notin Names \union {Default}
ASSUME CreateNamesAssumption == CreateNames \subseteq Names \union {Default}
ASSUME PortsAssumption ==
  /\ FirstPort \in Nat \ {0} /\ LastPort \in Nat /\ LastPort >= FirstPort
  /\ ChosenPorts \subseteq FirstPort .. LastPort
ASSUME SwitchesAssumption ==
  Legacy \in BOOLEAN /\ Overlap \in BOOLEAN /\ MaxFaults \in Nat

VARIABLES
  entry,    \* entry[n]: what <n>.json is in the directory
  ssh,      \* the <<name, port>> pairs of hermit's section in ~/.ssh/config
  session,  \* where each run of hermit is and what it remembers
  orderly,  \* whether users ran one command at a time, each to its end, and
            \* left the ports to hermit, since they began with no configs
  faults

vars == <<entry, ssh, session, orderly, faults>>
history == <<orderly, faults>>

All == Names \union {Default}
Ports == FirstPort .. LastPort

\* A directory entry.  A link has the name of its target; a file holds a
\* name and a port, and a legacy one holds no service account; a file that was
\* opened for writing is empty.
NoEntry == [kind |-> "none", name |-> NoName, port |-> 0, legacy |-> FALSE]
Empty == [kind |-> "empty", name |-> NoName, port |-> 0, legacy |-> FALSE]
Link(n) == [kind |-> "link", name |-> n, port |-> 0, legacy |-> FALSE]
File(n, p) == [kind |-> "file", name |-> n, port |-> p, legacy |-> FALSE]
LegacyFile(n, p) == [kind |-> "file", name |-> n, port |-> p, legacy |-> TRUE]

Steps == {"check name", "open config", "write config", "contact cloud", "list configs",
          "write ssh", "clear default", "set default", "drop default", "drop config"}
Idle == [pc |-> "idle", name |-> NoName, port |-> 0, hosts |-> {}]

\* The directory a user starts with: empty, or with one config of an older
\* hermit, which is the default or is not.
LegacyDirs ==
  {[[n \in All |-> NoEntry] EXCEPT ![m] = LegacyFile(m, FirstPort), ![Default] = e] :
      m \in Names, e \in {NoEntry} \union {Link(k) : k \in Names}}

Init ==
  /\ entry \in {[n \in All |-> NoEntry]} \union
       IF Legacy THEN {d \in LegacyDirs : d[Default] = NoEntry
                                            \/ d[d[Default].name] # NoEntry}
       ELSE {}
  /\ ssh = {}
  /\ session = [s \in Sessions |-> Idle]
  /\ orderly = (\A n \in All : entry[n] = NoEntry)
  /\ faults = 0

----------------------------------------------------------------------------
(* Reading the directory.                                                  *)

\* What opening <n>.json gives.  default.json is the only link there is, so
\* a link to a link is a link to itself and cannot be opened.
Config(n) == IF entry[n].kind = "link" THEN entry[entry[n].name] ELSE entry[n]

\* os.path.exists follows the link: a dangling one does not exist.
Exists(n) == Config(n).kind \in {"file", "empty"}

\* An empty file is no JSON.
Readable(n) == Config(n).kind = "file"

\* get_instance_config fails on a config without a service account,
\* get_min_instance_config does not.
Usable(n) == Readable(n) /\ ~Config(n).legacy

\* get_instance_names reads every file of the directory, default.json too,
\* and fails if one cannot be read.
Present == {n \in All : entry[n] # NoEntry}
Listable == \A n \in Present : Readable(n)
InstanceNames == {Config(n).name : n \in Present}

\* get_instance_configs then reads a file for each of the names.
AllUsable == Listable /\ \A n \in InstanceNames : Usable(n)
Hosts == {<<Config(n).name, Config(n).port>> : n \in InstanceNames}

\* Mutant of UnusedPort: counts the instances.
NextPort == FirstPort + Cardinality(InstanceNames)

\* find_unused_port
UnusedPort ==
  IF InstanceNames = {} THEN FirstPort
  ELSE 1 + Max({Config(n).port : n \in InstanceNames})

----------------------------------------------------------------------------
(* Steps of a session.                                                     *)

At(s, pc) == session[s].pc = pc

Goto(s, pc) ==
  session' = [session EXCEPT ![s] = IF pc = "idle" THEN Idle ELSE [@ EXCEPT !.pc = pc]]

Look(s, pc) == Goto(s, pc) /\ UNCHANGED <<entry, ssh, history>>

Begin(s, pc, n, p) ==
  /\ At(s, "idle")
  /\ Overlap \/ n \notin {session[t].name : t \in Sessions} \ {NoName}
  /\ session' = [session EXCEPT ![s] = [pc |-> pc, name |-> n, port |-> p, hosts |-> {}]]
  /\ UNCHANGED <<entry, ssh, faults>>

\* An orderly command begins when no other is running.
InTurn == orderly' = (orderly /\ \A t \in Sessions : At(t, "idle"))

\* create picks the port before anything else, unless it is given one.
BeginCreate(s, n) ==
  \/ AllUsable /\ UnusedPort \in Ports /\ Begin(s, "check name", n, UnusedPort) /\ InTurn
  \/ \E p \in ChosenPorts : Begin(s, "check name", n, p) /\ orderly' = FALSE

\* Mutant: the name may have a config already.
CheckNameNot(s) == At(s, "check name") /\ Look(s, "open config")

\* The assertion of create(); the disk is made and formatted after it.
CheckName(s) ==
  /\ At(s, "check name")
  /\ Look(s, IF Exists(session[s].name) THEN "idle" ELSE "open config")

\* The file that opening <n>.json for writing leads to.
Target(n) == IF entry[n].kind = "link" THEN entry[n].name ELSE n

\* open(..., "wt") goes through a link, and empties the file; a link that leads
\* to itself cannot be opened.
OpenConfig(s) ==
  LET target == Target(session[s].name)
  IN /\ At(s, "open config")
     /\ IF entry[target].kind = "link"
        THEN Look(s, "idle")
        ELSE /\ entry' = [entry EXCEPT ![target] = Empty]
             /\ Goto(s, "write config")
             /\ UNCHANGED <<ssh, history>>

\* A file that was unlinked since is written all the same, but not to the
\* directory.
Write(s, next) ==
  LET n == session[s].name
  IN /\ At(s, "write config")
     /\ entry' = [entry EXCEPT ![Target(n)] =
          IF @.kind \in {"empty", "file"} THEN File(n, session[s].port) ELSE @]
     /\ Goto(s, next)
     /\ UNCHANGED <<ssh, history>>

\* Mutant: create leaves ~/.ssh/config alone.
WriteConfigOnly(s) == Write(s, "clear default")

WriteConfig(s) == Write(s, "list configs")

\* Mutant: a config that cannot be read is not noticed.
BeginUpOnAnything(s, n) == Begin(s, "contact cloud", Config(n).name, Config(n).port) /\ InTurn

\* up takes the name from inside the config: "hermit up" may say "default".
BeginUp(s, n) ==
  Usable(n) /\ Begin(s, "contact cloud", Config(n).name, Config(n).port) /\ InTurn

\* The machine is started and the tunnel to it.
ContactCloud(s) == At(s, "contact cloud") /\ Look(s, "list configs")

BeginUpdateSsh(s) == Begin(s, "list configs", NoName, 0) /\ InTurn

\* update_ssh_config(get_instance_configs()), after which update_ssh is done
ListConfigs(s) ==
  /\ At(s, "list configs")
  /\ IF AllUsable
     THEN session' = [session EXCEPT ![s].pc = "write ssh", ![s].hosts = Hosts]
     ELSE Goto(s, "idle")
  /\ UNCHANGED <<entry, ssh, history>>

WriteSsh(s) ==
  /\ At(s, "write ssh")
  /\ ssh' = session[s].hosts
  /\ session' = [session EXCEPT ![s] =
       IF @.name = NoName THEN Idle ELSE [@ EXCEPT !.pc = "clear default", !.hosts = {}]]
  /\ UNCHANGED <<entry, history>>

\* set_default_instance_config: unlink what is there, then link.
ClearDefault(s) ==
  /\ At(s, "clear default")
  /\ entry' = IF Exists(Default) THEN [entry EXCEPT ![Default] = NoEntry] ELSE entry
  /\ Goto(s, "set default")
  /\ UNCHANGED <<ssh, history>>

\* os.symlink raises FileExistsError if default.json is still there.
SetDefault(s) ==
  /\ At(s, "set default")
  /\ entry' = IF entry[Default] = NoEntry
              THEN [entry EXCEPT ![Default] = Link(session[s].name)] ELSE entry
  /\ Goto(s, "idle")
  /\ UNCHANGED <<ssh, history>>

\* delete reads the minimal config; when it comes to delete_instance_config
\* the disk is gone.
BeginDelete(s, n) == Readable(n) /\ Begin(s, "drop default", Config(n).name, 0) /\ InTurn

\* Mutant: default.json is left as it is.
DropDefaultNot(s) == At(s, "drop default") /\ Look(s, "drop config")

\* Raises if the name is "default" or the default config cannot be used.
DropDefault(s) ==
  /\ At(s, "drop default")
  /\ \/ /\ session[s].name # Default /\ (Exists(Default) => Usable(Default))
        /\ entry' = IF Exists(Default) /\ Config(Default).name = session[s].name
                    THEN [entry EXCEPT ![Default] = NoEntry] ELSE entry
        /\ Goto(s, "drop config")
     \/ /\ session[s].name = Default \/ (Exists(Default) /\ ~Usable(Default))
        /\ Goto(s, "idle") /\ UNCHANGED entry
  /\ UNCHANGED <<ssh, history>>

\* The assertion that the file exists, then the unlink.
DropConfig(s) ==
  /\ At(s, "drop config")
  /\ entry' = [entry EXCEPT ![session[s].name] = NoEntry]
  /\ Goto(s, "idle")
  /\ UNCHANGED <<ssh, history>>

\* The session dies, or what it does to the cloud fails.
Interrupt(s) ==
  /\ ~At(s, "idle")
  /\ faults < MaxFaults /\ faults' = faults + 1
  /\ orderly' = FALSE
  /\ Goto(s, "idle")
  /\ UNCHANGED <<entry, ssh>>

Proceed(s) ==
  \/ CheckName(s) \/ OpenConfig(s) \/ WriteConfig(s) \/ ContactCloud(s) \/ ListConfigs(s)
  \/ WriteSsh(s) \/ ClearDefault(s) \/ SetDefault(s) \/ DropDefault(s) \/ DropConfig(s)

Start(s) ==
  \/ \E n \in CreateNames : BeginCreate(s, n)
  \/ \E n \in All : BeginUp(s, n) \/ BeginDelete(s, n)
  \/ BeginUpdateSsh(s)

Next == \E s \in Sessions : Start(s) \/ Proceed(s) \/ Interrupt(s)

Spec == Init /\ [][Next]_vars

----------------------------------------------------------------------------
(* What is to hold.                                                        *)

Entries ==
  {NoEntry, Empty} \union {Link(n) : n \in All}
    \union {File(n, p) : n \in All, p \in Ports}
    \union {LegacyFile(n, p) : n \in All, p \in Ports}

\* Types, and with them that only default.json is ever a link, and that only
\* update_ssh works without a name.
TypeOK ==
  /\ entry \in [All -> Entries]
  /\ \A n \in Names : entry[n].kind # "link"
  /\ ssh \subseteq All \X Ports
  /\ session \in [Sessions -> {Idle} \union
       [pc : Steps, name : All \union {NoName}, port : Ports \union {0},
        hosts : SUBSET (All \X Ports)]]
  /\ \A s \in Sessions :
       session[s].name = NoName => session[s].pc \in {"idle", "list configs", "write ssh"}
  /\ orderly \in BOOLEAN /\ faults \in 0 .. MaxFaults

\* default.json always leads to a config that can be read: if it did not, every
\* command that lists the directory (create, up, update_ssh, status) would fail
\* on it, and no command could remove it.
DefaultResolves == entry[Default].kind = "link" => Readable(Default)

\* A config that a create opened and did not live to write.
LeftEmpty(n) ==
  /\ entry[n] = Empty
  /\ \A s \in Sessions : ~(At(s, "write config") /\ session[s].name = n)

\* Once written, a config is not written again, whatever the link default
\* points to at that time: the port and the disk in it stay until delete.  One
\* that a dead session left empty stays as it is: no create, up or delete
\* writes it or takes it away, and while it is there none can list the configs.
ConfigsNotRewritten ==
  [][\A n \in Names :
       /\ entry[n].kind = "file" => entry'[n] \in {entry[n], NoEntry}
       /\ LeftEmpty(n) => LeftEmpty(n)']_vars

\* The instances that have a config.
Configs == {n \in Names : entry[n].kind = "file"}

\* No two instances have the same local port, on which the second tunnel could
\* not listen, if users run one command at a time and choose no ports.
PortsDistinct ==
  orderly => \A m, n \in Configs : m # n => entry[m].port # entry[n].port

\* Under the same conditions, when no command is running, ssh knows the port
\* of every instance there is a config for.
SshComplete ==
  orderly /\ (\A s \in Sessions : At(s, "idle")) =>
    \A n \in Configs : <<n, entry[n].port>> \in ssh

\* A session that comes to its end, and does not die there.
Completes(s) == At(s, "set default") /\ At(s, "idle")' /\ UNCHANGED faults

\* A create or an up that comes to its end leaves a config that can be read.
LeavesConfig ==
  [][\A s \in Sessions, n \in All :
       Completes(s) /\ session[s].name = n => Readable(n)']_vars

\* A delete that has deleted the disk and does not die deletes the config too
\* ("Deleting config").
DeleteForgets ==
  [][\A s \in Sessions :
       session[s].pc \in {"drop default", "drop config"} /\ At(s, "idle")'
         /\ UNCHANGED faults =>
           entry'[session[s].name] = NoEntry]_vars

\* "If not specified will attempt to pick a port after 3022": what is picked
\* is a port.
PicksAPort == AllUsable => UnusedPort \in Ports
=============================================================================
