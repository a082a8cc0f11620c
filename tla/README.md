# A verification of hermit

`hermit` (broadinstitute/hermitcrab) gives its user a development environment on
Google Compute Engine: a persistent disk that holds `/home/ubuntu`, and, while
the environment is up, an instance that runs a docker container on that disk and
suspends itself when idle. This directory models the parts of hermit that keep
state, checks them with TLC on small instances, and proves some of what is
checked for every instance with TLAPS.

`PROJECT.json` has, for every definition, the source lines it models, for every
run its properties, and the list of hazards the properties are aimed at. Paths
below are relative to `src/`.

## The system

hermit is a command-line program without a daemon. Every command is a process of
its own that reads `~/.hermit/instances/<name>.json`, makes gcloud calls one
after the other, and writes a few local files. There are no locks, no
transactions and no journal: what an interrupted command has done stays done,
and two commands may run at a time.

| component | source | state | operations |
|---|---|---|---|
| instance configs | `hermitcrab/config.py` | one JSON file per instance; `default.json`, a symbolic link to one of them | write, read (strict and minimal), list, delete, set default |
| create | `hermitcrab/command/create.py` | the persistent disk; a temporary instance that formats it | check for a config, pick a port, make the disk, make the formatter, wait for TERMINATED, delete the formatter, write the config |
| up | `hermitcrab/command/up.py` | the machine | read the status; create, start, resume or leave; wait for sshd; tunnel; ssh config; default |
| down | `hermitcrab/command/down.py` | the machine | read the status; shut down by ssh; wait; delete the instance, keep the disk |
| delete | `hermitcrab/command/delete.py` | disk and config | ask; fail if an instance exists; delete the disk; delete the config |
| ssh config | `hermitcrab/ssh.py` | a section of `~/.ssh/config`; backups | remove the section, append the new one, replace the file if changed |
| tunnel | `hermitcrab/tunnel.py` | pid file, log file, a `start-iap-tunnel` child | start with retries, stop by SIGTERM, ask whether it runs |
| idle suspend | `hermitcrab/deploy_scripts/suspend_on_idle.py` | clock, byte count, count of failures | poll, suspend, power off |
| gcloud calls | `hermitcrab/gcp.py` | child processes | call, call with retries, poll a status, impersonate |
| project setup | `create_service_account.py`, `create.py:117-158`, `gcp.py:183-299` | service account, roles, APIs, firewall rule | create, grant, check access |
| cloud | not in the repository | disks and instances with their statuses | what the API accepts, transitions on its own |

How they interact: create writes the config that up, down and delete read. create
and up update the ssh section from *all* configs and set the default link.
delete removes config and link. The commands see instances only by polling
their status, while the instances change it by themselves: a formatter shuts
down when mkfs is done, a machine suspends itself or powers off.

What makes each part correct:

* **commands and cloud** — saved data survives everything but delete; an instance
  can always be found from a config; the formatter is nobody's machine; a config
  means there is a home; commands end; they deliver what they are for.
* **configs** — the default link resolves; a config is not rewritten; ports are
  distinct; the last command's instance is the default.
* **ssh config** — the user's lines are kept; one section; an update repeated
  changes nothing; what an update loses is in a backup.
* **tunnel** — at most one per instance, on its port, that a later command can
  find and stop. **idle suspend** — an active machine is not suspended, an idle
  one is, or is shut down in the end. **start-up** — up reports ready only if
  *this* boot's sshd runs. **project setup** — a failed setup can be repeated.

What is hard: interruption between any two steps; gcloud children that nobody
kills and whose request takes effect later (`gcp.py:137`); statuses that change
between a look and an act; waits with deadlines; checks made minutes before what
they guard; two processes on the same files.

## Modules

| module | models | extends / uses |
|---|---|---|
| `Environment` | abstract: known environments, homes, who is online | — |
| `Lifecycle` | create, up, down, delete against configs, disks and VMs | implements `Environment` |
| `InstanceConfigs` | the config directory, the default link, ports, the step from configs to the ssh section | — |
| `SshConfig` | the text of `~/.ssh/config`, its user, the backups | — |
| `Tunnel` | pid files, ports, processes; the parts of up and down about the tunnel | — |
| `IdleSuspend` | the poll loop on the machine, its two clocks | — |
| `BootScript` | the bootcmd of a machine as a function of the number of SSDs | — |
| `Startup` | the stages of a boot, the log over boots, the wait of up | `BootScript` |
| `ImageName` | how the name of a docker image is taken apart | — |
| `ProjectSetup` | the service account, its permissions and file, the firewall rule, the check of access | `ImageName` |
| `MC...` | the instances of a module for TLC: `MCLifecycle`, `MCInstanceConfigs`, `MCSshConfig`, `MCTunnel`, `MCIdleSuspend`, `MCStartup`, `MCProjectSetup` | the module, `TLC` |
| `LifecycleProofs` | types and saved data of `Lifecycle`, its invariants about machines and the refinement of `Environment`, proved | `Lifecycle`, `TLAPS` |
| `LifecycleLeftovers` | what dead commands leave behind, and that configs have homes, proved | `LifecycleProofs` |
| `InstanceConfigsProofs` | types, the default link, configs that stay as written, ports and the ssh section, proved | `InstanceConfigs`, `TLAPS` |
| `SshConfigProofs` | types, the one section, what updates keep and repeat, backups, proved | `SshConfig`, `TLAPS` |
| `TunnelProofs` | types, tunnels that are found, lead and are hung up, leftovers, proved | `Tunnel`, `TLAPS` |
| `IdleSuspendProofs` | types and the three safety properties of the poll loop, proved | `IdleSuspend`, `TLAPS` |
| `StartupProofs` | types, the mounts a bootcmd makes, what up reports, proved | `Startup`, `TLAPS` |
| `ProjectSetupProofs` | types, accounts that are ready, disks within reach, leftovers, names of images, proved | `ProjectSetup`, `TLAPS` |

Five modules divide one program between them. `Lifecycle` has the whole of each
command as the cloud sees it; `InstanceConfigs` has the same commands as the
config directory sees them; `Tunnel` and `Startup` put in place of one step of
`Lifecycle`'s up ("tunnel", `WaitForStart`) what that step is made of;
`ProjectSetup` is what create does before `Lifecycle` begins. Where one module
takes a fact from another it takes the weakest: machines in `Lifecycle` may
suspend themselves at any time, so nothing there depends on `IdleSuspend`.

### Environment

What the README promises, without the cloud: a home appears (`Provision`), gets a
name (`Register`), its environment comes online on it and on nothing else
(`ComeUp`), work is saved only then (`Save`), going offline keeps the home
(`GoDown`), a home is destroyed only if an environment names it and nobody is
online on it (`Erase`), and a name is forgotten only after its home is gone
(`Forget`).

### Lifecycle

`config[n]` is the `pd_name` in `<n>.json`; `disk[d]` says what a disk holds
(`absent`, `raw`, `ext4`, `data`: saved by the user); `vm[n]` is the instance of
that name with its status, its disk and its role, where a `formatter` is the
temporary instance of create and a `machine` what up creates. `session[s]` is one
run of the executable: `pc` names its next step, `name` and `pd` what it is about,
both read once at the beginning, as in the code.

Each gcloud call that changes the cloud is one step (`Call`): it takes effect if
the cloud accepts it (`Accepts`: instance or disk exists or not, disk not
attached, status fits) and otherwise raises and ends the command (`Refused`).
`FindDisk`, `FindVm`, `LookUp`, `LookDown`, `LookDelete` are the calls that only
look; the waits poll. `Deadline` is the timeout of a wait: create and up give up,
down goes on to delete the instance, as the handler of `TimeoutError` in
`down.py` does. `Interrupt` ends a session between any two steps; with `Linger`
its request may stay behind and be `Served` at any later time. `Boot`, `Halt`,
`Format`, `Suspended` are transitions of the cloud; `Suspend` and `PowerOff` are
what a machine or its user may do; `FormatFails` is an mkfs that fails, after
which the formatter shuts down all the same (the bootcmd does not look at it).
`UserWrites` is the user's work.

Abstracted: zones, projects, drive and machine types; the access check at the
start of up and create (its failure is the command that never began; it is in
`ProjectSetup`); the firewall rule; the tunnel. `WaitForStart` may be over as soon
as the machine runs, which is the earliest the log could say so.

### InstanceConfigs

`entry[n]` is the directory entry `<n>.json`: nothing, a file (with the name and
port inside it), a file of an older hermit without `service_account`, or a link.
`ssh` is the set of hosts with ports in hermit's section. Reads follow the link
(`Config`), `os.path.exists` does too (`Exists`), listing opens every file
(`Listable`) and `get_instance_configs` needs every one complete (`AllUsable`).
A session picks its port first, checks the name, opens the config minutes later
(through a link, if there is one), which empties it, writes it, lists all configs,
writes the section, unlinks the default and links it again; up takes the name from
*inside* the config; delete drops the link if it resolves to the instance, then the
file. Each of these is a step another session may come between, or death: a create
that dies between opening and writing leaves an empty config (`LeftEmpty`), which
makes every later listing fail.

### SshConfig

`text` is the sequence of lines and whether the last one lacks its newline, the data
`remove_section` and the newline rule tell apart; a marker counts only with its
newline, since the newline is part of `START_MARKER` and `END_MARKER`. An end marker
that lost it makes `content.index` raise (`Fails`). The user adds lines at either
end, may trim the last newline and may put it back. `backups` is by second, as the
file names are, so that the second backup of a second replaces the first. Two
variables are history: `written`, every line the user has ever written, and `hasty`,
whether such a second backup was made. What an update does to the user's lines is
said by their places (`UserPlaces`): `SameUserLines` asks for a map from the old
places to the new ones that keeps order and content and leaves none out. The rename
at the end makes the replacement atomic, so that an update is one step; that the
configs are read earlier is in `InstanceConfigs`.

### Tunnel

`pidfile[n]` is `<n>.pid`: no file, a pid, or `Garbled` while it is open and empty.
`proc[p]` is the process with pid `p`: free, a tunnel that is starting, listening
or dead (a child nobody has waited for), or a stranger; with the name it forwards
to, its parent, and whether it got SIGTERM. `machine[n]` is whether the sshd can be
reached. `session[s]` is a process of the user, which may run several commands: the
executable runs one, the tests run `up` and `down` in one process, and then the
tunnel is a child of the very process that stops it.

`Check`, `Stop`, `AwaitDeath` and `GiveUp` are `is_tunnel_running` and
`stop_tunnel`: the pid is read twice, a pid file that is empty makes `int` raise,
and the wait of ten seconds ends when `_check_procs` (`Reaped`) has waited for the
child, or when init has. `CheckPort`, `Spawn`, `SeeListening`, `Retry` and
`WaitTooLong` are `start_tunnel` under `retry_on_exception`; `OpenPidfile` and
`WritePid` are the two halves of writing the pid, between which a session may die.
`Connect` binds the port when `start-iap-tunnel` reaches the machine and
`CannotConnect` is its exit when it does not, or when the port is taken. The port
check may fail although nobody listens, because `bind` also fails while an earlier
connection lingers. `Interrupt` leaves the child running: it is the death of the
hermit process alone (a kill, a closed terminal that spares children); a Ctrl-C in
the terminal reaches the child too, which is `Interrupt` and then `Drop`. `Reboot`
keeps files and clears processes. `Strange` gives a pid that a file still names to
a program that has nothing to do with hermit, if `Reuse`. `delete` asks
`is_tunnel_running` as well, in its assertion: it reads what `Check` reads and
changes nothing.

### IdleSuspend

Time is counted in polls. `idle` is `time.time() - last_activity`; `sleep` is what
is left of `time.sleep`, which does not run while the machine is suspended; `quiet`
and `awake` are what no variable of the script knows: how long there was really no
traffic, how long the machine has been running. `unseen` says that the byte count
differs from `last_bytes_transmitted`. `Poll` is one pass through the loop;
`Suspend(suspended, result)` separates what happened from what gcloud reported, and
is followed by a sleep of the whole timeout; `Wake` counts a failure, calls
`shutdown --poweroff` after more than `MaxFails` (`CallShutdown`), and goes on
polling. The script ignores whether that call worked, so a call that fails only
means that the next failed suspend makes another; one that works is a `PowerOff`
about a minute later, whatever the script, or its user, is at by then (`shutdown`
says that one is due). `fails` counts up to the first failure that calls. `Traffic`,
`Resume`, `Boot`, `Restart` (systemd) and `SuspendedByOther` are the world. The byte
count itself is abstracted to whether it changed, since the code only compares it.

### BootScript and Startup

`BootScript` is the script that up generates for a number of SSDs (`Bootcmd`), and
what one of its commands does to the file systems (`Step`): a command fails if what
it needs is missing, or if it breaks without reason, and the shell goes on with the
next one. That is so of the bootcmd only: `hermit-setup.sh`, which starts docker and
sshd, runs under `set -ex`, and what fails in it is that the stage does not advance.
`Startup` has one instance with its `stage`; `ran` counts the commands of
this boot that are over, `broken` those that broke, and `log` is the set of lines
that matter in `/var/log/hermit.log`, to which every boot appends. `StartBoot`,
`RunBootcmd`, `StartSshd` and `RunSshd` are the parts of the cloud-config;
`RunBootcmd` runs one command, so that a suspend, a power-off, a reboot or a reading
by up may come between any two. up is `Look` (branching on the status), `ReadLog`
(`get_status_from_log` on what ssh returned), `ReadNothing` (an ssh that failed, for
whatever reason: `ignore_error`), `ReadTimesOut` (ten seconds,
`retries_on_timeout`) and `Pause`, where alone the deadline is looked at;
`HourOver` may happen before or after.

### ImageName and ProjectSetup

`ImageName` takes names as sequences of tokens, where `w` is a run of word
characters and `W` one with an upper-case letter in it, and follows the pattern of
`parse_docker_image_name` group by group. The pattern is a raw string with `\\.`:
host and port would need a backslash in the name, so no name has a host, and the path
is the first run of word characters and slashes, which ends at the first dot or colon.
The pattern is not anchored at its end, so what follows is dropped without a word:
the rest of a host or a path from its first dot on, the rest of a tag from its first
upper-case letter on, a digest.
`Names` with `Text` is the reference: what users mean by a name (a host with or
without port, a path with slashes and dots, a tag, a digest), and how they write it.
`Plain` are the names of Docker Hub of which nothing is dropped.

`ProjectSetup` is create from its first gcloud call to the disk. `account[a]` is how
far a service account has come: absent, made, editor (role granted), bound (the user
may impersonate it), effective (and Google agrees). `file` is
`~/.hermit/service-accounts/<project>`, which is emptied before it is written;
`firewall`, `network` and `api` belong to the project. Each gcloud call is a step of
a session; `Retried` are the two that `_retry_on_gcloud_error` repeats.
`CheckAccess` asks for a token of the account, then for the image under the name
that `Parse` gives (`Requested`), and goes on if and only if the registry says yes
to *that* name: `readable` are the names, of the one that is meant and the one that
is asked for, for which it does. `Given` are accounts of the users' own: with
`--service-account`, create begins at the check of access (`Begin`). `ListRules` and
`MakeRule` are `ensure_firewall_setup`. `TakesEffect`, `EditRule` and the faults are
the world. `volumes` are the accounts with which disks have been made.

## Runs

| run | question | bounds | states |
|---|---|---|---|
| `lifecycle_crash` | do crashes, failing mkfs and cut deadlines break the promise, and what do they leave? `TypeOK`, `MachinesAreManaged`, `FormattersAreUnmanaged`, `KeepsPromise` (refinement), `LeftoversStay` | 2 names, 2 disks in any naming, 2 sessions that keep apart, 2 faults | 42k |
| `lifecycle_faultless` | do commands end and deliver? `CommandsEnd`, `CreateDelivers`, `UpDelivers`, `DownDelivers`, `ConfigsHaveHomes` | the same, no faults, fair | 48k |
| `lifecycle_linger` | does a late request of a dead session format saved data? `HomesSurvive` | default naming, 1 fault, requests linger | 235k |
| `configs` | is the directory in order after commands one at a time, and with two at a time, one of which dies, beside an old config? `TypeOK`, `PortsDistinct`, `SshComplete`, `DefaultResolves`, `ConfigsNotRewritten` | 2 names, 2 sessions apart, 1 fault, ports 1–5 of which 1 and 4 are chosen by hand | 672k |
| `ssh` | does hermit keep to its section, and what happens if the last newline is missing? `OneSection`, `Idempotent`, `EndedLinesKept`, `Recoverable` | up to 2 user lines of 2 words at a time, 3 host sets, 2 seconds | 60k |
| `ssh_trimmed_lines` | the same: violates `UserLinesKept` | 3 user lines | — |
| `tunnel_sessions` | can tunnels be found and hung up, and what does a dead up leave? `Findable`, `DownHangsUp`, `LeftoversStay` | 2 names on one port, 2 sessions apart, 3 pids that are given again, 2 attempts, 1 crash or reboot | 2.3M |
| `tunnel_commands` | does a tunnel lead where up says, do commands end? `Leads`, `CommandsEnd`, `DownGoesOn` | 2 names on one port, 1 session, 3 pids, 2 attempts, 1 drop, fair | 22k |
| `idle` | is a used machine left alone and an idle one ended? `SuspendsQuiet`, `GraceAfterResume`, `LastResort`, `IdleEnds` | timeout 3 polls, 2 failures, clocks to 13, 3 events (failed calls of `shutdown` among them), fair | 179k |
| `startup` | is the machine set up, and does the wait of up say so and end? `HomeMounted`, `TmpOnSsds`, `FirstBootReady`, `FatalUntilDown`, `WaitEnds` | 3 boots, 0 to 3 SSDs, 1 broken command per boot, 1 retry, fair | 448k |
| `boot_no_ssd` | and without SSDs? violates `TmpOnVarTmp` | 2 boots | — |
| `setup` | may creates fail, die and meet while a project is set up? `RememberedIsReady`, `PlainImagesAreReadable`, `DisksAreReachable`, `LeftoversStay`, `FirstCreatesDeliver` | 2 sessions, 3 accounts and 1 of the user's own, 2 images, 2 attempts, 2 faults, fair; names of up to 3 words and 2 dots | 543k |

Why the bounds are enough.

* *Actors.* Two names and two disks give every relation between two environments:
  the same, different, each other's disk. A third session adds only more of what
  two already do, because a step involves one session and its surroundings. Two
  faults let a repair of the first be interrupted in its turn.
* *Counters that only compare with a limit*: 10 retries of an ssh and 10 attempts
  at a tunnel are 1 and 2, a timeout of 30 polls is 3, 10 failed suspends are 2:
  each limit is reached, passed by one where the code allows it, and reset on the
  way. `IdleSuspend`'s clocks stop at `Cap`, one more than the longest time any
  property compares with (`ClocksSuffice` in the proofs).
* *Ports* go from the first one on: five are as many as two instances and the
  ports chosen by hand can reach, and with 4 chosen the next one is the last. The
  tunnels of `tunnel_*` share one port because only then can they meet on it.
  `tunnel_sessions` has no drops and `tunnel_commands` no crashes; with both, the
  first has several times the states and nothing new to say, since what drops
  disturb is the wait of a session that sees it.
* *Pids*: three are one tunnel for each of two names and one that is given again.
  Behaviours in which a fourth process would start stop at `Spawn`; it is for this
  that `tunnel_commands`, which asks for progress, has one session, which needs no
  more.
* *Accounts*: two are one for each session, the third replaces one that a dead
  session has leaked. A create that would need a fourth, after two deaths, stops at
  `MakeAccount`; by then nothing is asked of its progress. The user's own account
  works in the run (`SettledInit`), since one that does not ends a create where a
  registry that says no does; and of the name that is meant and the name that is
  asked for, the registry has at most one: with
  both it answers creates as with the second.
* *Boots*: one to write the log, one that reads what the first has written, and
  one more. Three SSDs tell "all" from "the first two".
* *Lines*: two put lines before, after and between; `ssh_trimmed_lines` has three.
* *Names of images*: three words and two dots put a dot before, between and after
  the places at which the pattern stops; what it makes of names of any length is
  proved (`PlainNamesAreAsked`).

Symmetry is used only for safety, over names, disks, pids and sessions that the
configuration treats alike. `CHECK_DEADLOCK` is nowhere turned off: no model
stops.

Some properties say under which condition they are about the code: `PortsDistinct`
and `SshComplete` as long as commands came one after the other, none died and
hermit chose the ports (two creates at a time do take one port);
`GraceAfterResume` as long as only the script suspends the machine; `Findable`,
`DownHangsUp` and `Leads` until a session dies; `EndedLinesKept` for files whose
last line is ended; `Recoverable` unless two updates of one second both replaced the
file; `FirstBootReady` at the first boot of an instance; `PlainImagesAreReadable`
about plain names. Each of the conditions is necessary,
as the next section shows for most of them.

### What does not hold

Two runs show that the code does other than its comments say (`findings`):

* `ssh_trimmed_lines`, `hermitcrab/ssh.py:79`: if the last line of `~/.ssh/config`
  lacks its newline, the whole text is replaced by a newline instead of one being
  appended.
* `boot_no_ssd`, `hermitcrab/command/up.py:77`: without local SSDs (the default of
  `--local-ssd-count`) the branch for several runs too, and its last command, a
  bind mount that succeeds, hides `/var/tmp` behind a directory of the small
  file system at `/mnt/disks`.

The following configurations find properties violated that one might expect to
hold. They show where the conditions of the theorems and runs come from, and are
for whoever would lift these conditions; `tlc -config X.cfg MC<module>` repeats
them.

| configuration | property | what happens |
|---|---|---|
| `LifecycleOverlap.cfg` | `CreateNeverOverwrites` | two creates of one name, with different disks, both pass the check for a config |
| `ConfigsDefaultName.cfg` | `LeavesConfig` | a create of an instance called "default" ends without a config, because the link takes its place |
| `ConfigsLegacy.cfg` | `DeleteForgets` | a default config without `service_account` makes delete fail before the file is removed |
| `ConfigsTopPort.cfg` | `PicksAPort` | after a chosen port 65535 the next one is 65536 |
| `SshSameSecond.cfg` | `NothingLost` | an update that loses the user's lines backs them up; another one in the same second replaces that backup by the text without them |
| `TunnelKilled.cfg` | `StoppedMeansStopped` | an up that was killed leaves a tunnel that down does not know |
| `TunnelReuse.cfg` | `StopsOnlyTunnels` | after a reboot the pid of the last tunnel belongs to another program, which gets SIGTERM |
| `TunnelSamePort.cfg` | `Leads` | two ups of environments on one port at a time: one takes the other's listener for its own |
| `IdlePowerOff.cfg` | `PowerOffQuiet` | who comes back during the sleep after the last failed suspend, or in the minute after the call of `shutdown`, is powered off |
| `StartupStale.cfg` | `ReadyMeansListening` | at a second boot up is told "ready" by the log of the first |
| `SetupImageHosts.cfg` | `HostsAreAsked` | a name with a host is asked for at docker.io |
| `SetupUnreadImages.cfg` | `ImagesAreReadable` | a create passes the check for an image it cannot read, because another one was asked for and can be read |

`SshTypes.cfg` and `StartupTypes.cfg` check the type invariants of those two
modules, which are proved and are in no run; both pass.

### Assumptions about use

hermit has no locks. `Overlap = FALSE` says that users do not run two commands
about one name, or one disk, at a time; hermit does not enforce it. Without it
`HomesSurvive` and `ConfigsHaveHomes` do not hold, even without faults: a create
that stands still for hours between two calls while another command deletes and
makes again its disk formats the new one, and a `down` shuts down a formatter
half-way. These need a stall nobody would call use of the program, which is why
they are not findings. With two lingering requests `HomesSurvive` fails likewise;
one is harmless, which is what `lifecycle_linger` shows.

### Fairness

`FairSpec` assumes only weak fairness, of steps that nothing but the program or a
machine has to take:

* `Lifecycle`: of `Proceed(s)` (a command that can take a step takes it: hermit is
  a straight-line program between polls) and of `Advance(n)` (the cloud completes
  the transitions it has begun, a formatter finishes its bootcmd). Deadlines
  belong to `Proceed`, since time passes by itself. A deadline that expires while
  the instance is still on its way counts as a fault: it is 5 minutes (create,
  down) or 1 hour (up) against transitions of seconds.
* `Tunnel`: of `Proceed(s)`, and of `Advance(p)`: a gcloud process connects, exits
  with an error or obeys SIGTERM. Not of machines: a tunnel to one that never
  comes up fails and is retried to the last attempt.
* `IdleSuspend`: of the script, of time, and of a power-off that was called for.
  Not of gcloud: suspends may fail for ever. Calls of `shutdown` may fail as often as
  `MaxEvents` says, not for ever: without that an idle machine need not end.
* `Startup`: of up, and that an hour passes. Not of the machine, which may hang in
  any stage, nor of readings, which may all time out.
* `ProjectSetup`: of `Proceed(s)`, and that a binding takes effect in the end.

Nothing is assumed of users, of machines suspending themselves, or of faults.
`InstanceConfigs` and `SshConfig` state safety only.

## Proofs

The theorems hold for every value of the constants that satisfies the named
assumptions of the modules (that null values are outside their sets, that bounds are
numbers, that `ImageName` has at least one segment): names, disks, pids and sessions
need not even be finite sets. None is an axiom, and each is checked from the
definitions TLC runs.

### Commands and cloud

* `TypeCorrect`: `Spec => []TypeOK`, without further assumptions, so also with
  overlapping sessions and lingering requests. `TypeOK` is inductive. One step
  per action; what an accepted request does is the lemma `PerformType`, what a
  session's move does is `GotoType`, shared by all its actions.
* `SavedDataSurvives`: with `~Overlap` and `~Linger`, `Spec => HomesSurvive`, for
  any number of sessions, names, disks and faults. `HomesSurvive` is about steps
  and needs to know that a formatter never holds saved data; that is not
  inductive by itself. `HomeInv` adds what makes it so: sessions are about
  different names and disks (`Apart`), an attached disk exists and is attached
  once (`Attached`), and the disk that create is about to give to a formatter is
  the one it has just made, raw and unattached (`ReadyToFormat`). The lemma
  `Shapes` reduces the thirty actions to five shapes of a step, as far as disks,
  VMs and sessions see them: a session moves, a call is served, a command begins,
  a VM does something, nothing; each conjunct is then preserved by each shape.
* `MachinesManaged`, `FormattersUnmanaged`: under the same two conditions, the
  invariants `MachinesAreManaged` and `FormattersAreUnmanaged`. Neither says why
  it survives: create writes a config and delete forgets one, each long after it
  looked at the instance. `SessionInv` says what a session's look still tells it:
  the config it read is what it was (`ConfigRemembered`), a name it has found or
  made free of instances still is (`NameCleared`), the disk it made exists
  (`DiskMade`), the disk it deleted does not (`DiskGone`). `CommandInv` is `HomeInv`
  and `SessionInv`; the steps are again taken by their shape, where now a
  write to the config store is one of its own and create begins unlike the rest.
* `PromiseKept`: under the same conditions `Spec => KeepsPromise`, the refinement
  of `Environment`. A call that makes or deletes a disk, creates or deletes a
  machine, a write or removal of a config, and the user's work are each one step
  of `Environment`; all else is a stutter. `CommandInv` gives the guards of the
  abstract steps: `ConfigRemembered` that a machine comes up on its own home,
  `DiskGone` that a name is forgotten after its home, `FormattersAreHarmless` that
  mkfs is a stutter.
* `LeftoversStayForGood`: under the same conditions `Spec => LeftoversStay`, again
  from `CommandInv`. `OrphanStep` takes the disk of a dead create: a create that
  finds it ends (`FoundDisk`), a request is about the disk of its own session only
  (`PerformDisk`), and a command that works from a config does not have it.
  `HalfDeletedStep` takes the config of a dead delete: the only session that could
  forget it, or make its disk, still has what it read of it (`ConfigRemembered`).
* `HomesUntilFaults`: under the same conditions, `ConfigsHaveHomes` as long as there
  was no fault (a create whose wait is cut short writes no config, but a failing
  mkfs leaves one without a home). It needs that nobody else starts, stops or
  deletes a formatter. `HomesInv` is `CommandInv` and, while there was no fault,
  `HomesReady`: the disk a create has made is in no config (`FreshDisks`), two
  configs have two disks (`OwnHomes`), the formatter a create waits for is its own
  and stops only when the disk is formatted (`Formatting`), and from then on it is
  (`Formatted`).

The conditions are not for convenience: see "Assumptions about use".

### Config directory

* `TypeCorrect`: no assumptions on use. The type includes which entries may be
  links.
* `DefaultAlwaysResolves`, `ConfigsStayAsWritten`: if sessions are about different
  names and nobody creates "default" (`Separate`), for any number of sessions and
  any of them dying. `DInv` says of the directory that every file is about the name
  it has and that "default" is nothing or a link to a file that is there (`DirInv`),
  of sessions that they are `Apart`, and of a session between two steps what its
  look still tells: that the name it is about to write is free, that the file it is
  about to link to exists, that a link it left in place is not about the file it is
  about to remove (`SessionInv`). Interleaving enters in one place: a link set by
  another session while delete runs is about that other session's name, so it does
  not dangle. The second half of `ConfigsNotRewritten`, that a config left empty
  stays so, follows (`LeftStep`): nobody who looks at it goes on to write it.
* `PortsStayDistinct`, `SshStaysComplete`: if nobody creates "default", without
  assuming that users keep apart. Both are about directories as they are after
  commands one at a time (`orderly`), which is part of `OInv`: until the first
  overlap, death, old config or port chosen by hand, there is at most one session
  (`OneAtATime`), a create's port is greater than those of the configs, because they
  are still the ones it looked at (`FreshPort`), ports differ (`DistinctPorts`), and
  a config that is not in the ssh section is one the running command is about to
  list (`SshKnows`). That a set of ports has a greatest one is the only fact about
  numbers; it is taken from the theorem that the order of Nat is well-founded.

### ssh config

* `SshTextsTyped`, `OneSectionAlways`, `UpdatesAreIdempotent`, `EndedLinesStay`,
  `LossesRecoverable`: no assumptions, for any lines and any number of them. The
  invariant `SInv` is a shape (`Shaped`): the lines are the user's alone, or lines
  of the user's, one section, and lines of the user's (`Around`). It says where the
  markers are, so `Min` of their places is known, and what `RemoveSection` leaves
  is the two parts in a row (`UpdateShape`). The user's edits keep the shape
  because they are at the ends. For `EndedLinesStay` the lemma `UpdateKeeps` gives
  the map between the places of the user's lines before and after: the identity
  before the section, a shift after it. An update can fail, and `UpdatesAreIdempotent`
  says when: only if the user took the newline of hermit's own end marker
  (`FailsAtEnd`). An open last line is the case in which the old text goes.
  `LossesRecoverable` is what remains true there over any sequence of edits and
  updates: every line ever written is in the file or in a backup, until two updates
  of one second both replaced the file. The step (`RecoverableStep`) is the update:
  what was in the file goes into a backup that was empty, or nothing is replaced.

### Tunnels

* `LeftoversStayForGood`: no assumption at all. A stray pid is in no file and no
  session, and pids get into sessions only from files, or from `Spawn`, which takes
  one that is free.
* `TunnelsAreFindable`, `DownHangsUpFirst`: with `~Overlap`. `Findable` is not
  inductive: the pid file of a running tunnel must not be written by another up.
  `Known` adds that no two sessions are about one name (`Apart`), that a session
  that waits for a death waits for the process in its pid file (`Awaits`), and, until
  a session dies, that no tunnel to its name runs when a session is about to start
  one or to take the machine down, and none but its own while it waits to write the
  pid (`Hears`).
* `TunnelsLead`: with a single session (`Single`), as in `tunnel_commands`, and
  also with any number of them if they keep apart and no two environments share a
  port (`PortsDiffer`), which no run covers. In the second case `Known` is enough;
  in the first, where ports may be shared, `Undisturbed` says that every process
  that still connects was started by an up that waits for it (`Awaited`), and
  that between the check of the port and the pid nobody but the one just started
  listens on it (`Listens`). `TunnelSamePort.cfg` shows why there is no third
  case.

### Idle suspend

* `TypeCorrect`, `NeverInUse`, `ResumedStaysUp`: no assumptions. `NeverInUse` is from
  `Honest`, that unless traffic is unseen the script's clock is never ahead of the
  true quiet; `ResumedStaysUp` from `Rested`, that a machine the script suspended wakes
  with its whole sleep to go, which is why the clock that ran on in between does no
  harm.
* `PowersOffLast`: with `ClocksSuffice` (`Cap` is large enough), from `Counted`: the
  failures so far, and where in its next one the script is, bound the clock from
  below (`Due`). It is about the call of `shutdown`. What happens in the minute after
  it no property restricts, and `IdlePowerOff.cfg` shows.

### Start-up

* `StartupTyped`, `HomeIsMounted`, `TmpIsOnSsds`, `ReadyAtFirstBoot`: no
  assumptions, for any number of SSDs, boots and commands that break. What a
  bootcmd has done in the end is said for every prefix of it: `HomeSoFar(n, r, f)`
  and `TmpSoFar(n, r, f)` are what the file systems `f` have after `r` commands of
  the script for `n` SSDs, if none of those that matter has failed. `TmpAt` and
  `BootcmdAt` say which command is where, counted from the end, for every `n`;
  `StepDoes` and `StepChanges` what each does and leaves alone; `LateCommands` that
  none of those after the mount undoes it. A reboot begins the prefix again
  (`Anew`). `FirstListens`, with `Counted`, is what makes "ready" true at a first
  boot: a line in the log is then from this boot.
* `FatalIsFinal`: from the steps alone, since the log only grows until the instance
  is deleted.

### Project setup

* `TypeCorrect`, `AccountsReady`, `DisksReachable`, `LeftoversStayForGood`: no
  assumptions, with any number of creates at a time and any faults. `IInv` is the type,
  the property about the file, that a rule is there only if a network is
  (`Networked`), and what each session knows at its step (`Knows`): how far its account
  is, and past the check of access that the account works and that the registry has
  the name it was asked for. A create that reads the file again may get another
  session's account; `RememberedIsReady` is what makes this harmless.
* `PlainNamesAreAsked`: for words, dots and segments in any number, a name is taken
  apart as its user means it if *and only if* it is plain: every name with a host, a
  dot in the path, an upper-case letter in the tag or a digest is taken for another
  one. The run of tokens `RunFrom` chooses is determined by where it stops (`RunIs`),
  which for a path is the colon or the end (`SplitAtColon`); for the converse, what
  comes out of a run has only its tokens (`RunWithin`).
* `PlainImagesRead`: for any answers of the registry, a create that comes to its disk
  can read the image if its name is plain. It rests on both: the registry said yes
  (`Knows`), and it was asked for that image.

### Only model-checked

* Liveness: `CommandsEnd` (of `Lifecycle` and of `Tunnel`), `CreateDelivers`,
  `UpDelivers`, `DownDelivers`, `DownGoesOn`, `IdleEnds`, `WaitEnds` and
  `FirstCreatesDeliver`. Fairness and `ENABLED` are beyond the prover.
* The conditions of theorems that a run does without: `HomesSurvive` is proved
  without lingering requests and checked with one. The other way round, `Leads` is
  checked for one session and proved for several with ports of their own.
* Everything else the passing runs check is stated by a theorem. The two that
  `ssh_trimmed_lines` and `boot_no_ssd` refute are of course not.

What a fold or a recursive function computes for every input would be an induction
over data, which the prover does not have. Three forms of the models avoid it:
the text of the ssh config has a shape that each step keeps, so that the
induction is the one over behaviours; the bootcmd is run one command per step
instead of folded over; and extremes of sets (the greatest port, the first
marker, the longest run of tokens) are characterised by what bounds them.

## Not modelled

* `status` and `version` change nothing; what status reads of the directory is
  `Listable`.
* The table of assumptions (`config.py:65-88`), `delete_pid` (`tunnel.py`) and the
  subcommand of `create_service_account.py` (not registered in `main.py`) have no
  caller. What follows for the hosts of Google in `gcp.py:351-390` is not reached,
  as no host is ever matched.
* The rest of the cloud-config (`daemon.json`, the iptables rules, file modes,
  the units' text): constant text for other programs. That the script on the
  machine is restarted until its iptables chain exists is `Restart`.
* Logging, the parsing of JSON and of arguments, zones, projects and machine
  types: data that no property distinguishes.
* The recorded gcloud sessions and the tests (`tests/`), and the example image
  (`dockerimage/`), are read as documentation of use.

## What is left

* A module that composes `Lifecycle` with the directory of `InstanceConfigs` and
  the pid files of `Tunnel`: the partial failures of delete between config and
  disk, where today each module takes the other's step as one.
* `SshConfig` with the several system calls of an update, if the rename at its end
  should ever go.
