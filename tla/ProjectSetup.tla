---------------------------- MODULE ProjectSetup ----------------------------
(***************************************************************************)
(* What create does in a Google project before it makes a disk: the first  *)
(* time, enable the Compute API, make a service account, grant it a role,  *)
(* let the user impersonate it, wait until that has taken effect, and      *)
(* remember it in ~/.hermit/service-accounts; every time, check its access *)
(* to the docker image, and the firewall rule that lets tunnels in.  With  *)
(* --service-account only the checks are made.  Every gcloud call is a     *)
(* step.  A session is one run of create.                                  *)
(***************************************************************************)
EXTENDS ImageName

CONSTANTS
  Sessions,
  Accounts,     \* service accounts, numbered in the order they are made
  Given,        \* service accounts of the users' own, for --service-account
  NoAccount,    \* no file
  Empty,        \* a file that was opened for writing
  Images,       \* the docker images users create environments for
  MaxAttempts,  \* attempts of a call that is retried
  MaxFaults     \* bound on sessions that die, calls that fail, access refused

ASSUME NullsAssumption ==
  /\ Accounts \subseteq Nat
  /\ NoAccount \notin Accounts /\ Empty \notin Accounts /\ Empty # NoAccount
  /\ Given \intersect (Accounts \union {NoAccount, Empty}) = {}
ASSUME ImagesAssumption == Images \subseteq Names
ASSUME BoundsAssumption == MaxAttempts \in Nat \ {0} /\ MaxFaults \in Nat

VARIABLES
  image,     \* the docker image that users create environments for
  readable,  \* the names for which the registry lets the accounts read an image
  file,      \* what ~/.hermit/service-accounts/<project> has
  account,   \* how far each service account is set up
  api,       \* whether the Compute API is enabled
  network,   \* whether the default network exists
  firewall,  \* the rule for tunnels: "none", "right", or "wrong" if edited
  volumes,   \* the accounts of the sessions that went on to make a disk
  session,
  faults

registry == <<image, readable>>
cloud == <<registry, account, api, network, firewall>>
vars == <<registry, file, account, api, network, firewall, volumes, session, faults>>

\* An account may act for the user once the binding is effective.
Stages == <<"absent", "made", "editor", "bound", "effective">>
StageNames == {Stages[i] : i \in 1 .. 5}

Idle == [pc |-> "idle", account |-> NoAccount, tries |-> 0]
Pcs == {"find account", "enable", "make network", "make account", "grant", "bind",
        "await binding", "open file", "write file", "read again", "check access",
        "list rules", "make rule", "make volume"}

AllAccounts == Accounts \union Given

\* What the registry is asked for.
Requested == [n \in Images |-> Parse(Text(n))]

\* Whether the user may act as an account of their own was settled before.
Init ==
  /\ image \in Images
  /\ readable \in SUBSET {image, Requested[image]}
  /\ file = NoAccount
  /\ account \in [AllAccounts -> {"absent", "effective"}]
  /\ \A a \in Accounts : account[a] = "absent"
  /\ api \in BOOLEAN
  /\ network \in {n \in BOOLEAN : n => api}
  /\ firewall \in {f \in {"none", "right"} : f # "none" => network}
  /\ volumes = {}
  /\ session = [s \in Sessions |-> Idle]
  /\ faults = 0

----------------------------------------------------------------------------
(* Steps of a session.                                                     *)

At(s, pc) == session[s].pc = pc
Acc(s) == session[s].account

Goto(s, pc) ==
  session' = [session EXCEPT ![s] =
    IF pc = "idle" THEN Idle ELSE [@ EXCEPT !.pc = pc, !.tries = 0]]

\* The user gets an access token for the account.
CanImpersonate(a) == a \in AllAccounts /\ account[a] = "effective"

Fault == faults < MaxFaults /\ faults' = faults + 1

\* The session is about this account from now on.
With(s, a, pc) == session' = [session EXCEPT ![s] = [pc |-> pc, account |-> a, tries |-> 0]]

\* With --service-account nothing is set up.
Begin(s) ==
  /\ At(s, "idle")
  /\ \/ Goto(s, "find account")
     \/ \E a \in Given : With(s, a, "check access")
  /\ UNCHANGED <<file, cloud, volumes, faults>>

\* The file is read as it is; only if there is none is an account made.
FindAccount(s) ==
  /\ At(s, "find account")
  /\ IF file = NoAccount THEN Goto(s, "enable") ELSE With(s, file, "check access")
  /\ UNCHANGED <<file, cloud, volumes, faults>>

Enable(s) ==
  /\ At(s, "enable")
  /\ api' = TRUE
  /\ Goto(s, "make network")
  /\ UNCHANGED <<registry, file, account, network, firewall, volumes, faults>>

\* _retry_on_gcloud_error: that the network exists is not an error.
MakeNetwork(s) ==
  /\ At(s, "make network")
  /\ network' = TRUE
  /\ Goto(s, "make account")
  /\ UNCHANGED <<registry, file, account, api, firewall, volumes, faults>>

\* Mutant: an account that an earlier session has left is taken.
MakeAccountAgain(s) ==
  /\ At(s, "make account")
  /\ \E a \in Accounts :
       /\ account[a] \in {"absent", "made"}
       /\ account' = [account EXCEPT ![a] = "made"]
       /\ With(s, a, "grant")
  /\ UNCHANGED <<registry, file, api, network, firewall, volumes, faults>>

\* Its name is random: one that was given before does not come up again.
MakeAccount(s) ==
  /\ At(s, "make account")
  /\ \E a \in Accounts :
       /\ \A b \in Accounts : account[b] = "absent" <=> a <= b
       /\ account' = [account EXCEPT ![a] = "made"]
       /\ With(s, a, "grant")
  /\ UNCHANGED <<registry, file, api, network, firewall, volumes, faults>>

\* A call about the session's account that moves it from one stage to the next.
Sets(s, from, to) ==
  /\ account[Acc(s)] = from
  /\ account' = [account EXCEPT ![Acc(s)] = to]
  /\ UNCHANGED <<registry, file, api, network, firewall, volumes, faults>>

\* _perform_grants
Grant(s) == At(s, "grant") /\ Sets(s, "made", "editor") /\ Goto(s, "bind")

\* Mutant: nobody waits for the binding.
BindOnly(s) == At(s, "bind") /\ Sets(s, "editor", "bound") /\ Goto(s, "open file")

Bind(s) == At(s, "bind") /\ Sets(s, "editor", "bound") /\ Goto(s, "await binding")

\* Permissions are eventually consistent.
TakesEffect(a) ==
  /\ account[a] = "bound"
  /\ account' = [account EXCEPT ![a] = "effective"]
  /\ UNCHANGED <<registry, file, api, network, firewall, volumes, session, faults>>

AwaitBinding(s) ==
  /\ At(s, "await binding") /\ CanImpersonate(Acc(s))
  /\ Goto(s, "open file")
  /\ UNCHANGED <<file, cloud, volumes, faults>>

\* Opening the file for writing empties it.
OpenFile(s) ==
  /\ At(s, "open file")
  /\ file' = Empty
  /\ Goto(s, "write file")
  /\ UNCHANGED <<cloud, volumes, faults>>

WriteFile(s) ==
  /\ At(s, "write file")
  /\ file' = Acc(s)
  /\ Goto(s, "read again")
  /\ UNCHANGED <<cloud, volumes, faults>>

\* get_or_create returns what the file has now, by whomever.
ReadAgain(s) ==
  /\ At(s, "read again")
  /\ With(s, file, "check access")
  /\ UNCHANGED <<file, cloud, volumes, faults>>

\* Mutant: the answer is looked at only later.
CheckAccessLenient(s) ==
  /\ At(s, "check access")
  /\ Goto(s, "list rules")
  /\ UNCHANGED <<file, cloud, volumes, faults>>

\* The token of the account is asked for first: an account that is not there,
\* or a name that is empty, fails the assertion on the answer.  Then the
\* registry is asked for the image, as its name was parsed: any answer but 200
\* ends the session.
CheckAccess(s) ==
  /\ At(s, "check access")
  /\ Goto(s, IF CanImpersonate(Acc(s)) /\ Requested[image] \in readable
             THEN "list rules" ELSE "idle")
  /\ UNCHANGED <<file, cloud, volumes, faults>>

\* A rule that is not as it should be fails an assertion; without the API the
\* rules cannot be listed.
ListRules(s) ==
  /\ At(s, "list rules")
  /\ Goto(s, CASE api /\ firewall = "none" -> "make rule"
               [] api /\ firewall = "right" -> "make volume"
               [] OTHER -> "idle")
  /\ UNCHANGED <<file, cloud, volumes, faults>>

\* A rule has to be new, and is of a network.
MakeRule(s) ==
  /\ At(s, "make rule")
  /\ IF network /\ firewall = "none"
     THEN firewall' = "right" /\ Goto(s, "make volume")
     ELSE UNCHANGED firewall /\ Goto(s, "idle")
  /\ UNCHANGED <<registry, file, account, api, network, volumes, faults>>

\* The rest of create (Lifecycle.tla).
MakeVolume(s) ==
  /\ At(s, "make volume")
  /\ volumes' = volumes \union {Acc(s)}
  /\ Goto(s, "idle")
  /\ UNCHANGED <<file, cloud, faults>>

----------------------------------------------------------------------------
(* What goes wrong.                                                        *)

Retried == {"make network", "grant"}

\* A retried call fails for a while, or for good.
CallFails(s) ==
  /\ session[s].pc \in Retried
  /\ Fault
  /\ IF session[s].tries + 1 < MaxAttempts
     THEN session' = [session EXCEPT ![s].tries = @ + 1]
     ELSE Goto(s, "idle")
  /\ UNCHANGED <<file, cloud, volumes>>

\* Any other call fails, or its answer is no; the wait of two minutes for the
\* binding is over; Ctrl-C.
Ends(s) ==
  /\ ~At(s, "idle")
  /\ Fault
  /\ Goto(s, "idle")
  /\ UNCHANGED <<file, cloud, volumes>>

\* An administrator edits the rule.
EditRule ==
  /\ firewall = "right"
  /\ Fault
  /\ firewall' = "wrong"
  /\ UNCHANGED <<registry, file, account, api, network, volumes, session>>

----------------------------------------------------------------------------
Proceed(s) ==
  \/ FindAccount(s) \/ Enable(s) \/ MakeNetwork(s) \/ MakeAccount(s) \/ Grant(s)
  \/ Bind(s) \/ AwaitBinding(s) \/ OpenFile(s) \/ WriteFile(s) \/ ReadAgain(s)
  \/ CheckAccess(s) \/ ListRules(s) \/ MakeRule(s) \/ MakeVolume(s)

Next ==
  \/ \E s \in Sessions : Begin(s) \/ Proceed(s) \/ CallFails(s) \/ Ends(s)
  \/ \E a \in Accounts : TakesEffect(a)
  \/ EditRule

Spec == Init /\ [][Next]_vars

\* Sessions go on, and bindings take effect.
Fairness ==
  /\ \A s \in Sessions : WF_vars(Proceed(s))
  /\ \A a \in Accounts : WF_vars(TakesEffect(a))

FairSpec == Spec /\ Fairness

----------------------------------------------------------------------------
(* What is to hold.                                                        *)

\* What the file has, and what a session is about.
Files == AllAccounts \union {NoAccount, Empty}

TypeOK ==
  /\ image \in Images /\ readable \subseteq {image, Requested[image]}
  /\ file \in Files
  /\ account \in [AllAccounts -> StageNames]
  /\ api \in BOOLEAN /\ network \in BOOLEAN
  /\ firewall \in {"none", "right", "wrong"}
  /\ volumes \subseteq Files
  /\ session \in [Sessions -> {Idle} \union
       [pc : Pcs, account : Files, tries : 0 .. MaxAttempts - 1]]
  /\ faults \in 0 .. MaxFaults

\* An account is remembered only when it can be used: whatever session wrote
\* it, and whatever sessions died, it has its role and the user may act as it.
RememberedIsReady == file \in AllAccounts => CanImpersonate(file)

\* A disk is made only in a project where its environment can come up: the
\* account of its instances works, there is a network, and a rule lets tunnels
\* in (unless an administrator undid it).
DisksAreReachable ==
  [][\A s \in Sessions :
       volumes' # volumes /\ At(s, "make volume") /\ ~At(s, "make volume")' =>
         /\ CanImpersonate(Acc(s))
         /\ network /\ firewall # "none"]_vars

\* An account that a session made and did not live to remember.
Leaked(a) ==
  /\ account[a] # "absent" /\ file # a
  /\ \A s \in Sessions : Acc(s) # a

\* A file that a session emptied and did not live to write.
Making == Pcs \ {"find account", "read again", "check access", "list rules",
                 "make rule", "make volume"}

Emptied == file = Empty /\ \A s \in Sessions : session[s].pc \notin Making

\* What a dead session leaves behind stays: an account nobody remembers, with
\* the rights it got, is not used by any create that is not told to; a file
\* without a name is not written again, and no create that reads it makes a
\* disk.
LeftoversStay ==
  [][/\ \A a \in Accounts : Leaked(a) => Leaked(a)'
     /\ Emptied => Emptied']_vars

\* "Tests to make sure that the given service account can read the
\* docker_image": of the images with plain names a create comes as far as its
\* disk only for one that can be read.  What the parser drops from another name
\* is not asked for: a create may get there though its image cannot be read.
PlainImagesAreReadable ==
  \A s \in Sessions : At(s, "make volume") /\ Plain(image) => image \in readable

\* Of the first creates in a project, however many at a time, one at least
\* gets as far as its disk, if the image has a plain name and can be read and
\* nothing goes wrong.
FirstCreatesDeliver ==
  \A s \in Sessions :
    At(s, "enable") ~> volumes # {} \/ faults > 0 \/ image \notin readable \/ ~Plain(image)

\* The same of every image, whatever its name.
ImagesAreReadable == \A s \in Sessions : At(s, "make volume") => image \in readable

\* test_parse_docker_image_name: the host of a name, up to the first slash, is
\* the registry that is asked.
HostsAreAsked ==
  [][\A s \in Sessions :
       At(s, "check access") /\ ~At(s, "check access")' => Requested[image].host = image.host]_vars
=============================================================================
