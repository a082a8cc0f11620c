----------------------------- MODULE Environment -----------------------------
(***************************************************************************)
(* What hermit promises its user, with the cloud left out: an environment  *)
(* has a name, a home (the file system on a persistent disk) and may be    *)
(* online or not.  The README says it in two sentences: "hermit down"      *)
(* deletes the instance but the files on the disk remain, and only         *)
(* "hermit delete" destroys them.  Lifecycle.tla is the detailed           *)
(* specification that implements this one.                                 *)
(***************************************************************************)
CONSTANTS Names, Disks, NoDisk

VARIABLES
  known,   \* the disk the environment of that name lives on, or NoDisk
  home,    \* what a disk holds: "none", "blank" (nothing saved), "saved"
  online   \* the disk the running machine of that name uses, or NoDisk

vars == <<known, home, online>>

Init ==
  /\ known = [n \in Names |-> NoDisk]
  /\ home = [d \in Disks |-> "none"]
  /\ online = [n \in Names |-> NoDisk]

InUse(d) == \E n \in Names : online[n] = d

\* A blank home appears; no environment need know it yet.
Provision(d) ==
  /\ home[d] = "none"
  /\ home' = [home EXCEPT ![d] = "blank"]
  /\ UNCHANGED <<known, online>>

\* An existing home gets a name nobody has.
Register(n, d) ==
  /\ known[n] = NoDisk
  /\ home[d] # "none"
  /\ known' = [known EXCEPT ![n] = d]
  /\ UNCHANGED <<home, online>>

\* A known environment comes online, on its own home and nobody else's.
ComeUp(n) ==
  /\ known[n] \in Disks
  /\ online[n] = NoDisk
  /\ home[known[n]] # "none"
  /\ ~InUse(known[n])
  /\ online' = [online EXCEPT ![n] = known[n]]
  /\ UNCHANGED <<known, home>>

\* Going offline keeps the home.
GoDown(n) ==
  /\ online[n] # NoDisk
  /\ online' = [online EXCEPT ![n] = NoDisk]
  /\ UNCHANGED <<known, home>>

\* Work is saved only while the environment is online.
Save(n) ==
  /\ online[n] \in Disks
  /\ home' = [home EXCEPT ![online[n]] = "saved"]
  /\ UNCHANGED <<known, online>>

\* A home is destroyed only when somebody's environment lives there and
\* nobody is online on it.
Erase(d) ==
  /\ home[d] # "none"
  /\ ~InUse(d)
  /\ \E n \in Names : known[n] = d
  /\ home' = [home EXCEPT ![d] = "none"]
  /\ UNCHANGED <<known, online>>

\* A name is forgotten only after its home is gone: no orphaned home.
Forget(n) ==
  /\ known[n] \in Disks
  /\ home[known[n]] = "none"
  /\ known' = [known EXCEPT ![n] = NoDisk]
  /\ UNCHANGED <<home, online>>

Next ==
  \/ \E d \in Disks : Provision(d) \/ Erase(d)
  \/ \E n \in Names, d \in Disks : Register(n, d)
  \/ \E n \in Names : ComeUp(n) \/ GoDown(n) \/ Save(n) \/ Forget(n)

Spec == Init /\ [][Next]_vars
=============================================================================
