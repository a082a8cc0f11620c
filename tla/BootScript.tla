----------------------------- MODULE BootScript -----------------------------
(***************************************************************************)
(* The bootcmd of a machine: the shell script, made by up for the number   *)
(* of local SSDs in the config, that mounts /tmp and the home.  It runs    *)
(* when the machine boots, one command after the other; nothing tells the  *)
(* shell to stop at a command that fails.  The commands that only write to *)
(* the log are in Startup.tla.                                             *)
(***************************************************************************)
EXTENDS Naturals, SequencesExt

Points == {"/tmp", "local-ssd", "home"}

\* _format_and_mount_tmp
FormatAndMountTmp(dev) ==
  << <<"mkfs", dev>>, <<"mkdir", "local-ssd">>, <<"mount", dev>>,
     <<"mkdir", "tmp">>, <<"bind", "tmp">> >>

NoSsd(n) == IF n = 0 THEN << <<"bind", "/var/tmp">> >> ELSE << >>

Array(n) == << <<"mdadm", n>> >> \o FormatAndMountTmp("md0")

\* Mutant: the first of two SSDs is enough.
SsdsFirst(n) == IF n \in 1 .. 2 THEN FormatAndMountTmp("ssd") ELSE Array(n)

\* The test for one SSD has an else of its own, whatever the test for none.
Ssds(n) == IF n = 1 THEN FormatAndMountTmp("ssd") ELSE Array(n)

Tmp(n) == << <<"umount", "/tmp">> >> \o NoSsd(n) \o Ssds(n)

\* The home, on the disk that create has formatted.
Home == << <<"mkdir", "home">>, <<"mount", "pd">>, <<"mkdir", ".ssh">> >>

Bootcmd(n) == Tmp(n) \o << <<"fsck", "pd">> >> \o Home

Commands(n) == ToSet(Bootcmd(n))

----------------------------------------------------------------------------
(* The file systems of a machine while it boots: how many SSDs /dev/md0    *)
(* has, if it is there; which devices have a file system; what is mounted; *)
(* the directories made, each with the file system it is on; and which     *)
(* commands failed.  /mnt/disks is a small tmpfs.                          *)

\* Before the script: nothing on the SSDs is kept, and the disk of the home has
\* a file system or has not.
Unmounted(formatted) ==
  [array |-> 0, ext4 |-> IF formatted THEN {"pd"} ELSE {},
   mount |-> [p \in Points |-> IF p = "/tmp" THEN "tmpfs" ELSE "none"],
   dirs |-> {}, failed |-> {}]

Point(dev) == IF dev = "pd" THEN "home" ELSE "local-ssd"

\* The file system that files under a mount point are on.
Under(fs, p) == IF fs.mount[p] = "none" THEN "/mnt/disks" ELSE fs.mount[p]

\* Where mkdir makes a directory, and a bind mount finds it.
Dir(fs, name) ==
  CASE name = "tmp" -> <<"tmp", Under(fs, "local-ssd")>>
    [] name = ".ssh" -> <<".ssh", Under(fs, "home")>>
    [] OTHER -> <<name, "/mnt/disks">>

\* fsck looks for a file system.  mdadm refuses an array of no devices; "ssd" is there if it is asked for.
Can(fs, c) ==
  CASE c[1] = "mdadm" -> c[2] > 0
    [] c = <<"mkfs", "md0">> -> fs.array > 0
    [] c[1] = "fsck" -> c[2] \in fs.ext4
    [] c[1] = "mount" -> c[2] \in fs.ext4 /\ Dir(fs, Point(c[2])) \in fs.dirs
    [] c[1] = "bind" -> c[2] = "/var/tmp" \/ Dir(fs, c[2]) \in fs.dirs
    [] OTHER -> TRUE

Do(fs, c) ==
  CASE c[1] = "umount" -> [fs EXCEPT !.mount["/tmp"] = "none"]
    [] c[1] = "mount" -> [fs EXCEPT !.mount[Point(c[2])] = c[2]]
    [] c = <<"bind", "tmp">> -> [fs EXCEPT !.mount["/tmp"] = Under(fs, "local-ssd")]
    [] c = <<"bind", "/var/tmp">> -> [fs EXCEPT !.mount["/tmp"] = "/var/tmp"]
    [] c[1] = "mdadm" -> [fs EXCEPT !.array = c[2]]
    [] c[1] = "mkfs" -> [fs EXCEPT !.ext4 = @ \union {c[2]}]
    [] c[1] = "mkdir" -> [fs EXCEPT !.dirs = @ \union {Dir(fs, c[2])}]
    [] c[1] = "fsck" -> fs

\* Mutant: set -e.
StepStrict(fs, c, breaks) ==
  IF fs.failed # {} THEN fs
  ELSE IF Can(fs, c) /\ ~breaks THEN Do(fs, c) ELSE [fs EXCEPT !.failed = {c}]

\* A command that breaks fails although it could succeed: a bad SSD, a full disk.
Step(fs, c, breaks) ==
  IF Can(fs, c) /\ ~breaks THEN Do(fs, c)
  ELSE [fs EXCEPT !.failed = @ \union {c}]
=============================================================================
