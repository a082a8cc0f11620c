---------------------------- MODULE StartupProofs ----------------------------
(***************************************************************************)
(* Proofs about Startup and BootScript, for any number of SSDs, boots,     *)
(* retries and commands that break.                                        *)
(***************************************************************************)
EXTENDS Startup, TLAPS

----------------------------------------------------------------------------
(* The commands of the bootcmd, one by one.                                *)

\* All there are, with n SSDs.
Sayings(n) ==
  { <<"umount", "/tmp">>, <<"bind", "/var/tmp">>, <<"mdadm", n>>,
    <<"mkfs", "ssd">>, <<"mkfs", "md0">>, <<"mkdir", "local-ssd">>,
    <<"mount", "ssd">>, <<"mount", "md0">>, <<"mkdir", "tmp">>, <<"bind", "tmp">>,
    <<"fsck", "pd">>, <<"mkdir", "home">>, <<"mount", "pd">>, <<"mkdir", ".ssh">> }

\* What a sequence holds that is two sequences, one after the other.
Joins(u, s, t) ==
  /\ Len(u) = Len(s) + Len(t)
  /\ \A i \in 1 .. Len(s) : u[i] = s[i]
  /\ \A i \in Len(s) + 1 .. Len(s) + Len(t) : u[i] = t[i - Len(s)]

LEMMA Joined ==
  ASSUME NEW S, NEW s \in Seq(S), NEW t \in Seq(S)
  PROVE  s \o t \in Seq(S) /\ Joins(s \o t, s, t)
  BY DEF Joins

LEMMA OneAt ==
  ASSUME NEW S, NEW c \in S
  PROVE  << c >> \in Seq(S) /\ Len(<< c >>) = 1 /\ << c >>[1] = c
  OBVIOUS

LEMMA ThreeAt ==
  ASSUME NEW S, NEW a \in S, NEW b \in S, NEW c \in S
  PROVE  /\ << a, b, c >> \in Seq(S) /\ Len(<< a, b, c >>) = 3
         /\ << a, b, c >>[1] = a /\ << a, b, c >>[2] = b /\ << a, b, c >>[3] = c
  OBVIOUS

LEMMA FiveAt ==
  ASSUME NEW S, NEW a \in S, NEW b \in S, NEW c \in S, NEW d \in S,
         NEW e \in S
  PROVE  /\ << a, b, c, d, e >> \in Seq(S) /\ Len(<< a, b, c, d, e >>) = 5
         /\ << a, b, c, d, e >>[1] = a /\ << a, b, c, d, e >>[2] = b
         /\ << a, b, c, d, e >>[3] = c /\ << a, b, c, d, e >>[4] = d
         /\ << a, b, c, d, e >>[5] = e
  OBVIOUS

LEMMA FormatAt ==
  ASSUME NEW n, NEW dev \in {"ssd", "md0"}
  PROVE  /\ FormatAndMountTmp(dev) \in Seq(Sayings(n))
         /\ Len(FormatAndMountTmp(dev)) = 5
         /\ FormatAndMountTmp(dev)[1] = <<"mkfs", dev>>
         /\ FormatAndMountTmp(dev)[2] = <<"mkdir", "local-ssd">>
         /\ FormatAndMountTmp(dev)[3] = <<"mount", dev>>
         /\ FormatAndMountTmp(dev)[4] = <<"mkdir", "tmp">>
         /\ FormatAndMountTmp(dev)[5] = <<"bind", "tmp">>
<1>1. /\ <<"mkfs", dev>> \in Sayings(n) /\ <<"mkdir", "local-ssd">> \in Sayings(n)
      /\ <<"mount", dev>> \in Sayings(n) /\ <<"mkdir", "tmp">> \in Sayings(n)
      /\ <<"bind", "tmp">> \in Sayings(n)
  BY Zenon DEF Sayings
<1> QED BY <1>1, FiveAt, Zenon DEF FormatAndMountTmp

LEMMA HomeAt ==
  ASSUME NEW n
  PROVE  /\ Home \in Seq(Sayings(n))
         /\ Len(Home) = 3
         /\ Home[1] = <<"mkdir", "home">>
         /\ Home[2] = <<"mount", "pd">>
         /\ Home[3] = <<"mkdir", ".ssh">>
<1>1. <<"mkdir", "home">> \in Sayings(n) /\ <<"mount", "pd">> \in Sayings(n)
      /\ <<"mkdir", ".ssh">> \in Sayings(n)
  BY Zenon DEF Sayings
<1> QED BY <1>1, ThreeAt, Zenon DEF Home

\* How long the part for /tmp is, and what is in it where it matters.
Device(n) == IF n = 1 THEN "ssd" ELSE "md0"

LEMMA TmpAt ==
  ASSUME NEW n \in Nat
  PROVE  /\ Tmp(n) \in Seq(Sayings(n))
         /\ Len(Tmp(n)) = (IF n = 0 THEN 8 ELSE IF n = 1 THEN 6 ELSE 7)
         /\ Tmp(n)[1] = <<"umount", "/tmp">>
         /\ n = 0 => Tmp(n)[2] = <<"bind", "/var/tmp">>
         /\ n # 1 => Tmp(n)[Len(Tmp(n)) - 5] = <<"mdadm", n>>
         /\ Tmp(n)[Len(Tmp(n)) - 4] = <<"mkfs", Device(n)>>
         /\ Tmp(n)[Len(Tmp(n)) - 3] = <<"mkdir", "local-ssd">>
         /\ Tmp(n)[Len(Tmp(n)) - 2] = <<"mount", Device(n)>>
         /\ Tmp(n)[Len(Tmp(n)) - 1] = <<"mkdir", "tmp">>
         /\ Tmp(n)[Len(Tmp(n))] = <<"bind", "tmp">>
<1> DEFINE first == << <<"umount", "/tmp">> >>
           none == << <<"bind", "/var/tmp">> >>
           array == << <<"mdadm", n>> >>
           rest == FormatAndMountTmp(Device(n))
<1>1. /\ first \in Seq(Sayings(n)) /\ Len(first) = 1 /\ first[1] = <<"umount", "/tmp">>
      /\ none \in Seq(Sayings(n)) /\ Len(none) = 1 /\ none[1] = <<"bind", "/var/tmp">>
      /\ array \in Seq(Sayings(n)) /\ Len(array) = 1 /\ array[1] = <<"mdadm", n>>
  <2>1. /\ <<"umount", "/tmp">> \in Sayings(n) /\ <<"bind", "/var/tmp">> \in Sayings(n)
        /\ <<"mdadm", n>> \in Sayings(n)
    BY Zenon DEF Sayings
  <2> QED BY <2>1, OneAt, Zenon
<1>2. /\ rest \in Seq(Sayings(n)) /\ Len(rest) = 5
      /\ rest[1] = <<"mkfs", Device(n)>> /\ rest[2] = <<"mkdir", "local-ssd">>
      /\ rest[3] = <<"mount", Device(n)>> /\ rest[4] = <<"mkdir", "tmp">>
      /\ rest[5] = <<"bind", "tmp">>
  <2>1. Device(n) \in {"ssd", "md0"}
    BY DEF Device
  <2> QED BY <2>1, FormatAt, Zenon
<1>3. << >> \in Seq(Sayings(n)) /\ Len(<< >>) = 0
  OBVIOUS
<1>4. Tmp(n) = (first \o (IF n = 0 THEN none ELSE << >>))
                 \o (IF n = 1 THEN rest ELSE array \o rest)
  BY DEF Tmp, NoSsd, Ssds, Array, Device
<1> DEFINE begin == first \o none
           many == array \o rest
<1> HIDE DEF first, none, array, rest
<1>5. begin \in Seq(Sayings(n)) /\ Joins(begin, first, none)
  BY <1>1, Joined, Zenon
<1>6. many \in Seq(Sayings(n)) /\ Joins(many, array, rest)
  BY <1>1, <1>2, Joined, Zenon
<1>7. first \o << >> = first
  BY <1>1
<1>8. n = 0 => Tmp(n) = begin \o many
  BY <1>4
<1>9. n = 1 => Tmp(n) = first \o rest
  BY <1>4, <1>7
<1>10. n \notin {0, 1} => Tmp(n) = first \o many
  BY <1>4, <1>7
<1> HIDE DEF begin, many
<1> DEFINE tmp == Tmp(n)
<1>11. /\ n = 0 => tmp \in Seq(Sayings(n)) /\ Joins(tmp, begin, many)
       /\ n = 1 => tmp \in Seq(Sayings(n)) /\ Joins(tmp, first, rest)
       /\ n \notin {0, 1} => tmp \in Seq(Sayings(n)) /\ Joins(tmp, first, many)
  BY <1>1, <1>2, <1>5, <1>6, <1>8, <1>9, <1>10, Joined, Zenon
<1> HIDE DEF tmp
<1>12. /\ Len(many) = 6 /\ many[1] = array[1]
       /\ many[2] = rest[1] /\ many[3] = rest[2] /\ many[4] = rest[3]
       /\ many[5] = rest[4] /\ many[6] = rest[5]
  BY <1>1, <1>2, <1>6 DEF Joins
<1>13. Len(begin) = 2 /\ begin[1] = first[1] /\ begin[2] = none[1]
  BY <1>1, <1>5 DEF Joins
<1>14. Len(first) = 1 /\ Len(rest) = 5
  BY <1>1, <1>2
<1>15. CASE n = 0
  <2>1. Joins(tmp, begin, many)
    BY <1>11, <1>15
  <2>2. /\ Len(tmp) = 8 /\ tmp[1] = begin[1] /\ tmp[2] = begin[2]
        /\ tmp[3] = many[1] /\ tmp[4] = many[2] /\ tmp[5] = many[3]
        /\ tmp[6] = many[4] /\ tmp[7] = many[5] /\ tmp[8] = many[6]
    BY <1>12, <1>13, <2>1 DEF Joins
  <2>3. /\ tmp[1] = first[1] /\ tmp[2] = none[1] /\ tmp[Len(tmp) - 5] = array[1]
        /\ tmp[Len(tmp) - 4] = rest[1] /\ tmp[Len(tmp) - 3] = rest[2]
        /\ tmp[Len(tmp) - 2] = rest[3] /\ tmp[Len(tmp) - 1] = rest[4]
        /\ tmp[Len(tmp)] = rest[5]
        /\ tmp \in Seq(Sayings(n))
    BY <1>11, <1>12, <1>13, <1>15, <2>2
  <2>4. Len(Tmp(n)) = (IF n = 0 THEN 8 ELSE IF n = 1 THEN 6 ELSE 7)
    BY <1>15, <2>2 DEF tmp
  <2> QED BY <1>1, <1>2, <2>3, <2>4, Zenon DEF tmp
<1>16. CASE n = 1
  <2>1. Joins(tmp, first, rest)
    BY <1>11, <1>16
  <2>2. /\ Len(tmp) = 6 /\ tmp[1] = first[1]
        /\ tmp[2] = rest[1] /\ tmp[3] = rest[2] /\ tmp[4] = rest[3]
        /\ tmp[5] = rest[4] /\ tmp[6] = rest[5]
    BY <1>14, <2>1 DEF Joins
  <2>3. /\ n # 0 /\ tmp[1] = first[1]
        /\ tmp[Len(tmp) - 4] = rest[1] /\ tmp[Len(tmp) - 3] = rest[2]
        /\ tmp[Len(tmp) - 2] = rest[3] /\ tmp[Len(tmp) - 1] = rest[4]
        /\ tmp[Len(tmp)] = rest[5]
        /\ tmp \in Seq(Sayings(n))
    BY <1>11, <1>16, <2>2
  <2>4. Len(Tmp(n)) = (IF n = 0 THEN 8 ELSE IF n = 1 THEN 6 ELSE 7)
    BY <1>16, <2>2 DEF tmp
  <2> QED BY <1>1, <1>2, <1>16, <2>3, <2>4, Zenon DEF tmp
<1>17. CASE n \notin {0, 1}
  <2>1. Joins(tmp, first, many)
    BY <1>11, <1>17
  <2>2. /\ Len(tmp) = 7 /\ tmp[1] = first[1]
        /\ tmp[2] = many[1] /\ tmp[3] = many[2] /\ tmp[4] = many[3]
        /\ tmp[5] = many[4] /\ tmp[6] = many[5] /\ tmp[7] = many[6]
    BY <1>12, <1>14, <2>1 DEF Joins
  <2> QED BY <1>1, <1>2, <1>11, <1>12, <1>17, <2>2 DEF tmp
<1> QED BY <1>15, <1>16, <1>17

LEMMA BootcmdAt ==
  ASSUME NEW n \in Nat
  PROVE  /\ Len(Bootcmd(n)) = Len(Tmp(n)) + 4
         /\ Bootcmd(n) \in Seq(Sayings(n))
         /\ \A i \in 1 .. Len(Tmp(n)) : Bootcmd(n)[i] = Tmp(n)[i]
         /\ Bootcmd(n)[Len(Tmp(n)) + 1] = <<"fsck", "pd">>
         /\ Bootcmd(n)[Len(Tmp(n)) + 2] = <<"mkdir", "home">>
         /\ Bootcmd(n)[Len(Tmp(n)) + 3] = <<"mount", "pd">>
         /\ Bootcmd(n)[Len(Tmp(n)) + 4] = <<"mkdir", ".ssh">>
<1> DEFINE fsck == << <<"fsck", "pd">> >>
           tmp == Tmp(n)
           checked == tmp \o fsck
           all == checked \o Home
<1>1. fsck \in Seq(Sayings(n)) /\ Len(fsck) = 1 /\ fsck[1] = <<"fsck", "pd">>
  <2>1. <<"fsck", "pd">> \in Sayings(n)
    BY Zenon DEF Sayings
  <2> QED BY <2>1, OneAt, Zenon
<1>2. Bootcmd(n) = all
  BY DEF Bootcmd
<1> HIDE DEF fsck
<1>3. tmp \in Seq(Sayings(n)) /\ Len(tmp) \in Nat
  BY TmpAt
<1> HIDE DEF tmp
<1>4. checked \in Seq(Sayings(n)) /\ Joins(checked, tmp, fsck)
  BY <1>1, <1>3, Joined, Zenon
<1> HIDE DEF checked
<1>5. all \in Seq(Sayings(n)) /\ Joins(all, checked, Home)
  BY <1>4, HomeAt, Joined, Zenon
<1> HIDE DEF all
<1>6. Len(checked) = Len(tmp) + 1 /\ checked[Len(tmp) + 1] = fsck[1]
  BY <1>1, <1>3, <1>4 DEF Joins
<1>7. Len(Home) = 3
  BY HomeAt, Zenon
<1>8. /\ Len(all) = Len(tmp) + 4
      /\ \A i \in 1 .. Len(tmp) : all[i] = tmp[i]
      /\ all[Len(tmp) + 1] = fsck[1] /\ all[Len(tmp) + 2] = Home[1]
      /\ all[Len(tmp) + 3] = Home[2] /\ all[Len(tmp) + 4] = Home[3]
  <2>1. Len(fsck) = 1
    BY <1>1
  <2>2. \A i \in 1 .. Len(tmp) : all[i] = checked[i] /\ checked[i] = tmp[i]
    BY <1>3, <1>4, <1>5, <1>6, <1>7, <2>1 DEF Joins
  <2>3. /\ Len(all) = Len(tmp) + 4 /\ all[Len(tmp) + 1] = checked[Len(tmp) + 1]
        /\ all[Len(tmp) + 2] = Home[1]
        /\ all[Len(tmp) + 3] = Home[2] /\ all[Len(tmp) + 4] = Home[3]
    BY <1>3, <1>5, <1>6, <1>7 DEF Joins
  <2> QED BY <1>6, <2>2, <2>3
<1> QED BY <1>1, <1>2, <1>5, <1>8, HomeAt, Zenon DEF tmp

----------------------------------------------------------------------------
(* What the commands do to the file systems.                               *)

Devices == {"ssd", "md0", "pd"}
Places == Devices \union {"none", "tmpfs", "/var/tmp", "/mnt/disks"}
Directories == {"local-ssd", "tmp", "home", ".ssh"} \X Places

FileSystems(n) ==
  [array : {0, n}, ext4 : SUBSET Devices, mount : [Points -> Places],
   dirs : SUBSET Directories, failed : SUBSET Commands(n)]

LEMMA UnmountedTyped ==
  ASSUME NEW n \in Nat, NEW formatted \in BOOLEAN
  PROVE  Unmounted(formatted) \in FileSystems(n)
  BY DEF Unmounted, FileSystems, Devices, Places, Points

LEMMA DirTyped ==
  ASSUME NEW n \in Nat, NEW f \in FileSystems(n),
         NEW name \in {"local-ssd", "tmp", "home", ".ssh"}
  PROVE  Dir(f, name) \in Directories
<1>1. f.mount \in [Points -> Places]
  BY DEF FileSystems
<1>2. Under(f, "local-ssd") \in Places /\ Under(f, "home") \in Places
  BY <1>1 DEF Under, Points, Places
<1> QED BY <1>2 DEF Dir, Directories, Places

\* The ways in which a command changes them.
Mounted(f, p, d) == [f EXCEPT !.mount[p] = d]
Striped(f, n) == [f EXCEPT !.array = n]
Formatted(f, d) == [f EXCEPT !.ext4 = @ \union {d}]
Made(f, d) == [f EXCEPT !.dirs = @ \union {d}]
Failed(f, c) == [f EXCEPT !.failed = @ \union {c}]

\* Each command by itself.
LEMMA DoEach ==
  ASSUME NEW f, NEW n
  PROVE  /\ Do(f, <<"umount", "/tmp">>) = Mounted(f, "/tmp", "none")
         /\ Do(f, <<"bind", "/var/tmp">>) = Mounted(f, "/tmp", "/var/tmp")
         /\ Do(f, <<"bind", "tmp">>) = Mounted(f, "/tmp", Under(f, "local-ssd"))
         /\ Do(f, <<"mdadm", n>>) = Striped(f, n)
         /\ Do(f, <<"mkfs", "ssd">>) = Formatted(f, "ssd")
         /\ Do(f, <<"mkfs", "md0">>) = Formatted(f, "md0")
         /\ Do(f, <<"mkdir", "local-ssd">>) = Made(f, Dir(f, "local-ssd"))
         /\ Do(f, <<"mkdir", "tmp">>) = Made(f, Dir(f, "tmp"))
         /\ Do(f, <<"mkdir", "home">>) = Made(f, Dir(f, "home"))
         /\ Do(f, <<"mkdir", ".ssh">>) = Made(f, Dir(f, ".ssh"))
         /\ Do(f, <<"mount", "ssd">>) = Mounted(f, "local-ssd", "ssd")
         /\ Do(f, <<"mount", "md0">>) = Mounted(f, "local-ssd", "md0")
         /\ Do(f, <<"mount", "pd">>) = Mounted(f, "home", "pd")
         /\ Do(f, <<"fsck", "pd">>) = f
<1>1. /\ Do(f, <<"umount", "/tmp">>) = Mounted(f, "/tmp", "none")
      /\ Do(f, <<"bind", "/var/tmp">>) = Mounted(f, "/tmp", "/var/tmp")
      /\ Do(f, <<"bind", "tmp">>) = Mounted(f, "/tmp", Under(f, "local-ssd"))
  BY DEF Do, Mounted
<1>2. Do(f, <<"mdadm", n>>) = Striped(f, n)
  BY DEF Do, Striped
<1>3. /\ Do(f, <<"mkfs", "ssd">>) = Formatted(f, "ssd")
      /\ Do(f, <<"mkfs", "md0">>) = Formatted(f, "md0")
  BY DEF Do, Formatted
<1>4. /\ Do(f, <<"mkdir", "local-ssd">>) = Made(f, Dir(f, "local-ssd"))
      /\ Do(f, <<"mkdir", "tmp">>) = Made(f, Dir(f, "tmp"))
      /\ Do(f, <<"mkdir", "home">>) = Made(f, Dir(f, "home"))
      /\ Do(f, <<"mkdir", ".ssh">>) = Made(f, Dir(f, ".ssh"))
  BY DEF Do, Made
<1>5. /\ Do(f, <<"mount", "ssd">>) = Mounted(f, "local-ssd", "ssd")
      /\ Do(f, <<"mount", "md0">>) = Mounted(f, "local-ssd", "md0")
      /\ Do(f, <<"mount", "pd">>) = Mounted(f, "home", "pd")
  BY DEF Do, Point, Mounted
<1>6. Do(f, <<"fsck", "pd">>) = f
  BY DEF Do
<1> QED BY <1>1, <1>2, <1>3, <1>4, <1>5, <1>6

LEMMA MountChanged ==
  ASSUME NEW n, NEW f \in FileSystems(n), NEW p \in Points, NEW d \in Places
  PROVE  /\ Mounted(f, p, d) \in FileSystems(n)
         /\ Mounted(f, p, d).mount = [f.mount EXCEPT ![p] = d]
         /\ Mounted(f, p, d).array = f.array
         /\ Mounted(f, p, d).ext4 = f.ext4
         /\ Mounted(f, p, d).dirs = f.dirs
         /\ Mounted(f, p, d).failed = f.failed
  BY DEF FileSystems, Mounted

LEMMA ArrayChanged ==
  ASSUME NEW n, NEW f \in FileSystems(n)
  PROVE  /\ Striped(f, n) \in FileSystems(n)
         /\ Striped(f, n).mount = f.mount
         /\ Striped(f, n).array = n
         /\ Striped(f, n).ext4 = f.ext4
         /\ Striped(f, n).dirs = f.dirs
         /\ Striped(f, n).failed = f.failed
  BY DEF FileSystems, Striped

LEMMA Ext4Changed ==
  ASSUME NEW n, NEW f \in FileSystems(n), NEW d \in Devices
  PROVE  /\ Formatted(f, d) \in FileSystems(n)
         /\ Formatted(f, d).mount = f.mount
         /\ Formatted(f, d).array = f.array
         /\ Formatted(f, d).ext4 = f.ext4 \union {d}
         /\ Formatted(f, d).dirs = f.dirs
         /\ Formatted(f, d).failed = f.failed
  BY DEF FileSystems, Formatted

LEMMA DirsChanged ==
  ASSUME NEW n, NEW f \in FileSystems(n), NEW d \in Directories
  PROVE  /\ Made(f, d) \in FileSystems(n)
         /\ Made(f, d).mount = f.mount
         /\ Made(f, d).array = f.array
         /\ Made(f, d).ext4 = f.ext4
         /\ Made(f, d).dirs = f.dirs \union {d}
         /\ Made(f, d).failed = f.failed
  BY DEF FileSystems, Made

LEMMA FailedChanged ==
  ASSUME NEW n, NEW f \in FileSystems(n), NEW c \in Commands(n)
  PROVE  /\ Failed(f, c) \in FileSystems(n)
         /\ Failed(f, c).mount = f.mount
         /\ Failed(f, c).array = f.array
         /\ Failed(f, c).ext4 = f.ext4
         /\ Failed(f, c).dirs = f.dirs
         /\ Failed(f, c).failed = f.failed \union {c}
  BY DEF FileSystems, Failed

LEMMA CommandsKnown ==
  ASSUME NEW n \in Nat, NEW c \in Commands(n)
  PROVE  c \in Sayings(n)
<1>1. Bootcmd(n) \in Seq(Sayings(n))
  BY BootcmdAt, Zenon
<1>2. PICK i \in DOMAIN Bootcmd(n) : c = Bootcmd(n)[i]
  BY Zenon DEF Commands, ToSet
<1> DEFINE all == Bootcmd(n)
           some == Sayings(n)
<1>3. all \in Seq(some) /\ i \in DOMAIN all /\ c = all[i]
  BY <1>1, <1>2
<1> HIDE DEF all, some
<1>4. c \in some
  BY <1>3
<1> QED BY <1>4 DEF some

Binds == { <<"umount", "/tmp">>, <<"bind", "/var/tmp">>, <<"bind", "tmp">> }
SsdMounts == { <<"mount", "ssd">>, <<"mount", "md0">> }

\* What a command that succeeds changes, and what it leaves alone.
LEMMA DoChanges ==
  ASSUME NEW n \in Nat, NEW f \in FileSystems(n), NEW c \in Sayings(n)
  PROVE  /\ Do(f, c) \in FileSystems(n)
         /\ Do(f, c).failed = f.failed
         /\ f.ext4 \subseteq Do(f, c).ext4 /\ f.dirs \subseteq Do(f, c).dirs
         /\ Do(f, c).array \in {f.array, n}
         /\ f.mount["home"] = "pd" => Do(f, c).mount["home"] = "pd"
         /\ c \notin SsdMounts => Do(f, c).mount["local-ssd"] = f.mount["local-ssd"]
         /\ c \notin Binds => Do(f, c).mount["/tmp"] = f.mount["/tmp"]
<1>1. f.mount \in [Points -> Places]
  BY DEF FileSystems
<1>2. Under(f, "local-ssd") \in Places
  BY <1>1 DEF Under, Points, Places
<1>3. \A p \in Points, d \in Places :
        /\ Mounted(f, p, d) \in FileSystems(n)
        /\ Mounted(f, p, d).mount = [f.mount EXCEPT ![p] = d]
        /\ Mounted(f, p, d).array = f.array
        /\ Mounted(f, p, d).ext4 = f.ext4
        /\ Mounted(f, p, d).dirs = f.dirs
        /\ Mounted(f, p, d).failed = f.failed
  BY MountChanged, Zenon
<1>4. CASE c \in Binds
  <2>0. "none" \in Places /\ "/var/tmp" \in Places
    BY DEF Places
  <2>1. PICK d \in Places : Do(f, c) = Mounted(f, "/tmp", d)
    <3>1. /\ Do(f, <<"umount", "/tmp">>) = Mounted(f, "/tmp", "none")
          /\ Do(f, <<"bind", "/var/tmp">>) = Mounted(f, "/tmp", "/var/tmp")
          /\ Do(f, <<"bind", "tmp">>) = Mounted(f, "/tmp", Under(f, "local-ssd"))
      BY DoEach, Zenon
    <3>2. CASE c = <<"umount", "/tmp">>
      BY <2>0, <3>1, <3>2, Zenon
    <3>3. CASE c = <<"bind", "/var/tmp">>
      BY <2>0, <3>1, <3>3, Zenon
    <3>4. CASE c = <<"bind", "tmp">>
      BY <1>2, <3>1, <3>4, Zenon
    <3> QED BY <1>4, <3>2, <3>3, <3>4, Zenon DEF Binds
  <2>2. "/tmp" \in Points /\ "home" \in Points /\ "local-ssd" \in Points
    BY DEF Points
  <2>3. [f.mount EXCEPT !["/tmp"] = d]["home"] = f.mount["home"]
        /\ [f.mount EXCEPT !["/tmp"] = d]["local-ssd"] = f.mount["local-ssd"]
    BY <1>1, <2>2
  <2>4. /\ Do(f, c) \in FileSystems(n) /\ Do(f, c).failed = f.failed
        /\ Do(f, c).ext4 = f.ext4 /\ Do(f, c).dirs = f.dirs /\ Do(f, c).array = f.array
        /\ Do(f, c).mount = [f.mount EXCEPT !["/tmp"] = d]
    BY <1>3, <2>1, <2>2
  <2> QED BY <1>4, <2>3, <2>4
<1>5. CASE c \in SsdMounts \union {<<"mount", "pd">>}
  <2>1. PICK p \in {"local-ssd", "home"}, d \in Places :
          /\ Do(f, c) = Mounted(f, p, d)
          /\ p = "home" => d = "pd"
          /\ p # "home" => c \in SsdMounts
    <3>1. "ssd" \in Places /\ "md0" \in Places /\ "pd" \in Places /\ "local-ssd" # "home"
      BY DEF Places, Devices
    <3>2. /\ Do(f, <<"mount", "ssd">>) = Mounted(f, "local-ssd", "ssd")
          /\ Do(f, <<"mount", "md0">>) = Mounted(f, "local-ssd", "md0")
          /\ Do(f, <<"mount", "pd">>) = Mounted(f, "home", "pd")
      BY DoEach, Zenon
    <3>3. CASE c = <<"mount", "ssd">>
      <4>1. c \in SsdMounts
        BY <3>3, Zenon DEF SsdMounts
      <4> QED BY <3>1, <3>2, <3>3, <4>1, Zenon
    <3>4. CASE c = <<"mount", "md0">>
      <4>1. c \in SsdMounts
        BY <3>4, Zenon DEF SsdMounts
      <4> QED BY <3>1, <3>2, <3>4, <4>1, Zenon
    <3>5. CASE c = <<"mount", "pd">>
      BY <3>1, <3>2, <3>5, Zenon
    <3> QED BY <1>5, <3>3, <3>4, <3>5, Zenon DEF SsdMounts
  <2>2. p \in Points /\ "/tmp" \in Points /\ "home" \in Points /\ "local-ssd" \in Points
    BY DEF Points
  <2>3. /\ [f.mount EXCEPT ![p] = d]["/tmp"] = f.mount["/tmp"]
        /\ f.mount["home"] = "pd" => [f.mount EXCEPT ![p] = d]["home"] = "pd"
        /\ c \notin SsdMounts => [f.mount EXCEPT ![p] = d]["local-ssd"] = f.mount["local-ssd"]
    BY <1>1, <2>1, <2>2
  <2>4. /\ Do(f, c) \in FileSystems(n) /\ Do(f, c).failed = f.failed
        /\ Do(f, c).ext4 = f.ext4 /\ Do(f, c).dirs = f.dirs /\ Do(f, c).array = f.array
        /\ Do(f, c).mount = [f.mount EXCEPT ![p] = d]
    BY <1>3, <2>1, <2>2
  <2> QED BY <2>3, <2>4
<1>6. CASE c = <<"mdadm", n>>
  <2>1. Do(f, c) = Striped(f, n)
    BY <1>6, DoEach, Zenon
  <2>2. /\ Do(f, c) \in FileSystems(n) /\ Do(f, c).failed = f.failed
        /\ Do(f, c).ext4 = f.ext4 /\ Do(f, c).dirs = f.dirs /\ Do(f, c).array = n
        /\ Do(f, c).mount = f.mount
    BY <2>1, ArrayChanged
  <2> QED BY <2>2
<1>7. CASE c \in { <<"mkfs", "ssd">>, <<"mkfs", "md0">> }
  <2>1. PICK d \in Devices : Do(f, c) = Formatted(f, d)
    <3>1. "ssd" \in Devices /\ "md0" \in Devices
      BY DEF Devices
    <3>2. /\ Do(f, <<"mkfs", "ssd">>) = Formatted(f, "ssd")
          /\ Do(f, <<"mkfs", "md0">>) = Formatted(f, "md0")
      BY DoEach, Zenon
    <3> QED BY <1>7, <3>1, <3>2, Zenon
  <2>2. /\ Do(f, c) \in FileSystems(n) /\ Do(f, c).failed = f.failed
        /\ Do(f, c).ext4 = f.ext4 \union {d} /\ Do(f, c).dirs = f.dirs
        /\ Do(f, c).array = f.array /\ Do(f, c).mount = f.mount
    BY <2>1, Ext4Changed
  <2> QED BY <2>2
<1>8. CASE c \in { <<"mkdir", "local-ssd">>, <<"mkdir", "tmp">>, <<"mkdir", "home">>,
                   <<"mkdir", ".ssh">> }
  <2>1. PICK name \in {"local-ssd", "tmp", "home", ".ssh"} :
          Do(f, c) = Made(f, Dir(f, name))
    <3>1. /\ Do(f, <<"mkdir", "local-ssd">>) = Made(f, Dir(f, "local-ssd"))
          /\ Do(f, <<"mkdir", "tmp">>) = Made(f, Dir(f, "tmp"))
          /\ Do(f, <<"mkdir", "home">>) = Made(f, Dir(f, "home"))
          /\ Do(f, <<"mkdir", ".ssh">>) = Made(f, Dir(f, ".ssh"))
      BY DoEach, Zenon
    <3> QED BY <1>8, <3>1, Zenon
  <2>2. Dir(f, name) \in Directories
    BY DirTyped
  <2> DEFINE d == Dir(f, name)
  <2> HIDE DEF d
  <2>3. Do(f, c) = Made(f, d) /\ d \in Directories
    BY <2>1, <2>2 DEF d
  <2>4. /\ Do(f, c) \in FileSystems(n) /\ Do(f, c).failed = f.failed
        /\ Do(f, c).ext4 = f.ext4 /\ Do(f, c).dirs = f.dirs \union {d}
        /\ Do(f, c).array = f.array /\ Do(f, c).mount = f.mount
    BY <2>3, DirsChanged
  <2> QED BY <2>4
<1>9. CASE c = <<"fsck", "pd">>
  BY <1>9, DoEach
<1> QED BY <1>4, <1>5, <1>6, <1>7, <1>8, <1>9, Zenon DEF Sayings, Binds, SsdMounts

LEMMA StepChanges ==
  ASSUME NEW n \in Nat, NEW f \in FileSystems(n), NEW c \in Commands(n), NEW breaks \in BOOLEAN
  PROVE  /\ Step(f, c, breaks) \in FileSystems(n)
         /\ f.failed \subseteq Step(f, c, breaks).failed
         /\ f.ext4 \subseteq Step(f, c, breaks).ext4
         /\ f.dirs \subseteq Step(f, c, breaks).dirs
         /\ Step(f, c, breaks).array \in {f.array, n}
         /\ f.mount["home"] = "pd" => Step(f, c, breaks).mount["home"] = "pd"
         /\ c \notin SsdMounts =>
              Step(f, c, breaks).mount["local-ssd"] = f.mount["local-ssd"]
         /\ c \notin Binds => Step(f, c, breaks).mount["/tmp"] = f.mount["/tmp"]
         /\ c \notin Step(f, c, breaks).failed => Step(f, c, breaks) = Do(f, c)
<1>1. c \in Sayings(n)
  BY CommandsKnown
<1>2. CASE Can(f, c) /\ ~breaks
  <2>1. Step(f, c, breaks) = Do(f, c)
    BY <1>2 DEF Step
  <2> DEFINE g == Do(f, c)
  <2>2. /\ g \in FileSystems(n) /\ g.failed = f.failed
        /\ f.ext4 \subseteq g.ext4 /\ f.dirs \subseteq g.dirs /\ g.array \in {f.array, n}
        /\ f.mount["home"] = "pd" => g.mount["home"] = "pd"
        /\ c \notin SsdMounts => g.mount["local-ssd"] = f.mount["local-ssd"]
        /\ c \notin Binds => g.mount["/tmp"] = f.mount["/tmp"]
    BY <1>1, DoChanges
  <2>3. Step(f, c, breaks) = g
    BY <2>1
  <2> HIDE DEF g
  <2>4. g.failed = f.failed => f.failed \subseteq g.failed
    OBVIOUS
  <2> QED BY <2>1, <2>2, <2>3, <2>4
<1>3. CASE ~(Can(f, c) /\ ~breaks)
  <2>1. Step(f, c, breaks) = Failed(f, c)
    BY <1>3 DEF Step, Failed
  <2>2. /\ Failed(f, c) \in FileSystems(n) /\ Failed(f, c).failed = f.failed \union {c}
        /\ Failed(f, c).mount = f.mount /\ Failed(f, c).array = f.array
        /\ Failed(f, c).ext4 = f.ext4 /\ Failed(f, c).dirs = f.dirs
    BY FailedChanged
  <2> QED BY <2>1, <2>2
<1> QED BY <1>2, <1>3

\* What the commands achieve that matter later, if they succeed.
LEMMA StepDoes ==
  ASSUME NEW n \in Nat, NEW f \in FileSystems(n), NEW c \in Commands(n), NEW breaks \in BOOLEAN,
         c \notin Step(f, c, breaks).failed
  PROVE  /\ c = <<"mount", "pd">> => Step(f, c, breaks).mount["home"] = "pd"
         /\ c = <<"mount", "ssd">> => Step(f, c, breaks).mount["local-ssd"] = "ssd"
         /\ c = <<"mount", "md0">> => Step(f, c, breaks).mount["local-ssd"] = "md0"
         /\ c = <<"bind", "tmp">> =>
              Step(f, c, breaks).mount["/tmp"] = Under(f, "local-ssd")
         /\ c = <<"mdadm", n>> => Step(f, c, breaks).array = n
         /\ c = <<"mkdir", ".ssh">> => Dir(f, ".ssh") \in Step(f, c, breaks).dirs
<1>1. Step(f, c, breaks) = Do(f, c)
  BY StepChanges
<1>2. f.mount \in [Points -> Places]
  BY DEF FileSystems
<1>3. /\ "/tmp" \in Points /\ "home" \in Points /\ "local-ssd" \in Points
      /\ "ssd" \in Places /\ "md0" \in Places /\ "pd" \in Places
      /\ Under(f, "local-ssd") \in Places
  BY <1>2 DEF Points, Places, Devices, Under
<1>4. /\ Mounted(f, "home", "pd").mount["home"] = "pd"
      /\ Mounted(f, "local-ssd", "ssd").mount["local-ssd"] = "ssd"
      /\ Mounted(f, "local-ssd", "md0").mount["local-ssd"] = "md0"
      /\ Mounted(f, "/tmp", Under(f, "local-ssd")).mount["/tmp"] = Under(f, "local-ssd")
  <2>1. \A p \in Points, d \in Places :
          Mounted(f, p, d).mount = [f.mount EXCEPT ![p] = d]
    BY MountChanged
  <2>2. \A p \in Points, d \in Places : [f.mount EXCEPT ![p] = d][p] = d
    BY <1>2
  <2>3. \A p \in Points, d \in Places : Mounted(f, p, d).mount[p] = d
    BY <2>1, <2>2
  <2> QED BY <1>3, <2>3, Zenon
<1>5. Striped(f, n).array = n
  BY ArrayChanged
<1>6. Dir(f, ".ssh") \in Made(f, Dir(f, ".ssh")).dirs
  <2>1. Dir(f, ".ssh") \in Directories
    BY DirTyped
  <2>2. \A d \in Directories : d \in Made(f, d).dirs
    BY DirsChanged
  <2> QED BY <2>1, <2>2, Zenon
<1> QED BY <1>1, <1>4, <1>5, <1>6, DoEach, Zenon

----------------------------------------------------------------------------
(* What has been achieved after so many commands, unless one that belongs  *)
(* to it failed.                                                           *)

HomeSoFar(n, r, f) ==
  f.failed \intersect ToSet(Home) = {} =>
    /\ r >= Len(Tmp(n)) + 3 => f.mount["home"] = "pd"
    /\ r >= Len(Tmp(n)) + 4 => <<".ssh", "pd">> \in f.dirs

TmpSoFar(n, r, f) ==
  n > 0 /\ f.failed \intersect ToSet(Tmp(n)) = {} =>
    /\ n > 1 /\ r >= 2 => f.array = n
    /\ r >= Len(Tmp(n)) - 2 => f.mount["local-ssd"] = Device(n)
    /\ r >= Len(Tmp(n)) => f.mount["/tmp"] = Device(n)

LEMMA Lengths ==
  ASSUME NEW n \in Nat
  PROVE  /\ Len(Tmp(n)) \in Nat /\ Len(Tmp(n)) >= 6
         /\ Len(Bootcmd(n)) \in Nat /\ Len(Bootcmd(n)) = Len(Tmp(n)) + 4
<1> DEFINE t == Len(Tmp(n))
           b == Len(Bootcmd(n))
<1>1. t = (IF n = 0 THEN 8 ELSE IF n = 1 THEN 6 ELSE 7) /\ b = t + 4
  BY TmpAt, BootcmdAt, Zenon
<1> HIDE DEF t, b
<1>2. t \in Nat /\ t >= 6 /\ b \in Nat /\ b = t + 4
  BY <1>1
<1> QED BY <1>2 DEF t, b

LEMMA LateCommands ==
  ASSUME NEW n \in Nat, NEW i \in 1 .. Len(Bootcmd(n))
  PROVE  /\ i >= Len(Tmp(n)) - 1 => Bootcmd(n)[i] \notin SsdMounts
         /\ i > Len(Tmp(n)) => Bootcmd(n)[i] \notin Binds
<1> DEFINE t == Len(Tmp(n))
           b == Bootcmd(n)
<1>1. t \in Nat /\ t >= 6
  <2>1. t = (IF n = 0 THEN 8 ELSE IF n = 1 THEN 6 ELSE 7)
    BY TmpAt, Zenon
  <2> QED BY <2>1
<1>2. /\ Len(b) = t + 4
      /\ b[t + 1] = <<"fsck", "pd">> /\ b[t + 2] = <<"mkdir", "home">>
      /\ b[t + 3] = <<"mount", "pd">> /\ b[t + 4] = <<"mkdir", ".ssh">>
  BY BootcmdAt
<1>3. b[t - 1] = <<"mkdir", "tmp">> /\ b[t] = <<"bind", "tmp">>
  <2>1. Tmp(n)[t - 1] = <<"mkdir", "tmp">> /\ Tmp(n)[t] = <<"bind", "tmp">>
    BY TmpAt
  <2>2. \A j \in 1 .. t : b[j] = Tmp(n)[j]
    BY BootcmdAt
  <2>3. t - 1 \in 1 .. t /\ t \in 1 .. t
    BY <1>1
  <2> QED BY <2>1, <2>2, <2>3, Zenon
<1> HIDE DEF t, b
<1>4. i \in 1 .. t + 4
  BY <1>2 DEF b
<1>5. i >= t - 1 => i \in {t - 1, t, t + 1, t + 2, t + 3, t + 4}
  BY <1>1, <1>4
<1>6. i > t => i \in {t + 1, t + 2, t + 3, t + 4}
  BY <1>1, <1>4
<1>7. i >= t - 1 => b[i] \notin SsdMounts
  <2>1. <<"mkdir", "tmp">> \notin SsdMounts /\ <<"bind", "tmp">> \notin SsdMounts
        /\ <<"fsck", "pd">> \notin SsdMounts /\ <<"mkdir", "home">> \notin SsdMounts
        /\ <<"mount", "pd">> \notin SsdMounts /\ <<"mkdir", ".ssh">> \notin SsdMounts
    BY DEF SsdMounts
  <2> QED BY <1>2, <1>3, <1>5, <2>1, Zenon
<1>8. i > t => b[i] \notin Binds
  <2>1. /\ <<"fsck", "pd">> \notin Binds /\ <<"mkdir", "home">> \notin Binds
        /\ <<"mount", "pd">> \notin Binds /\ <<"mkdir", ".ssh">> \notin Binds
    BY DEF Binds
  <2> QED BY <1>2, <1>6, <2>1, Zenon
<1> QED BY <1>7, <1>8 DEF t, b

LEMMA HomeStep ==
  ASSUME NEW n \in Nat, NEW r \in 0 .. Len(Bootcmd(n)) - 1, NEW f \in FileSystems(n),
         NEW breaks \in BOOLEAN, HomeSoFar(n, r, f)
  PROVE  HomeSoFar(n, r + 1, Step(f, Bootcmd(n)[r + 1], breaks))
<1> DEFINE c == Bootcmd(n)[r + 1]
           g == Step(f, c, breaks)
           t == Len(Tmp(n))
<1>1. t \in Nat /\ Len(Bootcmd(n)) = t + 4 /\ c \in Commands(n)
  <2>1. Len(Bootcmd(n)) = t + 4 /\ t \in Nat /\ Bootcmd(n) \in Seq(Sayings(n))
    BY BootcmdAt, TmpAt
  <2>2. r + 1 \in DOMAIN Bootcmd(n)
    BY <2>1
  <2> QED BY <2>1, <2>2 DEF Commands, ToSet
<1>2. <<"mount", "pd">> \in ToSet(Home) /\ <<"mkdir", ".ssh">> \in ToSet(Home)
  <2>1. Home[2] = <<"mount", "pd">> /\ Home[3] = <<"mkdir", ".ssh">>
    BY HomeAt, Zenon
  <2>2. 2 \in DOMAIN Home /\ 3 \in DOMAIN Home
    BY HomeAt
  <2> QED BY <2>1, <2>2, Zenon DEF ToSet
<1>3. /\ f.failed \subseteq g.failed /\ f.dirs \subseteq g.dirs
      /\ f.mount["home"] = "pd" => g.mount["home"] = "pd"
  BY <1>1, StepChanges
<1> SUFFICES ASSUME g.failed \intersect ToSet(Home) = {}
             PROVE  /\ r + 1 >= t + 3 => g.mount["home"] = "pd"
                    /\ r + 1 >= t + 4 => <<".ssh", "pd">> \in g.dirs
  BY DEF HomeSoFar
<1>4. /\ r >= t + 3 => f.mount["home"] = "pd"
      /\ r >= t + 4 => <<".ssh", "pd">> \in f.dirs
  BY <1>3 DEF HomeSoFar
<1>5. CASE r = t + 2
  <2>1. c = <<"mount", "pd">>
    <3>1. Bootcmd(n)[t + 3] = <<"mount", "pd">>
      BY BootcmdAt, Zenon
    <3>2. r + 1 = t + 3
      BY <1>1, <1>5
    <3> QED BY <3>1, <3>2, Zenon
  <2>2. c \notin g.failed
    BY <1>2, <2>1
  <2>3. g.mount["home"] = "pd"
    BY <1>1, <2>1, <2>2, StepDoes
  <2> QED BY <1>1, <1>5, <2>3
<1>6. CASE r = t + 3
  <2>1. c = <<"mkdir", ".ssh">>
    <3>1. Bootcmd(n)[t + 4] = <<"mkdir", ".ssh">>
      BY BootcmdAt, Zenon
    <3>2. r + 1 = t + 4
      BY <1>1, <1>6
    <3> QED BY <3>1, <3>2, Zenon
  <2>2. c \notin g.failed
    BY <1>2, <2>1
  <2>3. f.mount["home"] = "pd"
    BY <1>1, <1>4, <1>6
  <2>4. Dir(f, ".ssh") = <<".ssh", "pd">>
    BY <2>3 DEF Dir, Under
  <2>5. Dir(f, ".ssh") \in g.dirs
    BY <1>1, <2>1, <2>2, StepDoes
  <2> QED BY <1>3, <2>3, <2>4, <2>5
<1>7. CASE r \notin {t + 2, t + 3}
  <2>1. r < t + 2
    BY <1>1, <1>7
  <2> QED BY <1>1, <2>1
<1> QED BY <1>5, <1>6, <1>7

LEMMA TmpStep ==
  ASSUME NEW n \in Nat, NEW r \in 0 .. Len(Bootcmd(n)) - 1, NEW f \in FileSystems(n),
         NEW breaks \in BOOLEAN, TmpSoFar(n, r, f)
  PROVE  TmpSoFar(n, r + 1, Step(f, Bootcmd(n)[r + 1], breaks))
<1> DEFINE c == Bootcmd(n)[r + 1]
           g == Step(f, c, breaks)
           t == Len(Tmp(n))
<1>1. /\ t \in Nat /\ t = (IF n = 0 THEN 8 ELSE IF n = 1 THEN 6 ELSE 7)
      /\ Len(Bootcmd(n)) = t + 4
  <2>1. t = (IF n = 0 THEN 8 ELSE IF n = 1 THEN 6 ELSE 7) /\ Len(Bootcmd(n)) = t + 4
    BY BootcmdAt, TmpAt, Zenon
  <2> QED BY <2>1
<1>2. c \in Commands(n)
  <2>1. Len(Bootcmd(n)) = t + 4 /\ t \in Nat /\ Bootcmd(n) \in Seq(Sayings(n))
    BY BootcmdAt, TmpAt
  <2>2. r + 1 \in DOMAIN Bootcmd(n)
    BY <2>1
  <2> QED BY <2>1, <2>2 DEF Commands, ToSet
<1>3. /\ f.failed \subseteq g.failed /\ g.array \in {f.array, n}
      /\ c \notin SsdMounts => g.mount["local-ssd"] = f.mount["local-ssd"]
      /\ c \notin Binds => g.mount["/tmp"] = f.mount["/tmp"]
  BY <1>2, StepChanges
<1>4. /\ r + 1 >= t - 1 => c \notin SsdMounts
      /\ r + 1 > t => c \notin Binds
  <2>1. r + 1 \in 1 .. Len(Bootcmd(n))
    BY <1>1
  <2> QED BY <2>1, LateCommands
<1> SUFFICES ASSUME n > 0, g.failed \intersect ToSet(Tmp(n)) = {}
             PROVE  /\ n > 1 /\ r + 1 >= 2 => g.array = n
                    /\ r + 1 >= t - 2 => g.mount["local-ssd"] = Device(n)
                    /\ r + 1 >= t => g.mount["/tmp"] = Device(n)
  BY DEF TmpSoFar
<1>5. /\ n > 1 /\ r >= 2 => f.array = n
      /\ r >= t - 2 => f.mount["local-ssd"] = Device(n)
      /\ r >= t => f.mount["/tmp"] = Device(n)
  BY <1>3 DEF TmpSoFar
<1>6. r + 1 <= t => c = Tmp(n)[r + 1] /\ c \notin g.failed
  <2> SUFFICES ASSUME r + 1 <= t PROVE c = Tmp(n)[r + 1] /\ c \notin g.failed
    OBVIOUS
  <2>1. r + 1 \in 1 .. t
    BY <1>1
  <2>2. c = Tmp(n)[r + 1]
    BY <2>1, BootcmdAt, Zenon
  <2>3. DOMAIN Tmp(n) = 1 .. t
    BY TmpAt
  <2>4. Tmp(n)[r + 1] \in ToSet(Tmp(n))
    BY <2>1, <2>3, Zenon DEF ToSet
  <2> QED BY <2>2, <2>4
<1>7. n > 1 /\ r + 1 >= 2 => g.array = n
  <2> SUFFICES ASSUME n > 1, r + 1 >= 2 PROVE g.array = n
    OBVIOUS
  <2>1. CASE r + 1 = 2
    <3>1. t = 7 /\ r + 1 = t - 5 /\ r + 1 <= t /\ n # 1
      BY <1>1, <2>1
    <3>2. Tmp(n)[t - 5] = <<"mdadm", n>>
      BY <3>1, TmpAt, Zenon
    <3>3. c = <<"mdadm", n>>
      BY <1>6, <3>1, <3>2, Zenon
    <3> QED BY <1>2, <1>6, <3>1, <3>3, StepDoes
  <2>2. CASE r >= 2
    BY <1>3, <1>5, <2>2
  <2> QED BY <1>1, <2>1, <2>2
<1>8. r + 1 >= t - 2 => g.mount["local-ssd"] = Device(n)
  <2> SUFFICES ASSUME r + 1 >= t - 2 PROVE g.mount["local-ssd"] = Device(n)
    OBVIOUS
  <2>1. CASE r + 1 = t - 2
    <3>1. r + 1 <= t
      BY <1>1, <2>1
    <3>2. Tmp(n)[t - 2] = <<"mount", Device(n)>>
      BY TmpAt, Zenon
    <3>3. c = <<"mount", Device(n)>> /\ c \notin g.failed
      BY <1>6, <2>1, <3>1, <3>2, Zenon
    <3>4. Device(n) \in {"ssd", "md0"}
      BY DEF Device
    <3> QED BY <1>2, <3>3, <3>4, StepDoes
  <2>2. CASE r >= t - 2
    <3>1. r + 1 >= t - 1
      BY <1>1, <2>2
    <3> QED BY <1>3, <1>4, <1>5, <2>2, <3>1, Zenon
  <2> QED BY <1>1, <2>1, <2>2
<1>9. r + 1 >= t => g.mount["/tmp"] = Device(n)
  <2> SUFFICES ASSUME r + 1 >= t PROVE g.mount["/tmp"] = Device(n)
    OBVIOUS
  <2>1. CASE r + 1 = t
    <3>1. r + 1 <= t /\ r >= t - 2
      BY <1>1, <2>1
    <3>2. Tmp(n)[t] = <<"bind", "tmp">>
      BY TmpAt, Zenon
    <3>3. c = <<"bind", "tmp">> /\ c \notin g.failed
      BY <1>6, <2>1, <3>1, <3>2, Zenon
    <3>4. f.mount["local-ssd"] = Device(n) /\ Device(n) # "none"
      BY <1>5, <3>1 DEF Device
    <3>5. Under(f, "local-ssd") = Device(n)
      BY <3>4 DEF Under
    <3> QED BY <1>2, <3>3, <3>5, StepDoes
  <2>2. CASE r >= t
    <3>1. r + 1 > t
      BY <1>1, <2>2
    <3> QED BY <1>3, <1>4, <1>5, <2>2, <3>1, Zenon
  <2> QED BY <1>1, <2>1, <2>2
<1> QED BY <1>7, <1>8, <1>9

LEMMA NothingYet ==
  ASSUME NEW n \in Nat, NEW f
  PROVE  HomeSoFar(n, 0, f) /\ TmpSoFar(n, 0, f)
<1> DEFINE t == Len(Tmp(n))
<1>1. t \in Nat /\ t >= 6
  BY Lengths
<1> HIDE DEF t
<1>2. ~(0 >= t) /\ ~(0 >= t - 2) /\ ~(0 >= t + 3) /\ ~(0 >= t + 4) /\ ~(0 >= 2)
  BY <1>1
<1> QED BY <1>2, Zenon DEF HomeSoFar, TmpSoFar, t

----------------------------------------------------------------------------
(* The inductive invariant: where a boot is, what it has achieved, what    *)
(* the log says of it, and how often the instance has booted.              *)

Progress ==
  /\ stage \in {"off", "booting"} => ran = 0
  /\ stage \in {"set up", "listening", "looping"} => Booted

\* After fsck the disk has a file system, or the log says that it has none.
Checked ==
  ran > Len(Tmp(ssds)) => "pd" \in fs.ext4 \/ "superblock could not be read" \in log

Counted ==
  /\ vm = "NONE" => log = {} /\ boots = 0
  /\ vm # "NONE" => boots >= 1
  /\ vm = "TERMINATED" => boots < MaxBoots

FirstListens ==
  boots = 1 /\ vm \in {"RUNNING", "SUSPENDED"} /\ "Server listening" \in log =>
    stage = "listening"

MachineInv ==
  /\ fs \in FileSystems(ssds)
  /\ HomeSoFar(ssds, ran, fs) /\ TmpSoFar(ssds, ran, fs)
  /\ Progress /\ Checked /\ Counted /\ FirstListens

StartupInv == TypeOK /\ MachineInv

LEMMA InitInv == Init => StartupInv
<1> SUFFICES ASSUME Init PROVE StartupInv
  OBVIOUS
<1>1. ssds \in Nat /\ ssds \in 0 .. MaxSsds /\ MaxBoots \in Nat /\ MaxRetries \in Nat
      /\ MaxBroken \in Nat
  BY BoundsAssumption DEF Init
<1>2. /\ Len(Bootcmd(ssds)) \in Nat /\ Len(Bootcmd(ssds)) >= 0
      /\ Len(Tmp(ssds)) \in Nat /\ Len(Tmp(ssds)) > 0
  BY <1>1, Lengths
<1>3. fs \in FileSystems(ssds)
  BY <1>1, UnmountedTyped DEF Init
<1>4. HomeSoFar(ssds, ran, fs) /\ TmpSoFar(ssds, ran, fs)
  BY <1>1, NothingYet DEF Init
<1>5. fs.failed \subseteq Commands(ssds) /\ fs.array \in {0, ssds}
  BY <1>3 DEF FileSystems
<1>6. TypeOK
  <2>1. ran \in 0 .. Len(Bootcmd(ssds)) /\ broken \in 0 .. MaxBroken
    BY <1>1, <1>2 DEF Init
  <2>2. boots \in 0 .. MaxBoots /\ tries \in 0 .. MaxRetries
    BY <1>1 DEF Init
  <2>3. /\ vm \in {"NONE", "RUNNING", "SUSPENDED", "TERMINATED"} /\ stage \in Stages
        /\ log \subseteq Lines /\ image \in {"sshd", "bare"}
        /\ pc \in {"idle", "look", "read", "pause"} /\ late \in BOOLEAN
        /\ result \in {"none", "ready", "failed"}
    BY DEF Init, Stages
  <2> QED BY <1>1, <1>5, <2>1, <2>2, <2>3, Zenon DEF TypeOK
<1>7. Progress /\ Checked /\ Counted /\ FirstListens
  <2>1. ~(ran > Len(Tmp(ssds)))
    BY <1>2 DEF Init
  <2>2. Checked
    BY <2>1, Zenon DEF Checked
  <2>3. Progress /\ Counted /\ FirstListens
    BY DEF Init, Progress, Counted, FirstListens
  <2> QED BY <2>2, <2>3
<1> QED BY <1>3, <1>4, <1>6, <1>7 DEF StartupInv, MachineInv

LEMMA Sizes ==
  ASSUME TypeOK
  PROVE  /\ MaxBoots \in Nat \ {0} /\ MaxRetries \in Nat /\ MaxBroken \in Nat
         /\ ssds \in Nat /\ boots \in Nat /\ ran \in Nat /\ tries \in Nat /\ broken \in Nat
         /\ Len(Tmp(ssds)) \in Nat /\ Len(Tmp(ssds)) >= 6
         /\ Len(Bootcmd(ssds)) = Len(Tmp(ssds)) + 4
<1>1. ssds \in Nat
  BY BoundsAssumption DEF TypeOK
<1>2. /\ Len(Tmp(ssds)) \in Nat /\ Len(Tmp(ssds)) >= 6
      /\ Len(Bootcmd(ssds)) \in Nat /\ Len(Bootcmd(ssds)) = Len(Tmp(ssds)) + 4
  BY <1>1, Lengths
<1>3. /\ ran \in 0 .. Len(Bootcmd(ssds)) /\ boots \in 0 .. MaxBoots
      /\ tries \in 0 .. MaxRetries /\ broken \in 0 .. MaxBroken
  BY DEF TypeOK
<1> QED BY <1>1, <1>2, <1>3, BoundsAssumption

\* A boot that begins anew has all before it.
LEMMA Anew ==
  ASSUME NEW at \in {"off", "booting"}, NotBooted(at), ssds' \in 0 .. MaxSsds
  PROVE  /\ fs' \in FileSystems(ssds')
         /\ HomeSoFar(ssds', ran', fs') /\ TmpSoFar(ssds', ran', fs')
         /\ Progress' /\ Checked'
         /\ fs'.failed \subseteq Commands(ssds') /\ fs'.array \in {0, ssds'}
         /\ ran' \in 0 .. Len(Bootcmd(ssds')) /\ broken' \in 0 .. MaxBroken
         /\ stage' \in Stages
<1>1. ssds' \in Nat /\ MaxBroken \in Nat
  BY BoundsAssumption
<1>2. /\ stage' = at /\ ran' = 0 /\ broken' = 0 /\ fs' = Unmounted(TRUE)
  BY DEF NotBooted
<1>3. fs' \in FileSystems(ssds')
  BY <1>1, <1>2, UnmountedTyped
<1>4. HomeSoFar(ssds', ran', fs') /\ TmpSoFar(ssds', ran', fs')
  BY <1>1, <1>2, NothingYet
<1>5. /\ Len(Bootcmd(ssds')) \in Nat /\ Len(Tmp(ssds')) \in Nat /\ Len(Tmp(ssds')) > 0
      /\ 0 \in 0 .. Len(Bootcmd(ssds'))
  BY <1>1, Lengths
<1>6. fs'.failed \subseteq Commands(ssds') /\ fs'.array \in {0, ssds'}
  BY <1>3 DEF FileSystems
<1>7. Progress' /\ Checked'
  <2>1. ~(ran' > Len(Tmp(ssds')))
    BY <1>2, <1>5
  <2>2. Checked'
    BY <2>1, Zenon DEF Checked
  <2>3. Progress'
    BY <1>2 DEF Progress
  <2> QED BY <2>2, <2>3
<1>8. /\ ran' \in 0 .. Len(Bootcmd(ssds')) /\ broken' \in 0 .. MaxBroken /\ stage' \in Stages
  <2>1. 0 \in 0 .. MaxBroken
    BY <1>1
  <2>2. at \in Stages
    BY Zenon DEF Stages
  <2> QED BY <1>2, <1>5, <2>1, <2>2, Zenon
<1> QED BY <1>3, <1>4, <1>6, <1>7, <1>8, Zenon

\* The parts of the type invariant that a step of the machine may disturb.
LEMMA MachineTyped ==
  ASSUME TypeOK, UNCHANGED up,
         vm' \in {"NONE", "RUNNING", "SUSPENDED", "TERMINATED"}, stage' \in Stages,
         log' \subseteq Lines, boots' \in 0 .. MaxBoots,
         image' \in {"sshd", "bare"}, ssds' \in 0 .. MaxSsds,
         ran' \in 0 .. Len(Bootcmd(ssds')), broken' \in 0 .. MaxBroken,
         fs'.failed \subseteq Commands(ssds'), fs'.array \in {0, ssds'}
  PROVE  TypeOK'
BY Zenon DEF TypeOK, up

\* The next stage of a boot: nothing of the invariant but its last parts can be
\* disturbed.
LEMMA ReachesInv ==
  ASSUME StartupInv, NEW from, NEW to \in {"set up", "listening", "looping"},
         NEW lines \in SUBSET Lines, Reaches(from, to, lines), UNCHANGED fs, Booted,
         "Server listening" \in lines => to = "listening",
         from \in {"bootcmd", "set up"}
  PROVE  StartupInv'
<1>1. /\ TypeOK /\ fs \in FileSystems(ssds)
      /\ HomeSoFar(ssds, ran, fs) /\ TmpSoFar(ssds, ran, fs)
      /\ Progress /\ Checked /\ Counted /\ FirstListens
  BY DEF StartupInv, MachineInv
<1>2. /\ vm = "RUNNING" /\ stage = from /\ stage' = to /\ log' = log \union lines
      /\ UNCHANGED <<vm, ran, broken, boots, image, ssds, fs>> /\ UNCHANGED up
  BY DEF Reaches, Logs
<1>3. TypeOK'
  <2>1. stage' \in Stages /\ log' \subseteq Lines
    BY <1>1, <1>2 DEF TypeOK, Stages
  <2> QED BY <1>1, <1>2, <2>1 DEF TypeOK, up
<1>4. Progress'
  BY <1>2 DEF Progress, Booted
<1>5. Checked'
  BY <1>1, <1>2 DEF Checked
<1>6. Counted'
  BY <1>1, <1>2 DEF Counted
<1>7. FirstListens'
  BY <1>1, <1>2 DEF FirstListens
<1>8. fs' \in FileSystems(ssds') /\ HomeSoFar(ssds', ran', fs') /\ TmpSoFar(ssds', ran', fs')
  BY <1>1, <1>2
<1> QED BY <1>3, <1>4, <1>5, <1>6, <1>7, <1>8 DEF StartupInv, MachineInv

LEMMA StartBootInv == StartupInv /\ StartBoot => StartupInv'
<1> SUFFICES ASSUME StartupInv, StartBoot PROVE StartupInv'
  OBVIOUS
<1>1. /\ TypeOK /\ fs \in FileSystems(ssds)
      /\ Progress /\ Checked /\ Counted /\ FirstListens
  BY DEF StartupInv, MachineInv
<1>2. /\ vm = "RUNNING" /\ stage = "booting" /\ stage' = "bootcmd"
      /\ log' = log \union {"started"}
      /\ UNCHANGED <<vm, ran, broken, boots, image, ssds>> /\ UNCHANGED up
  BY DEF StartBoot, Reaches, Logs
<1>3. PICK formatted \in BOOLEAN : fs' = Unmounted(formatted)
  BY DEF StartBoot
<1>4. ran = 0 /\ ssds \in Nat
  BY <1>1, <1>2, Sizes DEF Progress
<1>5. fs' \in FileSystems(ssds')
  BY <1>2, <1>3, <1>4, UnmountedTyped
<1>6. HomeSoFar(ssds', ran', fs') /\ TmpSoFar(ssds', ran', fs')
  BY <1>2, <1>4, NothingYet
<1>7. TypeOK'
  <2>1. stage' \in Stages /\ log' \subseteq Lines
    BY <1>1, <1>2 DEF TypeOK, Stages, Lines
  <2>2. fs'.failed \subseteq Commands(ssds') /\ fs'.array \in {0, ssds'}
    BY <1>5 DEF FileSystems
  <2> QED BY <1>1, <1>2, <2>1, <2>2, Zenon DEF TypeOK, up
<1>8. Progress'
  BY <1>2 DEF Progress
<1>9. Checked'
  <2>1. Len(Tmp(ssds)) \in Nat
    BY <1>4, Lengths
  <2>2. ~(ran' > Len(Tmp(ssds')))
    BY <1>2, <1>4, <2>1
  <2> QED BY <2>2, Zenon DEF Checked
<1>10. Counted' /\ FirstListens'
  BY <1>1, <1>2 DEF Counted, FirstListens
<1> QED BY <1>5, <1>6, <1>7, <1>8, <1>9, <1>10 DEF StartupInv, MachineInv

LEMMA RunBootcmdInv == StartupInv /\ RunBootcmd => StartupInv'
<1> SUFFICES ASSUME StartupInv, NEW c \in Commands(ssds), NEW breaks \in BOOLEAN,
                    RunCommand(c, breaks)
             PROVE  StartupInv'
  BY DEF RunBootcmd
<1>1. /\ TypeOK /\ fs \in FileSystems(ssds)
      /\ HomeSoFar(ssds, ran, fs) /\ TmpSoFar(ssds, ran, fs)
      /\ Progress /\ Checked /\ Counted /\ FirstListens
  BY DEF StartupInv, MachineInv
<1>2. /\ vm = "RUNNING" /\ stage = "bootcmd" /\ ran # Len(Bootcmd(ssds))
      /\ c = Bootcmd(ssds)[ran + 1]
      /\ breaks => broken < MaxBroken
      /\ ran' = ran + 1 /\ broken' = broken + (IF breaks THEN 1 ELSE 0)
      /\ fs' = Step(fs, c, breaks) /\ log' = log \union Writes(c)
      /\ UNCHANGED <<vm, stage, boots, image, ssds>> /\ UNCHANGED up
  BY DEF RunCommand, Logs, Booted
<1>3. ssds \in Nat /\ ran \in 0 .. Len(Bootcmd(ssds)) - 1 /\ Len(Bootcmd(ssds)) \in Nat
  <2>1. ssds \in Nat
    BY <1>1, Sizes
  <2>2. Len(Bootcmd(ssds)) \in Nat
    BY <2>1, Lengths
  <2>3. ran \in 0 .. Len(Bootcmd(ssds))
    BY <1>1 DEF TypeOK
  <2> QED BY <1>2, <2>1, <2>2, <2>3
<1>4. fs' \in FileSystems(ssds')
  BY <1>1, <1>2, <1>3, StepChanges
<1>5. HomeSoFar(ssds', ran', fs')
  BY <1>1, <1>2, <1>3, HomeStep
<1>6. TmpSoFar(ssds', ran', fs')
  BY <1>1, <1>2, <1>3, TmpStep
<1>7. Writes(c) \subseteq Lines /\ "Server listening" \notin Writes(c)
  BY DEF Writes, Lines
<1>8. TypeOK'
  <2>1. log' \subseteq Lines
    BY <1>1, <1>2, <1>7 DEF TypeOK
  <2>2. fs'.failed \subseteq Commands(ssds') /\ fs'.array \in {0, ssds'}
    BY <1>4 DEF FileSystems
  <2>3. ran' \in 0 .. Len(Bootcmd(ssds'))
    BY <1>2, <1>3
  <2>4. broken' \in 0 .. MaxBroken
    <3>1. broken \in 0 .. MaxBroken /\ MaxBroken \in Nat
      BY <1>1, BoundsAssumption DEF TypeOK
    <3> QED BY <1>2, <3>1
  <2> QED BY <1>1, <1>2, <2>1, <2>2, <2>3, <2>4, Zenon DEF TypeOK, up
<1>9. Progress'
  BY <1>2 DEF Progress
<1>10. Checked'
  <2>1. fs.ext4 \subseteq fs'.ext4 /\ log \subseteq log'
    BY <1>1, <1>2, <1>3, StepChanges
  <2>2. Len(Tmp(ssds)) \in Nat
    BY <1>3, Lengths
  <2>3. CASE ran > Len(Tmp(ssds))
    BY <1>1, <2>1, <2>3 DEF Checked
  <2>4. CASE ran = Len(Tmp(ssds))
    <3>1. Bootcmd(ssds)[Len(Tmp(ssds)) + 1] = <<"fsck", "pd">>
      BY <1>3, BootcmdAt, Zenon
    <3>2. c = <<"fsck", "pd">>
      BY <1>2, <2>4, <3>1, Zenon
    <3>3. "pd" \in fs.ext4 \/ "superblock could not be read" \in Writes(c)
      BY <3>2 DEF Writes
    <3> QED BY <1>2, <2>1, <3>3 DEF Checked
  <2>5. CASE ran < Len(Tmp(ssds))
    <3>1. ~(ran' > Len(Tmp(ssds')))
      BY <1>2, <1>3, <2>2, <2>5
    <3> QED BY <3>1, Zenon DEF Checked
  <2>6. ran > Len(Tmp(ssds)) \/ ran = Len(Tmp(ssds)) \/ ran < Len(Tmp(ssds))
    BY <1>3, <2>2
  <2> QED BY <2>3, <2>4, <2>5, <2>6
<1>11. Counted' /\ FirstListens'
  BY <1>1, <1>2, <1>7 DEF Counted, FirstListens
<1> QED BY <1>4, <1>5, <1>6, <1>8, <1>9, <1>10, <1>11 DEF StartupInv, MachineInv

LEMMA StartSshdInv == StartupInv /\ StartSshd => StartupInv'
<1> SUFFICES ASSUME StartupInv, StartSshd PROVE StartupInv'
  OBVIOUS
<1>1. PICK lines \in SUBSET {"downloaded"} : Reaches("bootcmd", "set up", lines)
  BY DEF StartSshd
<1>2. lines \in SUBSET Lines /\ "Server listening" \notin lines
  BY DEF Lines
<1>3. UNCHANGED fs /\ Booted
  BY DEF StartSshd
<1> QED BY <1>1, <1>2, <1>3, ReachesInv

LEMMA RunSshdInv == StartupInv /\ RunSshd => StartupInv'
<1> SUFFICES ASSUME StartupInv, RunSshd PROVE StartupInv'
  OBVIOUS
<1>1. stage = "set up" /\ UNCHANGED fs
  BY DEF RunSshd, Reaches
<1>2. Booted
  BY <1>1 DEF StartupInv, MachineInv, Progress
<1>3. {"Server listening"} \in SUBSET Lines /\ {"no sshd"} \in SUBSET Lines
      /\ "Server listening" \notin {"no sshd"}
  BY DEF Lines
<1>4. CASE Reaches("set up", "listening", {"Server listening"})
  BY <1>1, <1>2, <1>3, <1>4, ReachesInv
<1>5. CASE Reaches("set up", "looping", {"no sshd"})
  BY <1>1, <1>2, <1>3, <1>5, ReachesInv
<1> QED BY <1>4, <1>5 DEF RunSshd

LEMMA SuspendInv == StartupInv /\ Suspend => StartupInv'
<1> SUFFICES ASSUME StartupInv, Suspend PROVE StartupInv'
  OBVIOUS
<1>1. /\ TypeOK /\ fs \in FileSystems(ssds)
      /\ HomeSoFar(ssds, ran, fs) /\ TmpSoFar(ssds, ran, fs)
      /\ Progress /\ Checked /\ Counted /\ FirstListens
  BY DEF StartupInv, MachineInv
<1>2. /\ vm = "RUNNING" /\ vm' = "SUSPENDED"
      /\ UNCHANGED <<stage, ran, broken, fs, log, boots, image, ssds>> /\ UNCHANGED up
  BY DEF Suspend, boot
<1>3. TypeOK'
  BY <1>1, <1>2 DEF TypeOK, up
<1>4. Counted' /\ FirstListens'
  BY <1>1, <1>2 DEF Counted, FirstListens
<1>5. Progress' /\ Checked'
  BY <1>1, <1>2 DEF Progress, Checked, Booted
<1>6. fs' \in FileSystems(ssds') /\ HomeSoFar(ssds', ran', fs') /\ TmpSoFar(ssds', ran', fs')
  BY <1>1, <1>2
<1> QED BY <1>3, <1>4, <1>5, <1>6 DEF StartupInv, MachineInv

\* The steps after which the machine has no boot, or a new one.
LEMMA RestartInv ==
  ASSUME StartupInv,
         NEW at \in {"off", "booting"}, NotBooted(at),
         vm' \in {"NONE", "RUNNING", "TERMINATED"}, log' \subseteq Lines,
         boots' \in 0 .. MaxBoots, image' \in {"sshd", "bare"}, ssds' \in 0 .. MaxSsds,
         pc' \in {"idle", "look", "read", "pause"}, UNCHANGED <<tries, late, result>>,
         Counted', FirstListens'
  PROVE  StartupInv'
<1>1. TypeOK
  BY DEF StartupInv
<1>2. /\ fs' \in FileSystems(ssds')
      /\ HomeSoFar(ssds', ran', fs') /\ TmpSoFar(ssds', ran', fs')
      /\ Progress' /\ Checked'
      /\ fs'.failed \subseteq Commands(ssds') /\ fs'.array \in {0, ssds'}
      /\ ran' \in 0 .. Len(Bootcmd(ssds')) /\ broken' \in 0 .. MaxBroken
      /\ stage' \in Stages
  BY Anew
<1>3. vm' \in {"NONE", "RUNNING", "SUSPENDED", "TERMINATED"}
  OBVIOUS
<1>4. TypeOK'
  BY <1>1, <1>2, <1>3, Zenon DEF TypeOK
<1> QED BY <1>2, <1>4 DEF StartupInv, MachineInv

LEMMA PowerOffInv == StartupInv /\ PowerOff => StartupInv'
<1> SUFFICES ASSUME StartupInv, PowerOff PROVE StartupInv'
  OBVIOUS
<1>1. TypeOK /\ Counted
  BY DEF StartupInv, MachineInv
<1>2. /\ vm = "RUNNING" /\ boots < MaxBoots /\ vm' = "TERMINATED" /\ NotBooted("off")
      /\ UNCHANGED <<log, boots, image, ssds, pc, tries, late, result>>
  BY DEF PowerOff, up
<1>3. Counted' /\ FirstListens'
  BY <1>1, <1>2 DEF Counted, FirstListens
<1>4. /\ log' \subseteq Lines /\ boots' \in 0 .. MaxBoots /\ image' \in {"sshd", "bare"}
      /\ ssds' \in 0 .. MaxSsds /\ pc' \in {"idle", "look", "read", "pause"}
  BY <1>1, <1>2 DEF TypeOK
<1> QED BY <1>2, <1>3, <1>4, RestartInv

LEMMA RebootInv == StartupInv /\ Reboot => StartupInv'
<1> SUFFICES ASSUME StartupInv, Reboot PROVE StartupInv'
  OBVIOUS
<1>1. TypeOK /\ Counted
  BY DEF StartupInv, MachineInv
<1>2. /\ vm = "RUNNING" /\ boots < MaxBoots /\ boots' = boots + 1 /\ vm' = "RUNNING"
      /\ NotBooted("booting")
      /\ UNCHANGED <<log, image, ssds, pc, tries, late, result>>
  BY DEF Reboot, PowersOn, up
<1>3. boots \in Nat /\ MaxBoots \in Nat /\ boots >= 1
  BY <1>1, <1>2, Sizes DEF Counted
<1>4. Counted' /\ FirstListens'
  <2>1. boots' >= 1 /\ boots' # 1
    BY <1>2, <1>3
  <2> QED BY <1>2, <2>1 DEF Counted, FirstListens
<1>5. boots' \in 0 .. MaxBoots
  BY <1>2, <1>3
<1>6. /\ log' \subseteq Lines /\ image' \in {"sshd", "bare"}
      /\ ssds' \in 0 .. MaxSsds /\ pc' \in {"idle", "look", "read", "pause"}
  BY <1>1, <1>2 DEF TypeOK
<1> QED BY <1>2, <1>4, <1>5, <1>6, RestartInv

LEMMA DownInv == StartupInv /\ Down => StartupInv'
<1> SUFFICES ASSUME StartupInv, Down PROVE StartupInv'
  OBVIOUS
<1>1. TypeOK
  BY DEF StartupInv
<1>2. /\ vm' = "NONE" /\ NotBooted("off") /\ log' = {} /\ boots' = 0
      /\ image' \in {"sshd", "bare"} /\ ssds' \in 0 .. MaxSsds
      /\ UNCHANGED <<pc, tries, late, result>>
  BY DEF Down, up
<1>3. Counted' /\ FirstListens'
  BY <1>2 DEF Counted, FirstListens
<1>4. log' \subseteq Lines /\ pc' \in {"idle", "look", "read", "pause"}
  BY <1>1, <1>2 DEF TypeOK
<1>5. boots' \in 0 .. MaxBoots
  BY <1>2, BoundsAssumption
<1> QED BY <1>2, <1>3, <1>4, <1>5, RestartInv

\* An up that turns the machine on: it is created or was off.
LEMMA StartsInv == StartupInv /\ Starts => StartupInv'
<1> SUFFICES ASSUME StartupInv, Starts PROVE StartupInv'
  OBVIOUS
<1>1. /\ TypeOK /\ fs \in FileSystems(ssds)
      /\ HomeSoFar(ssds, ran, fs) /\ TmpSoFar(ssds, ran, fs)
      /\ Progress /\ Checked /\ Counted /\ FirstListens
  BY DEF StartupInv, MachineInv
<1>2. boots \in Nat /\ MaxBoots \in Nat \ {0}
  BY <1>1, Sizes
<1>3. CASE CreateInstance \/ StartInstance
  <2>1. /\ vm \in {"NONE", "TERMINATED"} /\ vm' = "RUNNING" /\ boots' = boots + 1
        /\ NotBooted("booting") /\ pc' = "read"
        /\ UNCHANGED <<log, image, ssds, tries, late, result>>
    BY <1>3 DEF CreateInstance, StartInstance, Look, PowersOn
  <2>2. /\ vm = "NONE" => log = {} /\ boots = 0
        /\ vm = "TERMINATED" => boots >= 1 /\ boots < MaxBoots
    BY <1>1 DEF Counted
  <2>3. boots' \in 0 .. MaxBoots /\ boots' >= 1
    BY <1>2, <2>1, <2>2
  <2>4. boots' = 1 => log' = {}
    BY <1>2, <2>1, <2>2
  <2>5. Counted' /\ FirstListens'
    BY <2>1, <2>3, <2>4 DEF Counted, FirstListens
  <2>6. log' \subseteq Lines /\ image' \in {"sshd", "bare"} /\ ssds' \in 0 .. MaxSsds
    BY <1>1, <2>1 DEF TypeOK
  <2> QED BY <2>1, <2>3, <2>5, <2>6, RestartInv
<1>4. CASE ResumeInstance \/ AlreadyRunning
  <2>1. /\ vm \in {"RUNNING", "SUSPENDED"} /\ vm' = "RUNNING" /\ pc' = "read"
        /\ UNCHANGED <<stage, ran, broken, fs, log, boots, image, ssds, tries, late, result>>
    BY <1>4 DEF ResumeInstance, AlreadyRunning, Look, boot
  <2>2. TypeOK'
    BY <1>1, <2>1 DEF TypeOK
  <2>3. Counted' /\ FirstListens'
    BY <1>1, <2>1 DEF Counted, FirstListens
  <2>4. Progress' /\ Checked'
    BY <1>1, <2>1 DEF Progress, Checked, Booted
  <2>5. fs' \in FileSystems(ssds') /\ HomeSoFar(ssds', ran', fs') /\ TmpSoFar(ssds', ran', fs')
    BY <1>1, <2>1
  <2> QED BY <2>2, <2>3, <2>4, <2>5 DEF StartupInv, MachineInv
<1> QED BY <1>3, <1>4 DEF Starts

\* What up does but for starting the machine leaves the machine alone.
Waits == BeginUp \/ ReadLog \/ ReadNothing \/ ReadTimesOut \/ Pause \/ HourOver

LEMMA WaitsInv == StartupInv /\ (Waits \/ UNCHANGED vars) => StartupInv'
<1> SUFFICES ASSUME StartupInv, Waits \/ UNCHANGED vars PROVE StartupInv'
  OBVIOUS
<1>1. /\ TypeOK /\ fs \in FileSystems(ssds)
      /\ HomeSoFar(ssds, ran, fs) /\ TmpSoFar(ssds, ran, fs)
      /\ Progress /\ Checked /\ Counted /\ FirstListens
  BY DEF StartupInv, MachineInv
<1>2. UNCHANGED <<vm, stage, ran, broken, fs, log, boots, image, ssds>>
  BY DEF Waits, BeginUp, ReadLog, ReadNothing, ReadTimesOut, Pause, HourOver, Goes, Ends,
         machine, boot, vars
<1>3. /\ pc' \in {"idle", "look", "read", "pause"} /\ tries' \in 0 .. MaxRetries
      /\ late' \in BOOLEAN /\ result' \in {"none", "ready", "failed"}
  <2>1. /\ pc \in {"idle", "look", "read", "pause"} /\ tries \in 0 .. MaxRetries
        /\ late \in BOOLEAN /\ result \in {"none", "ready", "failed"} /\ MaxRetries \in Nat
    BY <1>1, BoundsAssumption DEF TypeOK
  <2>2. CASE BeginUp \/ HourOver \/ UNCHANGED vars
    BY <2>1, <2>2 DEF BeginUp, HourOver, vars, up
  <2>3. CASE ReadLog
    <3>1. Status \in {"failed", "ready", "wait"}
      BY Zenon DEF Status
    <3>2. CASE Status = "wait"
      BY <2>1, <2>3, <3>2 DEF ReadLog, Goes
    <3>3. CASE Status # "wait"
      BY <2>1, <2>3, <3>1, <3>3 DEF ReadLog, Goes, Ends
    <3> QED BY <3>2, <3>3
  <2>4. CASE ReadNothing \/ Pause
    BY <2>1, <2>4 DEF ReadNothing, Pause, Goes, Ends
  <2>5. CASE ReadTimesOut
    BY <2>1, <2>5 DEF ReadTimesOut, Goes, Ends
  <2> QED BY <2>2, <2>3, <2>4, <2>5 DEF Waits
<1>4. TypeOK'
  BY <1>1, <1>2, <1>3 DEF TypeOK
<1>5. Counted' /\ FirstListens'
  BY <1>1, <1>2 DEF Counted, FirstListens
<1>6. Progress' /\ Checked'
  BY <1>1, <1>2 DEF Progress, Checked, Booted
<1>7. fs' \in FileSystems(ssds') /\ HomeSoFar(ssds', ran', fs') /\ TmpSoFar(ssds', ran', fs')
  BY <1>1, <1>2
<1> QED BY <1>4, <1>5, <1>6, <1>7 DEF StartupInv, MachineInv

LEMMA NextInv == StartupInv /\ [Next]_vars => StartupInv'
<1>1. Next => \/ Waits \/ Starts \/ StartBoot \/ RunBootcmd \/ StartSshd \/ RunSshd
              \/ Suspend \/ PowerOff \/ Reboot \/ Down
  BY DEF Next, Up, Advance, Waits
<1> QED BY <1>1, WaitsInv, StartsInv, StartBootInv, RunBootcmdInv, StartSshdInv, RunSshdInv,
           SuspendInv, PowerOffInv, RebootInv, DownInv

LEMMA AlwaysInv == Spec => []StartupInv
BY InitInv, NextInv, PTL DEF Spec

----------------------------------------------------------------------------
(* The theorems.                                                           *)

\* Every variable of the machine and of the up that waits for it keeps its type,
\* for any number of SSDs, boots, retries and broken commands.
THEOREM StartupTyped == Spec => []TypeOK
<1>1. StartupInv => TypeOK
  BY DEF StartupInv
<1> QED BY <1>1, AlwaysInv, PTL

\* The script of up mounts the home, and makes the directory for the key of the user
\* on it, whatever becomes of the commands for /tmp: that none of them can get at the
\* disk of the home.
THEOREM HomeIsMounted == Spec => []HomeMounted
<1>1. StartupInv => HomeMounted
  <2> SUFFICES ASSUME StartupInv, Settled, fs.failed \intersect ToSet(Home) = {}
               PROVE  fs.mount["home"] = "pd" /\ <<".ssh", "pd">> \in fs.dirs
    BY DEF HomeMounted
  <2>1. HomeSoFar(ssds, ran, fs) /\ TypeOK
    BY DEF StartupInv, MachineInv
  <2>2. ran >= Len(Tmp(ssds)) + 3 /\ ran >= Len(Tmp(ssds)) + 4
    BY <2>1, Sizes DEF Settled, Booted
  <2> QED BY <2>1, <2>2 DEF HomeSoFar
<1> QED BY <1>1, AlwaysInv, PTL

\* With one SSD /tmp is on it, and with more it is on an array of all of them, for
\* any number of SSDs, if no command for /tmp fails: the commands for the home leave
\* it as it is.
THEOREM TmpIsOnSsds == Spec => []TmpOnSsds
<1>1. StartupInv => TmpOnSsds
  <2> SUFFICES ASSUME StartupInv, Settled, ssds > 0,
                      fs.failed \intersect ToSet(Tmp(ssds)) = {}
               PROVE  IF ssds = 1 THEN fs.mount["/tmp"] = "ssd"
                      ELSE fs.mount["/tmp"] = "md0" /\ fs.array = ssds
    BY DEF TmpOnSsds
  <2>1. TmpSoFar(ssds, ran, fs) /\ TypeOK
    BY DEF StartupInv, MachineInv
  <2>2. ran >= Len(Tmp(ssds)) /\ ran >= 2 /\ (ssds # 1 => ssds > 1)
    BY <2>1, Sizes DEF Settled, Booted
  <2> QED BY <2>1, <2>2 DEF TmpSoFar, Device
<1> QED BY <1>1, AlwaysInv, PTL

\* A wait that ends with "ready" on an instance that booted once found its sshd
\* listening, on a machine whose disk has a file system.
THEOREM ReadyAtFirstBoot == Spec => FirstBootReady
<1>1. StartupInv /\ [Next]_vars /\ FoundReady /\ boots = 1 =>
        stage = "listening" /\ "pd" \in fs.ext4
  <2> SUFFICES ASSUME StartupInv, [Next]_vars, FoundReady, boots = 1
               PROVE  stage = "listening" /\ "pd" \in fs.ext4
    OBVIOUS
  <2>1. ReadLog /\ Status = "ready"
    BY DEF FoundReady, Next, vars, up, BeginUp, Up, Starts, CreateInstance, StartInstance,
           ResumeInstance, AlreadyRunning, Look, ReadLog, ReadNothing, ReadTimesOut, Pause,
           HourOver, Goes, Ends, Advance, StartBoot, RunBootcmd, RunCommand, StartSshd,
           RunSshd, Reaches, Suspend, PowerOff, Reboot, Down
  <2>2. vm = "RUNNING" /\ "Server listening" \in log /\ "superblock could not be read" \notin log
    BY <2>1 DEF ReadLog, Status, Fatal
  <2>3. TypeOK /\ Progress /\ Checked /\ FirstListens
    BY DEF StartupInv, MachineInv
  <2>4. stage = "listening"
    BY <2>2, <2>3 DEF FirstListens
  <2>5. ran > Len(Tmp(ssds))
    BY <2>3, <2>4, Sizes DEF Progress, Booted
  <2> QED BY <2>2, <2>3, <2>4, <2>5 DEF Checked
<1>2. StartupInv /\ [Next]_vars =>
        [FoundReady /\ boots = 1 => stage = "listening" /\ "pd" \in fs.ext4]_vars
  BY <1>1
<1> QED BY <1>2, AlwaysInv, PTL DEF Spec, FirstBootReady

\* Once the log of an instance has a fatal line, no wait for it ends with "ready"
\* until it is deleted: the log only grows, and what is fatal is looked for first.
THEOREM FatalIsFinal == Spec => FatalUntilDown
<1>1. [Next]_vars =>
        [Fatal \intersect log # {} =>
           ~FoundReady /\ (Fatal \intersect log' # {} \/ vm' = "NONE")]_vars
  <2> SUFFICES ASSUME Next, Fatal \intersect log # {}
               PROVE  ~FoundReady /\ (Fatal \intersect log' # {} \/ vm' = "NONE")
    OBVIOUS
  <2>1. ~FoundReady
    BY DEF FoundReady, Status, Next, vars, up, BeginUp, Up, Starts, CreateInstance, StartInstance,
           ResumeInstance, AlreadyRunning, Look, ReadLog, ReadNothing, ReadTimesOut, Pause,
           HourOver, Goes, Ends, Advance, StartBoot, RunBootcmd, RunCommand, StartSshd,
           RunSshd, Reaches, Suspend, PowerOff, Reboot, Down
  <2>2. log \subseteq log' \/ vm' = "NONE"
    BY DEF Next, machine, BeginUp, Up, Starts, CreateInstance, StartInstance,
           ResumeInstance, AlreadyRunning, Look, ReadLog, ReadNothing, ReadTimesOut, Pause,
           HourOver, Goes, Ends, Advance, StartBoot, RunBootcmd, RunCommand, StartSshd,
           RunSshd, Reaches, Logs, Suspend, PowerOff, Reboot, Down
  <2> QED BY <2>1, <2>2
<1> QED BY <1>1, PTL DEF Spec, FatalUntilDown
=============================================================================
