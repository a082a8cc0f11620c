------------------------------ MODULE SshConfig ------------------------------
(***************************************************************************)
(* ~/.ssh/config as text, shared by hermit and its user.  hermit rewrites  *)
(* its own section, between two marker lines, and is to leave the user's   *)
(* lines alone; the user edits the rest, before or after that section, and *)
(* may leave the last line without a newline.                              *)
(***************************************************************************)
EXTENDS Integers, SequencesExt

CONSTANTS
  Lines,     \* lines users write
  HostSets,  \* the sets of instances update_ssh_config is called with
  MaxLines,  \* bound on the user's lines
  MaxTime    \* bound on the clock, in seconds

ASSUME BoundsAssumption ==
  MaxLines \in Nat /\ MaxTime \in Nat

VARIABLES
  text,     \* the file: its lines, and whether the last one lacks its newline
  backups,  \* backups[t]: the text in config.<t>, or NoText
  now,      \* the time in whole seconds, as in the names of the backups
  written,  \* history: the lines that users have ever written
  hasty     \* history: whether two updates of one second have both replaced a file

history == <<written, hasty>>
vars == <<text, backups, now, written, hasty>>

User(l) == [kind |-> "user", hosts |-> {}, line |-> l]
Marker(k) == [kind |-> k, hosts |-> {}, line |-> ""]
HostLines(hosts) == [kind |-> "hosts", hosts |-> hosts, line |-> ""]
Text(lines, open) == [lines |-> lines, open |-> open]

\* The file does not exist, or is empty: both read as "".
NoText == Text(<<>>, FALSE)
BlankLine == Text(<<User("")>>, FALSE)

Init ==
  /\ text = NoText
  /\ backups = [t \in 0 .. MaxTime |-> NoText]
  /\ now = 0
  /\ written = {} /\ hasty = FALSE

----------------------------------------------------------------------------
(* What ssh.py computes.                                                   *)

\* The places of a marker with its newline, which is part of the marker.
Places(t, kind) ==
  {i \in DOMAIN t.lines : t.lines[i].kind = kind /\ ~(t.open /\ i = Len(t.lines))}

\* content.index finds no end marker: ValueError.
Fails(t) == Places(t, "start") # {} /\ Places(t, "end") = {}

\* Mutant: drops all that follows the section.
RemoveToEnd(t) ==
  IF Places(t, "start") = {} THEN t
  ELSE Text(SubSeq(t.lines, 1, Min(Places(t, "start")) - 1), FALSE)

\* Mutant: the section is not found.
RemoveNothing(t) == t

\* content[:start_index] + content[end_index:]
RemoveSection(t) ==
  IF Places(t, "start") = {} THEN t
  ELSE LET from == Min(Places(t, "start"))
           to == Min(Places(t, "end"))
           rest == SubSeq(t.lines, to + 1, Len(t.lines))
       IN Text(SubSeq(t.lines, 1, from - 1) \o rest, t.open)

\* A text that does not end in a newline becomes one newline.
EndLine(t) == IF t.open THEN BlankLine ELSE t

Section(hosts) == <<Marker("start"), HostLines(hosts), Marker("end")>>

\* Mutant: a blank line precedes the section.
UpdatedSpaced(t, hosts) ==
  Text(EndLine(RemoveSection(t)).lines \o <<User("")>> \o Section(hosts), FALSE)

Updated(t, hosts) ==
  LET kept == EndLine(RemoveSection(t))
  IN IF hosts = {} THEN kept ELSE Text(kept.lines \o Section(hosts), FALSE)

----------------------------------------------------------------------------
(* Steps.                                                                  *)

\* Mutant: all backups have one name.
ReplaceBackedUpOnce(new) ==
  /\ text' = new
  /\ backups' = IF text = new THEN backups ELSE [backups EXCEPT ![0] = text]

\* replace_if_changed: nothing is written, not even a backup, if the text is
\* the same.  A file that did not exist has no backup.  The second backup of a
\* second replaces the first.
ReplaceIfChanged(new) ==
  /\ text' = new
  /\ backups' = IF text = new THEN backups ELSE [backups EXCEPT ![now] = text]

UpdateSshConfig(hosts) ==
  /\ ~Fails(text)
  /\ ReplaceIfChanged(Updated(text, hosts))
  /\ hasty' = (hasty \/ (text' # text /\ backups[now] # NoText))
  /\ UNCHANGED <<now, written>>

\* The places of the user's lines.
UserPlaces(t) == {i \in DOMAIN t.lines : t.lines[i].kind = "user"}

\* An editor appends a line, or puts one first.
UserAdds(l) ==
  /\ Cardinality(UserPlaces(text)) < MaxLines
  /\ \/ text' = Text(Append(text.lines, User(l)), FALSE)
     \/ text' = [text EXCEPT !.lines = <<User(l)>> \o @]
  /\ written' = written \union {l}
  /\ UNCHANGED <<backups, now, hasty>>

\* The newline at the end of the file goes, and with it the end of the last
\* line, unless that is blank: what precedes it is ended.
UserTrims ==
  /\ text.lines # <<>> /\ ~text.open /\ Last(text.lines) # User("")
  /\ text' = [text EXCEPT !.open = TRUE]
  /\ UNCHANGED <<backups, now, history>>

\* An editor that ends the last line of what it saves.
UserEnds ==
  /\ text.open
  /\ text' = [text EXCEPT !.open = FALSE]
  /\ UNCHANGED <<backups, now, history>>

Tick == now < MaxTime /\ now' = now + 1 /\ UNCHANGED <<text, backups, history>>

Next ==
  \/ \E hosts \in HostSets : UpdateSshConfig(hosts)
  \/ \E l \in Lines : UserAdds(l)
  \/ UserTrims
  \/ UserEnds
  \/ Tick

Spec == Init /\ [][Next]_vars

----------------------------------------------------------------------------
(* What is to hold.                                                        *)

Texts ==
  [lines : Seq({User(l) : l \in Lines \union {""}} \union
             {Marker(k) : k \in {"start", "end"}} \union
             {HostLines(h) : h \in HostSets}),
   open : BOOLEAN]

\* Types, and with them that a file without lines has no open last line.
TypeOK ==
  /\ text \in Texts /\ (text.open => text.lines # <<>>)
  /\ backups \in [0 .. MaxTime -> Texts] /\ now \in 0 .. MaxTime
  /\ written \subseteq Lines /\ hasty \in BOOLEAN

\* Two texts have the same lines of the user's, in the same order.
SameUserLines(t, u) ==
  \E f \in Surjection(UserPlaces(t), UserPlaces(u)) :
    /\ \A i, j \in UserPlaces(t) : i < j => f[i] < f[j]
    /\ \A i \in UserPlaces(t) : u.lines[f[i]] = t.lines[i]

IsUpdate == \E hosts \in HostSets : UpdateSshConfig(hosts)

\* hermit never takes, adds or reorders a line of the user's, wherever its
\* own section happens to be, if the last line of the file is ended.
EndedLinesKept ==
  [][IsUpdate /\ ~text.open => SameUserLines(text, text')]_vars

\* The same for every file: "make sure that the configuration content ends with
\* a newline" (ssh.py:74) adds one and takes nothing.
UserLinesKept == [][IsUpdate => SameUserLines(text, text')]_vars

\* hermit's section is there at most once, whole, and in one piece.
OneSection ==
  LET own == DOMAIN text.lines \ UserPlaces(text)
  IN own = {} \/ \E i \in own, hosts \in HostSets :
       own = i .. i + 2 /\ SubSeq(text.lines, i, i + 2) = Section(hosts)

\* Updating twice is updating once: the second time nothing is written.  An
\* update fails only where the user took the newline of hermit's own end marker.
Idempotent ==
  /\ Fails(text) => text.open /\ Last(text.lines) = Marker("end")
  /\ \A hosts \in HostSets :
       ~Fails(text) => LET new == Updated(text, hosts) IN
         ~Fails(new) /\ Updated(new, hosts) = new

\* The user's line is in the file.
Has(t, l) == User(l) \in Range(t.lines)

\* Every line that a user has ever written is in the file or in a backup.
NothingLost ==
  \A l \in written : Has(text, l) \/ \E t \in 0 .. MaxTime : Has(backups[t], l)

\* What updates take from the user, now or long ago, can be found again: the
\* backups cover all that any sequence of edits and updates has lost, if no two
\* updates of one second replaced the file.
Recoverable == ~hasty => NothingLost
=============================================================================
