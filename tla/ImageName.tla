------------------------------ MODULE ImageName ------------------------------
(***************************************************************************)
(* parse_docker_image_name: what create and up take the name of a docker   *)
(* image for when they ask its registry for access.  A name is a sequence  *)
(* of tokens: "w" stands for a run of letters, digits, dashes, underscores *)
(* and "W" for one with an upper-case letter in it.                        *)
(***************************************************************************)
EXTENDS Naturals, Sequences

CONSTANTS
  Segments,  \* bound on the words of a path
  Labels     \* bound on the dots in a host or a tag

ASSUME SizesAssumption == Segments \in Nat \ {0} /\ Labels \in Nat

\* w, w.w, ...: k + 1 words with k separators between them
Words(k, words, separators) ==
  {t \in [1 .. 2 * k + 1 -> words \union separators] :
     \A i \in 1 .. 2 * k + 1 : t[i] \in IF i % 2 = 1 THEN words ELSE separators}

\* A host has a dot or a port: it is that which tells it from a path.
Hosts == {<< >>, <<"w">>} \union UNION {Words(k, {"w"}, {"."}) : k \in 1 .. Labels}
Paths == UNION {Words(k, {"w"}, {"/", "."}) : k \in 0 .. Segments - 1}
Tags == {<< >>} \union UNION {Words(k, {"w", "W"}, {"."}) : k \in 0 .. Labels}

Names ==
  {n \in [host : Hosts, port : {<< >>, <<"w">>}, path : Paths, tag : Tags, digest : BOOLEAN] :
     /\ n.host = << >> =>
          /\ n.port = << >>
          /\ \A i, j \in 1 .. Len(n.path) :
               n.path[i] = "." /\ n.path[j] = "/" =>
                 \E k \in 1 .. i : n.path[k] = "/"
     /\ n.host = <<"w">> => n.port # << >>}

\* The text of a name: host:port/path:tag@sha256:digest
Text(n) ==
  (IF n.host = << >> THEN << >>
   ELSE n.host \o (IF n.port = << >> THEN << >> ELSE <<":">> \o n.port) \o <<"/">>)
  \o n.path \o (IF n.tag = << >> THEN << >> ELSE <<":">> \o n.tag)
  \o (IF n.digest THEN <<"@", "w", ":", "w">> ELSE << >>)

\* The longest run of those tokens from place i on, as far as it goes.
RunFrom(t, i, tokens) ==
  LET ends == {j \in i - 1 .. Len(t) : \A k \in i .. j : t[k] \in tokens}
  IN  SubSeq(t, i, CHOOSE j \in ends : \A k \in ends : k <= j)

\* Mutant: the class of a path lacks the slash.
PathShort(t) == RunFrom(t, 1, {"w"})

\* ([a-z0-9-_/]+)
Path(t) == RunFrom(t, 1, {"w", "/"})

\* (?::([a-z0-9-_/.]+))?
Tag(t, i) ==
  IF i <= Len(t) /\ t[i] = ":" THEN RunFrom(t, i + 1, {"w", "/", "."}) ELSE << >>

\* The backslashes in the patterns of host and port are doubled in a raw
\* string: a host has to have a backslash before its first dot.  No name does,
\* so the match begins with the path; it is not anchored at its end, and what
\* is left of the name is not looked at.
Parse(t) ==
  [host |-> << >>, port |-> << >>, path |-> Path(t), tag |-> Tag(t, Len(Path(t)) + 1),
   digest |-> FALSE]

\* A name of Docker Hub without a dot in the path, an upper-case letter in
\* the tag, or a digest.
Plain(n) ==
  /\ n.host = << >> /\ ~n.digest
  /\ \A i \in 1 .. Len(n.path) : n.path[i] # "."
  /\ \A i \in 1 .. Len(n.tag) : n.tag[i] # "W"
=============================================================================
