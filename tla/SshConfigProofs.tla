--------------------------- MODULE SshConfigProofs ---------------------------
(***************************************************************************)
(* Proofs about SshConfig, for any lines of the user's, any number of      *)
(* them, and any sets of instances.                                        *)
(***************************************************************************)
EXTENDS SshConfig, SequenceTheorems, TLAPS

----------------------------------------------------------------------------
(* What the file looks like: the user's lines, and between two of them at  *)
(* most one section of hermit's.                                           *)

UserKind == {User(l) : l \in Lines \union {""}}
AnyKind ==
  UserKind \union {Marker(k) : k \in {"start", "end"}} \union
    {HostLines(h) : h \in HostSets}

Around(a, hosts, b) == (a \o Section(hosts)) \o b

Shaped(lines) ==
  \/ lines \in Seq(UserKind)
  \/ \E a, b \in Seq(UserKind), hosts \in HostSets : lines = Around(a, hosts, b)

\* The strengthening: OneSection, as a shape the updates preserve.
SInv == TypeOK /\ Shaped(text.lines)

LEMMA Kinds ==
  /\ UserKind \subseteq AnyKind
  /\ \A x \in UserKind : x.kind = "user"
  /\ Marker("start").kind = "start" /\ Marker("end").kind = "end"
  /\ \A h \in HostSets : HostLines(h).kind = "hosts"
  /\ User("") \in UserKind
  /\ \A l \in Lines : User(l) \in UserKind
<1>1. UserKind \subseteq AnyKind
  BY DEF AnyKind
<1>2. \A l : User(l).kind = "user"
  BY DEF User
<1>3. Marker("start").kind = "start" /\ Marker("end").kind = "end"
  BY DEF Marker
<1>4. \A h \in HostSets : HostLines(h).kind = "hosts"
  BY DEF HostLines
<1> HIDE DEF User
<1>5. \A x \in UserKind : x.kind = "user"
  BY <1>2 DEF UserKind
<1>6. User("") \in UserKind /\ \A l \in Lines : User(l) \in UserKind
  BY DEF UserKind
<1> QED BY <1>1, <1>3, <1>4, <1>5, <1>6

LEMMA SectionIs ==
  ASSUME NEW h \in HostSets
  PROVE  /\ Section(h) \in Seq(AnyKind) /\ Len(Section(h)) = 3
         /\ Section(h)[1] = Marker("start")
         /\ Section(h)[2] = HostLines(h)
         /\ Section(h)[3] = Marker("end")
<1>1. /\ Marker("start") \in AnyKind /\ Marker("end") \in AnyKind
      /\ HostLines(h) \in AnyKind
  BY DEF AnyKind
<1> HIDE DEF Marker, HostLines
<1> QED BY <1>1 DEF Section

LEMMA Widen ==
  ASSUME NEW a \in Seq(UserKind)
  PROVE  /\ a \in Seq(AnyKind) /\ Len(a) \in Nat
         /\ \A i \in 1 .. Len(a) : a[i] \in UserKind /\ a[i].kind = "user"
<1>1. a \in Seq(AnyKind)
  BY Kinds, SeqMonotonic
<1>2. Len(a) \in Nat /\ \A i \in 1 .. Len(a) : a[i] \in UserKind
  BY ElementOfSeq, LenProperties
<1> QED BY <1>1, <1>2, Kinds

LEMMA Joined ==
  ASSUME NEW S, NEW s \in Seq(S), NEW t \in Seq(S)
  PROVE  /\ s \o t \in Seq(S) /\ Len(s \o t) = Len(s) + Len(t)
         /\ \A i \in 1 .. Len(s) : (s \o t)[i] = s[i]
         /\ \A i \in 1 .. Len(t) : (s \o t)[Len(s) + i] = t[i]
<1> DEFINE c == s \o t
<1>1. /\ c \in Seq(S) /\ Len(c) = Len(s) + Len(t)
      /\ \A i \in 1 .. Len(s) + Len(t) :
           c[i] = IF i <= Len(s) THEN s[i] ELSE t[i - Len(s)]
  BY ConcatProperties, Zenon
<1>2. Len(s) \in Nat /\ Len(t) \in Nat
  BY LenProperties
<1> HIDE DEF c
<1>3. \A i \in 1 .. Len(t) : c[Len(s) + i] = t[i]
  <2> TAKE i \in 1 .. Len(t)
  <2>1. /\ Len(s) + i \in 1 .. Len(s) + Len(t) /\ ~(Len(s) + i <= Len(s))
        /\ (Len(s) + i) - Len(s) = i
    BY <1>2
  <2> QED BY <1>1, <2>1
<1>4. \A i \in 1 .. Len(s) : c[i] = s[i]
  BY <1>1, <1>2
<1> QED BY <1>1, <1>3, <1>4 DEF c

\* Line by line.
LEMMA AroundIs ==
  ASSUME NEW a \in Seq(UserKind), NEW b \in Seq(UserKind), NEW h \in HostSets
  PROVE  LET L == Around(a, h, b)
             n == Len(a) IN
         /\ L \in Seq(AnyKind) /\ Len(L) = n + 3 + Len(b)
         /\ DOMAIN L = 1 .. n + 3 + Len(b)
         /\ \A i \in 1 .. n : L[i] = a[i]
         /\ L[n + 1] = Marker("start")
         /\ L[n + 2] = HostLines(h)
         /\ L[n + 3] = Marker("end")
         /\ \A i \in 1 .. Len(b) : L[n + 3 + i] = b[i]
<1> DEFINE S == Section(h)
           P == a \o S
           L == P \o b
<1>1. /\ a \in Seq(AnyKind) /\ b \in Seq(AnyKind) /\ Len(a) \in Nat /\ Len(b) \in Nat
  BY Widen
<1>2. S \in Seq(AnyKind) /\ Len(S) = 3
  BY SectionIs
<1>3. /\ S[1] = Marker("start") /\ S[2] = HostLines(h) /\ S[3] = Marker("end")
  BY SectionIs
<1> HIDE DEF S
<1>10. \A s, t \in Seq(AnyKind) :
         /\ s \o t \in Seq(AnyKind) /\ Len(s \o t) = Len(s) + Len(t)
         /\ \A i \in 1 .. Len(s) : (s \o t)[i] = s[i]
         /\ \A i \in 1 .. Len(t) : (s \o t)[Len(s) + i] = t[i]
  BY Joined
<1>4. /\ P \in Seq(AnyKind) /\ Len(P) = Len(a) + Len(S)
      /\ \A i \in 1 .. Len(a) : P[i] = a[i]
      /\ \A i \in 1 .. Len(S) : P[Len(a) + i] = S[i]
  BY <1>1, <1>2, <1>10, Zenon
<1> HIDE DEF P
<1>5. /\ L \in Seq(AnyKind) /\ Len(L) = Len(P) + Len(b)
      /\ \A i \in 1 .. Len(P) : L[i] = P[i]
      /\ \A i \in 1 .. Len(b) : L[Len(P) + i] = b[i]
  BY <1>1, <1>4, <1>10, Zenon
<1>6. DOMAIN L = 1 .. Len(L) /\ L = Around(a, h, b)
  BY <1>5, LenProperties DEF Around, P, S
<1> HIDE DEF L
<1>7. /\ \A i \in 1 .. Len(a) : L[i] = a[i]
      /\ L[Len(a) + 1] = S[1] /\ L[Len(a) + 2] = S[2] /\ L[Len(a) + 3] = S[3]
      /\ \A i \in 1 .. Len(b) : L[Len(a) + 3 + i] = b[i]
  BY <1>1, <1>2, <1>4, <1>5
<1>8. Len(L) = Len(a) + 3 + Len(b)
  BY <1>1, <1>2, <1>4, <1>5
<1> QED BY <1>3, <1>5, <1>6, <1>7, <1>8

\* Where the lines of hermit's and of the user's are.
LEMMA AroundPlaces ==
  ASSUME NEW a \in Seq(UserKind), NEW b \in Seq(UserKind), NEW h \in HostSets,
         NEW open \in BOOLEAN
  PROVE  LET t == Text(Around(a, h, b), open)
             n == Len(a)
             m == Len(b) IN
         /\ UserPlaces(t) = (1 .. n) \union (n + 4 .. n + 3 + m)
         /\ DOMAIN t.lines \ UserPlaces(t) = n + 1 .. n + 3
         /\ Places(t, "start") = {n + 1}
         /\ Fails(t) <=> open /\ m = 0
         /\ ~Fails(t) => Places(t, "end") = {n + 3}
<1> DEFINE L == Around(a, h, b)
           n == Len(a)
           m == Len(b)
           t == Text(L, open)
<1>1. n \in Nat /\ m \in Nat
  BY Widen
<1>2. t.lines = L /\ t.open = open
  BY DEF Text
<1>3. /\ Len(L) = n + 3 + m /\ DOMAIN L = 1 .. n + 3 + m
      /\ \A i \in 1 .. n : L[i] = a[i]
      /\ L[n + 1] = Marker("start") /\ L[n + 2] = HostLines(h) /\ L[n + 3] = Marker("end")
      /\ \A i \in 1 .. m : L[n + 3 + i] = b[i]
  BY AroundIs, Zenon
<1>11. /\ \A i \in 1 .. n : a[i].kind = "user"
       /\ \A i \in 1 .. m : b[i].kind = "user"
  BY Widen
<1> HIDE DEF L, n, m, t
<1>12. /\ \A i \in 1 .. n : L[i].kind = "user"
       /\ L[n + 1].kind = "start" /\ L[n + 2].kind = "hosts" /\ L[n + 3].kind = "end"
       /\ \A i \in 1 .. m : L[n + 3 + i].kind = "user"
  BY <1>3, <1>11, Kinds
<1>4. \A i \in 1 .. n + 3 + m :
         \/ i \in 1 .. n /\ L[i].kind = "user"
         \/ i = n + 1 /\ L[i].kind = "start"
         \/ i = n + 2 /\ L[i].kind = "hosts"
         \/ i = n + 3 /\ L[i].kind = "end"
         \/ i \in n + 4 .. n + 3 + m /\ L[i].kind = "user"
  <2> TAKE i \in 1 .. n + 3 + m
  <2>1. CASE i \in n + 4 .. n + 3 + m
    <3>1. i - n - 3 \in 1 .. m /\ n + 3 + (i - n - 3) = i
      BY <1>1, <2>1
    <3> QED BY <1>12, <2>1, <3>1
  <2>2. \/ i \in 1 .. n \/ i = n + 1 \/ i = n + 2 \/ i = n + 3
        \/ i \in n + 4 .. n + 3 + m
    BY <1>1
  <2> QED BY <1>12, <2>1, <2>2
<1>5. /\ n + 1 \in DOMAIN L /\ n + 3 \in DOMAIN L
      /\ Len(L) # n + 1 /\ (Len(L) = n + 3 <=> m = 0)
  BY <1>1, <1>3
<1>6. Places(t, "start") = {n + 1}
  BY <1>1, <1>2, <1>3, <1>4, <1>5 DEF Places
<1>7. Places(t, "end") = IF open /\ m = 0 THEN {} ELSE {n + 3}
  BY <1>1, <1>2, <1>3, <1>4, <1>5 DEF Places
<1>8. UserPlaces(t) = (1 .. n) \union (n + 4 .. n + 3 + m)
  <2>1. \A i \in 1 .. n + 3 + m :
           L[i].kind = "user" <=> i \in 1 .. n \/ i \in n + 4 .. n + 3 + m
    BY <1>1, <1>4
  <2>2. 1 .. n \subseteq 1 .. n + 3 + m /\ n + 4 .. n + 3 + m \subseteq 1 .. n + 3 + m
    BY <1>1
  <2>3. UserPlaces(t) = {i \in 1 .. n + 3 + m : L[i].kind = "user"}
    BY <1>2, <1>3 DEF UserPlaces
  <2> QED BY <2>1, <2>2, <2>3
<1>9. DOMAIN t.lines \ UserPlaces(t) = n + 1 .. n + 3
  BY <1>1, <1>2, <1>3, <1>8
<1>10. Fails(t) <=> open /\ m = 0
  BY <1>6, <1>7 DEF Fails
<1> QED BY <1>6, <1>7, <1>8, <1>9, <1>10 DEF L, n, m, t

\* A file without a section.
LEMMA PlainPlaces ==
  ASSUME NEW a \in Seq(UserKind), NEW open \in BOOLEAN
  PROVE  LET t == Text(a, open) IN
         /\ UserPlaces(t) = 1 .. Len(a) /\ DOMAIN t.lines = 1 .. Len(a)
         /\ Places(t, "start") = {} /\ ~Fails(t)
<1> DEFINE t == Text(a, open)
<1>1. t.lines = a /\ t.open = open
  BY DEF Text
<1>2. /\ DOMAIN a = 1 .. Len(a) /\ \A i \in 1 .. Len(a) : a[i].kind = "user"
  BY Widen, LenProperties
<1> HIDE DEF t
<1>3. UserPlaces(t) = 1 .. Len(a) /\ Places(t, "start") = {}
  BY <1>1, <1>2 DEF UserPlaces, Places
<1> QED BY <1>1, <1>2, <1>3 DEF Fails, t

LEMMA LeastOfOne ==
  ASSUME NEW i \in Int PROVE Min({i}) = i
BY DEF Min

----------------------------------------------------------------------------
(* What an update computes from such a file.                               *)

LEMMA Removed ==
  ASSUME NEW a \in Seq(UserKind), NEW b \in Seq(UserKind), NEW h \in HostSets,
         NEW open \in BOOLEAN, ~Fails(Text(Around(a, h, b), open))
  PROVE  RemoveSection(Text(Around(a, h, b), open)) = Text(a \o b, open)
<1> DEFINE L == Around(a, h, b)
           n == Len(a)
           m == Len(b)
           t == Text(L, open)
           before == SubSeq(L, 1, n)
           after == SubSeq(L, n + 4, n + 3 + m)
<1>1. n \in Nat /\ m \in Nat
  BY Widen
<1>2. t.lines = L /\ t.open = open
  BY DEF Text
<1>3. /\ Len(L) = n + 3 + m
      /\ \A i \in 1 .. n : L[i] = a[i]
      /\ \A i \in 1 .. m : L[n + 3 + i] = b[i]
  BY AroundIs, Zenon
<1>4. Places(t, "start") = {n + 1} /\ Places(t, "end") = {n + 3}
  <2>1. ~Fails(t)
    OBVIOUS
  <2> HIDE DEF t
  <2>2. /\ Places(t, "start") = {n + 1}
        /\ ~Fails(t) => Places(t, "end") = {n + 3}
    BY AroundPlaces DEF t
  <2> QED BY <2>1, <2>2
<1>5. /\ \A i \in 1 .. n : a[i] \in UserKind
      /\ \A i \in 1 .. m : b[i] \in UserKind
  BY Widen
<1> HIDE DEF L, n, m, t
<1>6. /\ before \in Seq(UserKind) /\ Len(before) = n
      /\ \A i \in 1 .. n : before[i] = a[i]
  <2>1. \A i \in 1 .. n : L[i] \in UserKind
    BY <1>3, <1>5
  <2>2. /\ before \in Seq(UserKind)
        /\ Len(before) = IF 1 <= n THEN n - 1 + 1 ELSE 0
        /\ \A i \in 1 .. n - 1 + 1 : before[i] = L[1 + i - 1]
    BY <1>1, <2>1, SubSeqProperties
  <2> HIDE DEF before
  <2> QED BY <1>1, <1>3, <2>2
<1>7. /\ after \in Seq(UserKind) /\ Len(after) = m
      /\ \A i \in 1 .. m : after[i] = b[i]
  <2>1. \A i \in n + 4 .. n + 3 + m : L[i] \in UserKind
    <3> TAKE i \in n + 4 .. n + 3 + m
    <3>1. i - n - 3 \in 1 .. m /\ n + 3 + (i - n - 3) = i
      BY <1>1
    <3> QED BY <1>3, <1>5, <3>1
  <2> DEFINE from == n + 4
             to == n + 3 + m
  <2>2. from \in Int /\ to \in Int /\ \A i \in from .. to : L[i] \in UserKind
    BY <1>1, <2>1
  <2>3. /\ after \in Seq(UserKind)
        /\ Len(after) = IF from <= to THEN to - from + 1 ELSE 0
        /\ \A i \in 1 .. to - from + 1 : after[i] = L[from + i - 1]
    <3> HIDE DEF from, to
    <3>1. after = SubSeq(L, from, to)
      BY DEF from, to
    <3> HIDE DEF after
    <3> QED BY <2>2, <3>1, SubSeqProperties
  <2> HIDE DEF after
  <2>4. \A i \in 1 .. m : i \in 1 .. to - from + 1 /\ from + i - 1 = n + 3 + i
    BY <1>1
  <2> QED BY <1>1, <1>3, <2>3, <2>4
<1>8. before = a /\ after = b
  <2> HIDE DEF before, after
  <2>1. /\ n = Len(a) /\ m = Len(b)
    BY DEF n, m
  <2> QED BY <1>6, <1>7, <2>1, SeqEqual
<1>9. Min(Places(t, "start")) - 1 = n /\ Min(Places(t, "end")) + 1 = n + 4
  BY <1>1, <1>4, LeastOfOne
<1>10. RemoveSection(t) = Text(before \o after, open)
  <2> HIDE DEF Text, Places
  <2>1. Places(t, "start") # {}
    BY <1>4
  <2> QED BY <1>2, <1>3, <1>9, <2>1 DEF RemoveSection
<1> QED BY <1>8, <1>10 DEF t, L

\* The user's lines that an update keeps.
LEMMA Kept ==
  ASSUME NEW t \in Texts, Shaped(t.lines), ~Fails(t)
  PROVE  \E k \in Seq(UserKind) :
           /\ EndLine(RemoveSection(t)) = Text(k, FALSE)
           /\ ~t.open => \/ k = t.lines
                         \/ \E a, b \in Seq(UserKind), h \in HostSets :
                              t.lines = Around(a, h, b) /\ k = a \o b
<1>1. t = Text(t.lines, t.open) /\ t.open \in BOOLEAN
  BY DEF Texts, Text
<1>2. \A k, open : Text(k, open).lines = k /\ Text(k, open).open = open
  BY DEF Text
<1>3. BlankLine = Text(<<User("")>>, FALSE) /\ <<User("")>> \in Seq(UserKind)
  <2>1. User("") \in UserKind
    BY Kinds
  <2>2. \A x \in UserKind : <<x>> \in Seq(UserKind)
    OBVIOUS
  <2> QED BY <2>1, <2>2, Zenon DEF BlankLine
<1>4. ASSUME NEW k \in Seq(UserKind), RemoveSection(t) = Text(k, t.open)
      PROVE  \E j \in Seq(UserKind) :
               EndLine(RemoveSection(t)) = Text(j, FALSE) /\ (~t.open => j = k)
  <2> HIDE DEF Text, RemoveSection, BlankLine, User
  <2>1. CASE t.open
    BY <1>2, <1>3, <1>4, <2>1 DEF EndLine
  <2>2. CASE ~t.open
    <3>1. t.open = FALSE /\ RemoveSection(t).open = FALSE
      BY <1>1, <1>2, <1>4, <2>2
    <3>2. EndLine(RemoveSection(t)) = Text(k, FALSE)
      BY <1>4, <3>1 DEF EndLine
    <3> QED BY <1>4, <3>2
  <2> QED BY <2>1, <2>2
<1>5. CASE t.lines \in Seq(UserKind)
  <2>1. Places(t, "start") = {}
    BY <1>1, <1>5, PlainPlaces, Zenon
  <2>2. RemoveSection(t) = Text(t.lines, t.open)
    BY <1>1, <2>1 DEF RemoveSection
  <2> QED BY <1>4, <1>5, <2>2, Zenon
<1>6. CASE \E a, b \in Seq(UserKind), h \in HostSets : t.lines = Around(a, h, b)
  <2>1. PICK a \in Seq(UserKind), b \in Seq(UserKind), h \in HostSets :
          t.lines = Around(a, h, b)
    BY <1>6
  <2>2. RemoveSection(t) = Text(a \o b, t.open)
    <3>1. ~Fails(Text(Around(a, h, b), t.open))
      BY <1>1, <2>1, Zenon
    <3>2. RemoveSection(Text(Around(a, h, b), t.open)) = Text(a \o b, t.open)
      BY <1>1, <3>1, Removed, Zenon
    <3> QED BY <1>1, <2>1, <3>2, Zenon
  <2>3. a \o b \in Seq(UserKind)
    BY ConcatProperties
  <2> QED BY <1>4, <2>1, <2>2, <2>3, Zenon
<1> QED BY <1>5, <1>6 DEF Shaped

\* With a section at the end, or without one.
LEMMA Ends ==
  ASSUME NEW k \in Seq(UserKind), NEW h \in HostSets
  PROVE  /\ k \o Section(h) = Around(k, h, <<>>) /\ <<>> \in Seq(UserKind)
         /\ k \o Section(h) \in Seq(AnyKind) /\ k \in Seq(AnyKind)
         /\ Shaped(k) /\ Shaped(k \o Section(h))
         /\ k \o <<>> = k
<1>1. <<>> \in Seq(UserKind) /\ k \in Seq(AnyKind) /\ k \o <<>> = k
  BY Widen, EmptySeq, ConcatEmptySeq
<1>2. k \o Section(h) \in Seq(AnyKind)
  BY <1>1, SectionIs, ConcatProperties
<1>3. k \o Section(h) = Around(k, h, <<>>)
  BY <1>2, ConcatEmptySeq DEF Around
<1> QED BY <1>1, <1>2, <1>3 DEF Shaped

LEMMA UpdatedIs ==
  ASSUME NEW t, NEW k, EndLine(RemoveSection(t)) = Text(k, FALSE), NEW h
  PROVE  Updated(t, h) = Text(IF h = {} THEN k ELSE k \o Section(h), FALSE)
<1>1. Text(k, FALSE).lines = k
  BY DEF Text
<1> HIDE DEF Text, EndLine, RemoveSection, Section
<1> QED BY <1>1 DEF Updated

----------------------------------------------------------------------------
(* The shape is kept, and shows at most one section.                       *)

LEMMA TextIs ==
  ASSUME NEW lines \in Seq(AnyKind), NEW open \in BOOLEAN
  PROVE  /\ Text(lines, open) \in Texts
         /\ Text(lines, open).lines = lines /\ Text(lines, open).open = open
<1>1. Texts = [lines : Seq(AnyKind), open : BOOLEAN]
  BY DEF Texts, AnyKind, UserKind
<1> QED BY <1>1 DEF Text

LEMMA TextsAre ==
  ASSUME NEW t \in Texts
  PROVE  t.lines \in Seq(AnyKind) /\ t.open \in BOOLEAN /\ t = Text(t.lines, t.open)
<1>1. Texts = [lines : Seq(AnyKind), open : BOOLEAN]
  BY DEF Texts, AnyKind, UserKind
<1> QED BY <1>1 DEF Text

\* An update leaves a file of the same shape, which it can update again.
LEMMA UpdateShape ==
  ASSUME NEW t \in Texts, Shaped(t.lines), ~Fails(t), NEW h \in HostSets
  PROVE  /\ Updated(t, h) \in Texts /\ Shaped(Updated(t, h).lines)
         /\ ~Updated(t, h).open
         /\ ~Fails(Updated(t, h)) /\ Updated(Updated(t, h), h) = Updated(t, h)
<1>1. PICK k \in Seq(UserKind) : EndLine(RemoveSection(t)) = Text(k, FALSE)
  BY Kept
<1> DEFINE L == IF h = {} THEN k ELSE k \o Section(h)
           new == Text(L, FALSE)
<1>2. Updated(t, h) = new
  BY <1>1, UpdatedIs, Zenon
<1>3. /\ k \in Seq(AnyKind) /\ k \o Section(h) \in Seq(AnyKind)
      /\ Shaped(k) /\ Shaped(k \o Section(h))
      /\ k \o Section(h) = Around(k, h, <<>>) /\ <<>> \in Seq(UserKind)
      /\ k \o <<>> = k
  BY Ends, Zenon
<1>4. L \in Seq(AnyKind) /\ Shaped(L)
  BY <1>3
<1>5. new \in Texts /\ new.lines = L /\ new.open = FALSE
  BY <1>4, TextIs, Zenon
<1>6. ~Fails(new) /\ RemoveSection(new) = Text(k, FALSE)
  <2>1. CASE h = {}
    <3>1. new = Text(k, FALSE)
      BY <2>1
    <3>2. ~Fails(new) /\ Places(new, "start") = {}
      BY <3>1, PlainPlaces, Zenon
    <3> HIDE DEF new
    <3> QED BY <3>1, <3>2 DEF RemoveSection
  <2>2. CASE h # {}
    <3>1. new = Text(Around(k, h, <<>>), FALSE)
      BY <2>2, <1>3, Zenon
    <3>2. ~Fails(Text(Around(k, h, <<>>), FALSE))
      BY <1>3, AroundPlaces
    <3>3. RemoveSection(Text(Around(k, h, <<>>), FALSE)) = Text(k \o <<>>, FALSE)
      BY <1>3, <3>2, Removed, Zenon
    <3> QED BY <1>3, <3>1, <3>2, <3>3, Zenon
  <2> QED BY <2>1, <2>2
<1>7. EndLine(RemoveSection(new)) = Text(k, FALSE)
  <2>1. Text(k, FALSE).open = FALSE
    BY DEF Text
  <2> HIDE DEF Text
  <2> QED BY <1>6, <2>1 DEF EndLine
<1>8. Updated(new, h) = new
  BY <1>7, UpdatedIs, Zenon
<1> HIDE DEF new
<1> QED BY <1>2, <1>4, <1>5, <1>6, <1>8

\* One more line of the user's, last or first.
LEMMA Grows ==
  ASSUME NEW lines, Shaped(lines), NEW x \in UserKind
  PROVE  /\ Append(lines, x) \in Seq(AnyKind) /\ Shaped(Append(lines, x))
         /\ <<x>> \o lines \in Seq(AnyKind) /\ Shaped(<<x>> \o lines)
         /\ Append(lines, x) # <<>> /\ <<x>> \o lines # <<>>
<1>1. <<x>> \in Seq(UserKind) /\ <<x>> \in Seq(AnyKind) /\ x \in AnyKind
  <2>1. <<x>> \in Seq(UserKind)
    OBVIOUS
  <2> QED BY <2>1, Widen, Kinds
<1>2. lines \in Seq(AnyKind)
  BY AroundIs, Widen DEF Shaped
<1>3. Append(lines, x) \in Seq(AnyKind) /\ Append(lines, x) # <<>>
  BY <1>1, <1>2, AppendProperties
<1>4. <<x>> \o lines \in Seq(AnyKind) /\ Len(<<x>> \o lines) = 1 + Len(lines)
  BY <1>1, <1>2, ConcatProperties
<1>5. <<x>> \o lines # <<>>
  BY <1>2, <1>4, LenProperties, EmptySeq
<1>6. CASE lines \in Seq(UserKind)
  <2>1. Append(lines, x) \in Seq(UserKind) /\ <<x>> \o lines \in Seq(UserKind)
    BY <1>1, <1>6, AppendProperties, ConcatProperties
  <2> QED BY <1>3, <1>4, <1>5, <2>1 DEF Shaped
<1>7. CASE \E a, b \in Seq(UserKind), h \in HostSets : lines = Around(a, h, b)
  <2>1. PICK a \in Seq(UserKind), b \in Seq(UserKind), h \in HostSets :
          lines = Around(a, h, b)
    BY <1>7
  <2> DEFINE S == Section(h)
             P == a \o S
  <2>2. /\ S \in Seq(AnyKind) /\ a \in Seq(AnyKind) /\ b \in Seq(AnyKind)
        /\ P \in Seq(AnyKind) /\ lines = P \o b
    BY <2>1, SectionIs, Widen, ConcatProperties DEF Around
  <2> HIDE DEF S
  <2>10. \A s, t, u \in Seq(AnyKind) : (s \o t) \o u = s \o (t \o u)
    BY ConcatAssociative
  <2>3. <<x>> \o a \in Seq(UserKind) /\ b \o <<x>> \in Seq(UserKind)
    BY <1>1, ConcatProperties
  <2>4. Append(lines, x) = (P \o b) \o <<x>>
    BY <1>1, <1>2, <2>2, AppendIsConcat
  <2>5. (P \o b) \o <<x>> = P \o (b \o <<x>>)
    <3> HIDE DEF P
    <3> QED BY <1>1, <2>2, <2>10, Zenon
  <2>6. <<x>> \o (P \o b) = (<<x>> \o P) \o b
    <3> HIDE DEF P
    <3> QED BY <1>1, <2>2, <2>10, Zenon
  <2>7. <<x>> \o P = (<<x>> \o a) \o S
    BY <1>1, <2>2, <2>10, Zenon
  <2>8. Append(lines, x) = Around(a, h, b \o <<x>>)
    BY <2>4, <2>5, Zenon DEF Around, S
  <2>9. <<x>> \o lines = Around(<<x>> \o a, h, b)
    BY <2>2, <2>6, <2>7, Zenon DEF Around, S
  <2> QED BY <1>3, <1>4, <1>5, <2>3, <2>8, <2>9, Zenon DEF Shaped
<1> QED BY <1>6, <1>7 DEF Shaped

LEMMA SInit == Init => SInv
<1> SUFFICES ASSUME Init PROVE SInv
  OBVIOUS
<1>1. <<>> \in Seq(UserKind) /\ <<>> \in Seq(AnyKind)
  BY EmptySeq
<1>2. text = Text(<<>>, FALSE) /\ Text(<<>>, FALSE) \in Texts
      /\ text.lines = <<>> /\ text.open = FALSE
  BY <1>1, TextIs DEF Init, NoText
<1>3. backups = [t \in 0 .. MaxTime |-> Text(<<>>, FALSE)] /\ now = 0 /\ MaxTime \in Nat
  BY BoundsAssumption DEF Init, NoText
<1> HIDE DEF Init
<1>4. backups \in [0 .. MaxTime -> Texts] /\ now \in 0 .. MaxTime
  <2> DEFINE T == Text(<<>>, FALSE)
  <2>1. T \in Texts /\ backups = [t \in 0 .. MaxTime |-> T]
    BY <1>2, <1>3, Zenon
  <2> HIDE DEF T
  <2> QED BY <2>1, <1>3
<1>5. text \in Texts
  BY <1>2, Zenon
<1>6. written \subseteq Lines /\ hasty \in BOOLEAN
  BY DEF Init
<1> QED BY <1>1, <1>2, <1>4, <1>5, <1>6 DEF SInv, TypeOK, Shaped

LEMMA SStep == SInv /\ [Next]_vars => SInv'
<1> SUFFICES ASSUME SInv, [Next]_vars PROVE SInv'
  OBVIOUS
<1>1. /\ text \in Texts /\ (text.open => text.lines # <<>>)
      /\ backups \in [0 .. MaxTime -> Texts] /\ now \in 0 .. MaxTime
      /\ written \subseteq Lines /\ hasty \in BOOLEAN
      /\ Shaped(text.lines)
  BY DEF SInv, TypeOK
<1>2. ASSUME NEW h \in HostSets, UpdateSshConfig(h)
      PROVE  SInv'
  <2>1. text' = Updated(text, h) /\ now' = now /\ ~Fails(text)
    BY <1>2 DEF UpdateSshConfig, ReplaceIfChanged
  <2>2. text' \in Texts /\ Shaped(text'.lines) /\ ~text'.open
    BY <1>1, <2>1, UpdateShape, Zenon
  <2>3. backups' \in [0 .. MaxTime -> Texts]
    BY <1>1, <1>2 DEF UpdateSshConfig, ReplaceIfChanged
  <2>4. written' = written /\ hasty' \in BOOLEAN
    <3>1. hasty' = (hasty \/ (text' # text /\ backups[now] # NoText))
      BY <1>2 DEF UpdateSshConfig
    <3> QED BY <1>2, <3>1, Zenon DEF UpdateSshConfig
  <2> QED BY <1>1, <2>1, <2>2, <2>3, <2>4 DEF SInv, TypeOK
<1>3. ASSUME NEW l \in Lines, UserAdds(l)
      PROVE  SInv'
  <2>1. User(l) \in UserKind
    BY Kinds
  <2>2. /\ Append(text.lines, User(l)) \in Seq(AnyKind)
        /\ Shaped(Append(text.lines, User(l)))
        /\ <<User(l)>> \o text.lines \in Seq(AnyKind)
        /\ Shaped(<<User(l)>> \o text.lines)
        /\ Append(text.lines, User(l)) # <<>> /\ <<User(l)>> \o text.lines # <<>>
    BY <1>1, <2>1, Grows, Zenon
  <2>3. [text EXCEPT !.lines = <<User(l)>> \o @] = Text(<<User(l)>> \o text.lines, text.open)
    <3>1. text = [lines |-> text.lines, open |-> text.open]
      BY <1>1, TextsAre DEF Text
    <3> DEFINE L == <<User(l)>> \o text.lines
    <3> HIDE DEF L
    <3>2. [text EXCEPT !.lines = L] = Text(L, text.open)
      BY <3>1 DEF Text
    <3> QED BY <3>2 DEF L
  <2>4. \/ text' = Text(Append(text.lines, User(l)), FALSE)
        \/ text' = Text(<<User(l)>> \o text.lines, text.open)
    BY <1>3, <2>3 DEF UserAdds
  <2>5. text' \in Texts /\ Shaped(text'.lines) /\ text'.lines # <<>>
    <3>1. text.open \in BOOLEAN /\ FALSE \in BOOLEAN
      BY <1>1, TextsAre
    <3>2. CASE text' = Text(Append(text.lines, User(l)), FALSE)
      BY <2>2, <3>1, <3>2, TextIs, Zenon
    <3>3. CASE text' = Text(<<User(l)>> \o text.lines, text.open)
      BY <2>2, <3>1, <3>3, TextIs, Zenon
    <3> QED BY <2>4, <3>2, <3>3
  <2>6. UNCHANGED <<backups, now, hasty>> /\ written' = written \union {l}
    BY <1>3 DEF UserAdds
  <2> QED BY <1>1, <2>5, <2>6 DEF SInv, TypeOK
<1>4. CASE UserTrims
  <2>1. text' = Text(text.lines, TRUE) /\ text.lines # <<>>
    <3>1. text = [lines |-> text.lines, open |-> text.open]
      BY <1>1, TextsAre DEF Text
    <3> QED BY <1>4, <3>1 DEF UserTrims, Text
  <2>2. text' \in Texts /\ text'.lines = text.lines
    BY <1>1, <2>1, TextIs, TextsAre, Zenon
  <2>3. UNCHANGED <<backups, now, written, hasty>>
    BY <1>4 DEF UserTrims, history
  <2> QED BY <1>1, <2>1, <2>2, <2>3 DEF SInv, TypeOK
<1>7. CASE UserEnds
  <2>1. text' = Text(text.lines, FALSE)
    <3>1. text = [lines |-> text.lines, open |-> text.open]
      BY <1>1, TextsAre DEF Text
    <3> QED BY <1>7, <3>1 DEF UserEnds, Text
  <2>2. text' \in Texts /\ text'.lines = text.lines /\ ~text'.open
    BY <1>1, <2>1, TextIs, TextsAre, Zenon
  <2>3. UNCHANGED <<backups, now, written, hasty>>
    BY <1>7 DEF UserEnds, history
  <2> QED BY <1>1, <2>2, <2>3 DEF SInv, TypeOK
<1>5. CASE Tick
  BY <1>1, <1>5, BoundsAssumption DEF SInv, TypeOK, Tick, history
<1>6. CASE UNCHANGED vars
  BY <1>1, <1>6 DEF SInv, TypeOK, vars
<1> QED BY <1>2, <1>3, <1>4, <1>5, <1>6, <1>7 DEF Next

\* The places of the lines in between make one piece.
LEMMA OneShape ==
  ASSUME NEW t \in Texts, Shaped(t.lines)
  PROVE  LET own == DOMAIN t.lines \ UserPlaces(t)
         IN own = {} \/ \E i \in own, h \in HostSets :
              own = i .. i + 2 /\ SubSeq(t.lines, i, i + 2) = Section(h)
<1> DEFINE own == DOMAIN t.lines \ UserPlaces(t)
<1>1. t = Text(t.lines, t.open) /\ t.open \in BOOLEAN
  BY TextsAre, Zenon
<1>2. CASE t.lines \in Seq(UserKind)
  <2>1. /\ UserPlaces(Text(t.lines, t.open)) = 1 .. Len(t.lines)
        /\ DOMAIN Text(t.lines, t.open).lines = 1 .. Len(t.lines)
    BY <1>1, <1>2, PlainPlaces, Zenon
  <2>2. UserPlaces(t) = 1 .. Len(t.lines) /\ DOMAIN t.lines = 1 .. Len(t.lines)
    BY <1>1, <2>1, Zenon
  <2> QED BY <2>2
<1>3. CASE \E a, b \in Seq(UserKind), h \in HostSets : t.lines = Around(a, h, b)
  <2>1. PICK a \in Seq(UserKind), b \in Seq(UserKind), h \in HostSets :
          t.lines = Around(a, h, b)
    BY <1>3
  <2> DEFINE L == Around(a, h, b)
             n == Len(a)
             part == SubSeq(L, n + 1, n + 3)
  <2>2. t = Text(L, t.open)
    BY <1>1, <2>1, Zenon
  <2>3. DOMAIN Text(L, t.open).lines \ UserPlaces(Text(L, t.open)) = n + 1 .. n + 3
    BY <1>1, AroundPlaces
  <2>4. own = n + 1 .. n + 3 /\ n \in Nat
    BY <2>2, <2>3, Widen, Zenon
  <2>5. /\ L[n + 1] = Marker("start") /\ L[n + 2] = HostLines(h) /\ L[n + 3] = Marker("end")
    BY AroundIs, Zenon
  <2>6. /\ Section(h) \in Seq(AnyKind) /\ Len(Section(h)) = 3
        /\ Section(h)[1] = L[n + 1] /\ Section(h)[2] = L[n + 2]
        /\ Section(h)[3] = L[n + 3]
    BY <2>5, SectionIs, Zenon
  <2>7. part = Section(h)
    <3> DEFINE S == Section(h)
    <3>1. /\ S \in Seq(AnyKind) /\ Len(S) = 3
          /\ S[1] = L[n + 1] /\ S[2] = L[n + 2] /\ S[3] = L[n + 3]
      BY <2>6, Zenon
    <3> HIDE DEF S, L
    <3>2. \A i \in 1 .. 3 : i = 1 \/ i = 2 \/ i = 3
      OBVIOUS
    <3>3. \A i \in 1 .. 3 : S[i] \in AnyKind
      BY <3>1, ElementOfSeq
    <3> DEFINE from == n + 1
               to == n + 3
    <3>4. /\ from \in Int /\ to \in Int /\ from <= to /\ to - from + 1 = 3
          /\ \A i \in from .. to : i = n + 1 \/ i = n + 2 \/ i = n + 3
          /\ from + 1 - 1 = n + 1 /\ from + 2 - 1 = n + 2 /\ from + 3 - 1 = n + 3
      BY <2>4
    <3>5. \A i \in from .. to : L[i] \in AnyKind
      BY <3>1, <3>3, <3>4
    <3>6. part = SubSeq(L, from, to)
      OBVIOUS
    <3> HIDE DEF part, from, to
    <3>7. /\ part \in Seq(AnyKind) /\ Len(part) = 3
          /\ \A i \in 1 .. 3 : part[i] = L[from + i - 1]
      BY <3>4, <3>5, <3>6, SubSeqProperties
    <3>8. \A i \in 1 .. 3 : part[i] = S[i]
      BY <3>1, <3>2, <3>4, <3>7
    <3>9. part = S
      BY <3>1, <3>7, <3>8, SeqEqual
    <3> QED BY <3>9 DEF S
  <2>8. n + 1 \in own /\ (n + 1) + 2 = n + 3
    BY <2>4
  <2> HIDE DEF own
  <2>9. own = (n + 1) .. (n + 1) + 2 /\ SubSeq(t.lines, n + 1, (n + 1) + 2) = Section(h)
    BY <2>1, <2>4, <2>7, <2>8
  <2> QED BY <2>8, <2>9 DEF own
<1> QED BY <1>2, <1>3 DEF Shaped

----------------------------------------------------------------------------
(* The user's lines.                                                       *)

LEMMA SameAsItself ==
  ASSUME NEW t PROVE SameUserLines(t, t)
<1> DEFINE U == UserPlaces(t)
           f == [i \in U |-> i]
<1>1. f \in Surjection(U, U)
  BY DEF Surjection
<1>2. /\ \A i, j \in U : i < j => f[i] < f[j]
      /\ \A i \in U : t.lines[f[i]] = t.lines[i]
  OBVIOUS
<1> QED BY <1>1, <1>2 DEF SameUserLines

\* A section more, or one less, is no matter to them.
LEMMA SameAround ==
  ASSUME NEW a \in Seq(UserKind), NEW b \in Seq(UserKind), NEW g \in HostSets,
         NEW h \in HostSets
  PROVE  /\ SameUserLines(Text(Around(a, g, b), FALSE), Text(a \o b, FALSE))
         /\ SameUserLines(Text(Around(a, g, b), FALSE),
                          Text((a \o b) \o Section(h), FALSE))
         /\ SameUserLines(Text(a, FALSE), Text(a \o Section(h), FALSE))
<1> DEFINE n == Len(a)
           m == Len(b)
           L == Around(a, g, b)
           K == a \o b
           M == K \o Section(h)
           t == Text(L, FALSE)
           u == Text(K, FALSE)
           v == Text(M, FALSE)
           w == Text(a \o Section(h), FALSE)
           P == (1 .. n) \union (n + 4 .. n + 3 + m)
           f == [i \in P |-> IF i <= n THEN i ELSE i - 3]
<1>1. n \in Nat /\ m \in Nat
  BY Widen
<1>2. /\ K \in Seq(UserKind) /\ Len(K) = n + m
      /\ \A i \in 1 .. n : K[i] = a[i]
      /\ \A i \in 1 .. m : K[n + i] = b[i]
  BY Joined
<1>3. /\ \A i \in 1 .. n : L[i] = a[i]
      /\ \A i \in 1 .. m : L[n + 3 + i] = b[i]
  BY AroundIs, Zenon
<1>4. \A k \in Seq(UserKind) :
        /\ k \o Section(h) = Around(k, h, <<>>) /\ <<>> \in Seq(UserKind)
        /\ \A i \in 1 .. Len(k) : Around(k, h, <<>>)[i] = k[i]
  BY Ends, AroundIs
<1>5. UserPlaces(t) = P
  BY AroundPlaces
<1>6. UserPlaces(u) = 1 .. n + m
  BY <1>2, PlainPlaces
<1>7. \A k \in Seq(UserKind) :
        UserPlaces(Text(k \o Section(h), FALSE)) = 1 .. Len(k)
  <2> TAKE k \in Seq(UserKind)
  <2>1. /\ k \o Section(h) = Around(k, h, <<>>) /\ <<>> \in Seq(UserKind)
    BY <1>4, Zenon
  <2>2. UserPlaces(Text(Around(k, h, <<>>), FALSE)) =
          (1 .. Len(k)) \union (Len(k) + 4 .. Len(k) + 3 + Len(<<>>))
    BY <2>1, AroundPlaces
  <2>3. Len(k) + 4 .. Len(k) + 3 + Len(<<>>) = {}
    BY Widen
  <2>4. UserPlaces(Text(Around(k, h, <<>>), FALSE)) = 1 .. Len(k)
    BY <2>2, <2>3
  <2> QED BY <2>1, <2>4, Zenon
<1>8. UserPlaces(v) = 1 .. n + m /\ UserPlaces(w) = 1 .. n /\ UserPlaces(Text(a, FALSE)) = 1 .. n
  BY <1>2, <1>7, PlainPlaces
<1>9. /\ t.lines = L /\ u.lines = K /\ v.lines = M /\ w.lines = a \o Section(h)
      /\ Text(a, FALSE).lines = a
  BY DEF Text
<1>10. /\ \A i \in 1 .. n + m : M[i] = K[i]
       /\ \A i \in 1 .. n : (a \o Section(h))[i] = a[i]
  BY <1>2, <1>4
<1> HIDE DEF n, m, K, M, L, t, u, v, w
<1>11. f \in Surjection(P, 1 .. n + m)
  <2>1. f \in [P -> 1 .. n + m]
    BY <1>1
  <2>2. ASSUME NEW j \in 1 .. n + m PROVE \E i \in P : f[i] = j
    <3>1. CASE j <= n
      <4>1. j \in P /\ f[j] = j
        BY <1>1, <3>1
      <4> HIDE DEF f, P
      <4> QED BY <4>1
    <3>2. CASE j > n
      <4>1. j + 3 \in P /\ f[j + 3] = j
        BY <1>1, <3>2
      <4> HIDE DEF f, P
      <4> QED BY <4>1
    <3>3. j <= n \/ j > n
      BY <1>1
    <3> HIDE DEF f, P
    <3> QED BY <3>3, <3>1, <3>2
  <2> QED BY <2>1, <2>2 DEF Surjection
<1>12. \A i, j \in P : i < j => f[i] < f[j]
  BY <1>1
<1>13. \A i \in P : K[f[i]] = L[i] /\ f[i] \in 1 .. n + m
  <2> TAKE i \in P
  <2>1. CASE i <= n
    BY <1>1, <1>2, <1>3, <2>1
  <2>2. CASE i > n
    <3>1. /\ i - n - 3 \in 1 .. m /\ n + 3 + (i - n - 3) = i
          /\ n + (i - n - 3) = i - 3 /\ f[i] = i - 3 /\ i - 3 \in 1 .. n + m
      BY <1>1, <2>2
    <3> QED BY <1>2, <1>3, <3>1
  <2> QED BY <1>1, <2>1, <2>2
<1> HIDE DEF f, P
<1>14. SameUserLines(t, u) /\ SameUserLines(t, v)
  BY <1>5, <1>6, <1>8, <1>9, <1>10, <1>11, <1>12, <1>13 DEF SameUserLines
<1>15. SameUserLines(Text(a, FALSE), w)
  <2> DEFINE e == [i \in 1 .. n |-> i]
  <2>1. e \in Surjection(1 .. n, 1 .. n)
    BY DEF Surjection
  <2>2. /\ \A i, j \in 1 .. n : i < j => e[i] < e[j]
        /\ \A i \in 1 .. n : w.lines[e[i]] = Text(a, FALSE).lines[i]
    BY <1>9, <1>10
  <2> QED BY <1>8, <2>1, <2>2 DEF SameUserLines
<1> QED BY <1>14, <1>15 DEF t, u, v, w, L, K, M

\* An update of a file whose last line is ended.
LEMMA UpdateKeeps ==
  ASSUME NEW t \in Texts, Shaped(t.lines), ~t.open, NEW h \in HostSets
  PROVE  SameUserLines(t, Updated(t, h))
<1>1. t = Text(t.lines, FALSE) /\ t.open = FALSE
  BY TextsAre
<1>2. ~Fails(t)
  <2>1. CASE t.lines \in Seq(UserKind)
    BY <1>1, <2>1, PlainPlaces, Zenon
  <2>2. CASE \E a, b \in Seq(UserKind), g \in HostSets : t.lines = Around(a, g, b)
    <3>1. PICK a \in Seq(UserKind), b \in Seq(UserKind), g \in HostSets :
            t.lines = Around(a, g, b)
      BY <2>2
    <3>2. ~Fails(Text(Around(a, g, b), FALSE))
      BY AroundPlaces
    <3> QED BY <1>1, <3>1, <3>2, Zenon
  <2> QED BY <2>1, <2>2 DEF Shaped
<1>3. PICK k \in Seq(UserKind) :
        /\ EndLine(RemoveSection(t)) = Text(k, FALSE)
        /\ ~t.open => \/ k = t.lines
                      \/ \E a, b \in Seq(UserKind), g \in HostSets :
                           t.lines = Around(a, g, b) /\ k = a \o b
  BY <1>2, Kept, Zenon
<1>4. Updated(t, h) = Text(IF h = {} THEN k ELSE k \o Section(h), FALSE)
  BY <1>3, UpdatedIs, Zenon
<1>5. CASE k = t.lines
  <2>1. SameUserLines(Text(k, FALSE), Text(k, FALSE))
    BY SameAsItself
  <2>2. SameUserLines(Text(k, FALSE), Text(k \o Section(h), FALSE))
    BY SameAround, Zenon
  <2>3. t = Text(k, FALSE)
    BY <1>1, <1>5, Zenon
  <2> HIDE DEF Text, SameUserLines, Section
  <2> QED BY <1>4, <2>1, <2>2, <2>3
<1>6. CASE \E a, b \in Seq(UserKind), g \in HostSets :
             t.lines = Around(a, g, b) /\ k = a \o b
  <2>1. PICK a \in Seq(UserKind), b \in Seq(UserKind), g \in HostSets :
          t.lines = Around(a, g, b) /\ k = a \o b
    BY <1>6
  <2>2. /\ SameUserLines(Text(Around(a, g, b), FALSE), Text(a \o b, FALSE))
        /\ SameUserLines(Text(Around(a, g, b), FALSE),
                         Text((a \o b) \o Section(h), FALSE))
    BY SameAround, Zenon
  <2>3. /\ SameUserLines(t, Text(k, FALSE))
        /\ SameUserLines(t, Text(k \o Section(h), FALSE))
    BY <1>1, <2>1, <2>2, Zenon
  <2> HIDE DEF Text, SameUserLines, Section
  <2> QED BY <1>4, <2>3
<1> QED BY <1>1, <1>3, <1>5, <1>6

\* An update fails only for a file that ends with the section, trimmed.
LEMMA FailsAtEnd ==
  ASSUME NEW t \in Texts, Shaped(t.lines), Fails(t)
  PROVE  t.open /\ Last(t.lines) = Marker("end")
<1>1. t = Text(t.lines, t.open) /\ t.open \in BOOLEAN
  BY TextsAre, Zenon
<1>2. CASE t.lines \in Seq(UserKind)
  BY <1>1, <1>2, PlainPlaces, Zenon
<1>3. CASE \E a, b \in Seq(UserKind), h \in HostSets : t.lines = Around(a, h, b)
  <2>1. PICK a \in Seq(UserKind), b \in Seq(UserKind), h \in HostSets :
          t.lines = Around(a, h, b)
    BY <1>3
  <2>2. Fails(Text(Around(a, h, b), t.open)) <=> t.open /\ Len(b) = 0
    BY <1>1, AroundPlaces
  <2>3. t.open /\ Len(b) = 0
    BY <1>1, <2>1, <2>2, Zenon
  <2> DEFINE L == Around(a, h, b)
  <2>4. /\ Len(L) = Len(a) + 3 + Len(b) /\ L[Len(a) + 3] = Marker("end")
    BY AroundIs, Zenon
  <2>5. Len(a) \in Nat
    BY Widen
  <2> HIDE DEF L
  <2>6. L[Len(L)] = Marker("end")
    BY <2>3, <2>4, <2>5
  <2> QED BY <2>1, <2>3, <2>6 DEF Last, L
<1> QED BY <1>2, <1>3 DEF Shaped

----------------------------------------------------------------------------
(* What an update loses is in a backup.                                    *)

\* A line more takes none away.
LEMMA HasMore ==
  ASSUME NEW lines \in Seq(AnyKind), NEW x \in AnyKind
  PROVE  /\ Range(lines) \union {x} \subseteq Range(Append(lines, x))
         /\ Range(lines) \union {x} \subseteq Range(<<x>> \o lines)
<1>1. Len(lines) \in Nat /\ DOMAIN lines = 1 .. Len(lines)
  BY LenProperties
<1>2. /\ DOMAIN Append(lines, x) = 1 .. Len(lines) + 1
      /\ \A i \in 1 .. Len(lines) : Append(lines, x)[i] = lines[i]
      /\ Append(lines, x)[Len(lines) + 1] = x
  BY <1>1, AppendProperties
<1> DEFINE u == <<x>>
           c == u \o lines
<1>3. u \in Seq(AnyKind) /\ Len(u) = 1 /\ u[1] = x
  OBVIOUS
<1> HIDE DEF u
<1>10. /\ c \in Seq(AnyKind) /\ Len(c) = Len(u) + Len(lines)
       /\ \A i \in 1 .. Len(u) : c[i] = u[i]
       /\ \A i \in 1 .. Len(lines) : c[Len(u) + i] = lines[i]
  <2>1. \A s, t \in Seq(AnyKind) :
          /\ s \o t \in Seq(AnyKind) /\ Len(s \o t) = Len(s) + Len(t)
          /\ \A i \in 1 .. Len(s) : (s \o t)[i] = s[i]
          /\ \A i \in 1 .. Len(t) : (s \o t)[Len(s) + i] = t[i]
    BY Joined
  <2> QED BY <1>3, <2>1, Zenon
<1> HIDE DEF c
<1>4. /\ c \in Seq(AnyKind) /\ Len(c) = 1 + Len(lines) /\ c[1] = x
      /\ \A i \in 1 .. Len(lines) : c[1 + i] = lines[i]
  BY <1>3, <1>10
<1>5. DOMAIN c = 1 .. Len(lines) + 1
  BY <1>1, <1>4, LenProperties
<1>6. Range(lines) \union {x} \subseteq Range(Append(lines, x))
  BY <1>1, <1>2 DEF Range
<1>7. ASSUME NEW i \in 1 .. Len(lines) PROVE lines[i] \in Range(c)
  <2>1. 1 + i \in DOMAIN c /\ c[1 + i] = lines[i]
    BY <1>1, <1>4, <1>5
  <2> QED BY <2>1 DEF Range
<1>8. x \in Range(c)
  BY <1>1, <1>4, <1>5 DEF Range
<1>9. Range(lines) \union {x} \subseteq Range(c)
  BY <1>1, <1>7, <1>8 DEF Range
<1> QED BY <1>6, <1>9 DEF c, u

LEMMA NoTextHasNone ==
  ASSUME NEW l PROVE ~Has(NoText, l)
BY DEF Has, NoText, Text, Range

LEMMA RecoverableStep ==
  ASSUME SInv, Recoverable, [Next]_vars
  PROVE  Recoverable'
<1> SUFFICES ASSUME ~hasty', NEW l \in written'
             PROVE  Has(text', l) \/ \E t \in 0 .. MaxTime : Has(backups'[t], l)
  BY DEF Recoverable, NothingLost, Has
<1>1. /\ text \in Texts /\ now \in 0 .. MaxTime /\ backups \in [0 .. MaxTime -> Texts]
      /\ text.lines \in Seq(AnyKind)
  BY TextsAre DEF SInv, TypeOK
<1>2. ~hasty /\ l \in written => Has(text, l) \/ \E t \in 0 .. MaxTime : Has(backups[t], l)
  BY DEF Recoverable, NothingLost
<1>3. ASSUME ~hasty, l \in written, UNCHANGED backups, Has(text, l) => Has(text', l)
      PROVE  Has(text', l) \/ \E t \in 0 .. MaxTime : Has(backups'[t], l)
  BY <1>2, <1>3
<1>4. ASSUME NEW h \in HostSets, UpdateSshConfig(h)
      PROVE  Has(text', l) \/ \E t \in 0 .. MaxTime : Has(backups'[t], l)
  <2>1. /\ hasty' = (hasty \/ (text' # text /\ backups[now] # NoText)) /\ written' = written
        /\ backups' = IF text = text' THEN backups ELSE [backups EXCEPT ![now] = text]
    BY <1>4 DEF UpdateSshConfig, ReplaceIfChanged
  <2>2. ~hasty /\ l \in written
    BY <2>1
  <2>3. CASE text' = text
    BY <1>3, <2>1, <2>2, <2>3
  <2>4. CASE text' # text
    <3>1. backups[now] = NoText /\ backups' = [backups EXCEPT ![now] = text]
      BY <2>1, <2>4
    <3>2. CASE Has(text, l)
      <4>1. backups'[now] = text
        BY <1>1, <3>1
      <4> QED BY <1>1, <3>2, <4>1
    <3>3. CASE \E t \in 0 .. MaxTime : Has(backups[t], l)
      <4>1. PICK t \in 0 .. MaxTime : Has(backups[t], l)
        BY <3>3
      <4>2. t # now
        BY <3>1, <4>1, NoTextHasNone
      <4>3. backups'[t] = backups[t]
        BY <1>1, <3>1, <4>2
      <4> QED BY <4>1, <4>3
    <3> QED BY <1>2, <2>2, <3>2, <3>3
  <2> QED BY <2>3, <2>4
<1>5. ASSUME NEW m \in Lines, UserAdds(m)
      PROVE  Has(text', l) \/ \E t \in 0 .. MaxTime : Has(backups'[t], l)
  <2>1. written' = written \union {m} /\ UNCHANGED <<backups, hasty>>
    BY <1>5 DEF UserAdds
  <2>2. User(m) \in AnyKind
    BY Kinds
  <2>3. /\ Range(text.lines) \union {User(m)} \subseteq Range(Append(text.lines, User(m)))
        /\ Range(text.lines) \union {User(m)} \subseteq Range(<<User(m)>> \o text.lines)
    BY <1>1, <2>2, HasMore, Zenon
  <2>4. \/ text'.lines = Append(text.lines, User(m))
        \/ text'.lines = <<User(m)>> \o text.lines
    <3>1. text = [lines |-> text.lines, open |-> text.open]
      BY <1>1, TextsAre DEF Text
    <3> DEFINE c == <<User(m)>> \o text.lines
    <3> HIDE DEF c
    <3>2. [text EXCEPT !.lines = c].lines = c
      BY <3>1
    <3>3. text' = Text(Append(text.lines, User(m)), FALSE) \/ text' = [text EXCEPT !.lines = c]
      BY <1>5 DEF UserAdds, c
    <3>4. Text(Append(text.lines, User(m)), FALSE).lines = Append(text.lines, User(m))
      BY DEF Text
    <3>5. text'.lines = Append(text.lines, User(m)) \/ text'.lines = c
      BY <3>2, <3>3, <3>4, Zenon
    <3> QED BY <3>5 DEF c
  <2>5. Range(text.lines) \union {User(m)} \subseteq Range(text'.lines)
    BY <2>3, <2>4, Zenon
  <2>6. CASE l = m
    BY <2>5, <2>6 DEF Has
  <2>7. CASE l # m
    <3>1. l \in written /\ ~hasty
      BY <2>1, <2>7
    <3>2. Has(text, l) => Has(text', l)
      BY <2>5 DEF Has
    <3> QED BY <1>3, <2>1, <3>1, <3>2
  <2> QED BY <2>6, <2>7
<1>6. CASE UserTrims \/ UserEnds
  <2>1. text = [lines |-> text.lines, open |-> text.open]
    BY <1>1, TextsAre DEF Text
  <2>2. text'.lines = text.lines /\ UNCHANGED <<backups, written, hasty>>
    BY <1>6, <2>1 DEF UserTrims, UserEnds, history
  <2> QED BY <1>3, <2>2 DEF Has
<1>7. CASE Tick \/ UNCHANGED vars
  <2>1. UNCHANGED <<text, backups, written, hasty>>
    BY <1>7 DEF Tick, vars, history
  <2> QED BY <1>3, <2>1
<1> QED BY <1>4, <1>5, <1>6, <1>7 DEF Next

----------------------------------------------------------------------------
(* The theorems.                                                           *)

LEMMA SAlways == Spec => []SInv
BY SInit, SStep, PTL DEF Spec

\* Whatever the user edits between updates, and whatever sets of instances
\* update_ssh_config is called with, the file and its backups stay texts of
\* user lines and of hermit's.
THEOREM SshTextsTyped == Spec => []TypeOK
<1>1. SInv => TypeOK
  BY DEF SInv
<1> QED BY <1>1, SAlways, PTL

\* remove_section finds all that an earlier update_ssh_config wrote: the
\* sections never pile up, and none is left in part.
THEOREM OneSectionAlways == Spec => []OneSection
<1>1. SInv => OneSection
  <2> SUFFICES ASSUME SInv PROVE OneSection
    OBVIOUS
  <2>1. text \in Texts /\ Shaped(text.lines)
    BY DEF SInv, TypeOK
  <2> QED BY <2>1, OneShape, Zenon DEF OneSection
<1> QED BY <1>1, SAlways, PTL

\* A second update_ssh_config for the same instances finds nothing to change,
\* so replace_if_changed makes no backup of it; and none fails, but for a file
\* that ends with hermit's end marker without its newline.
THEOREM UpdatesAreIdempotent == Spec => []Idempotent
<1>1. SInv => Idempotent
  <2> SUFFICES ASSUME SInv PROVE Idempotent
    OBVIOUS
  <2>1. text \in Texts /\ Shaped(text.lines)
    BY DEF SInv, TypeOK
  <2>2. \A h \in HostSets : ~Fails(text) =>
          ~Fails(Updated(text, h)) /\ Updated(Updated(text, h), h) = Updated(text, h)
    BY <2>1, UpdateShape, Zenon
  <2>3. Fails(text) => text.open /\ Last(text.lines) = Marker("end")
    BY <2>1, FailsAtEnd, Zenon
  <2> QED BY <2>2, <2>3, Zenon DEF Idempotent
<1> QED BY <1>1, SAlways, PTL

\* update_ssh_config keeps every line of the user's, in order, of a file that
\* ends with a newline, wherever its section is.
THEOREM EndedLinesStay == Spec => EndedLinesKept
<1>1. SInv /\ [Next]_vars =>
        [IsUpdate /\ ~text.open => SameUserLines(text, text')]_vars
  <2> SUFFICES ASSUME SInv, NEW h \in HostSets, UpdateSshConfig(h), ~text.open
               PROVE  SameUserLines(text, text')
    BY DEF IsUpdate
  <2>1. text \in Texts /\ Shaped(text.lines)
    BY DEF SInv, TypeOK
  <2>2. text' = Updated(text, h)
    BY DEF UpdateSshConfig, ReplaceIfChanged
  <2>3. SameUserLines(text, Updated(text, h))
    BY <2>1, UpdateKeeps, Zenon
  <2> QED BY <2>2, <2>3, Zenon
<1> QED BY <1>1, SAlways, PTL DEF Spec, EndedLinesKept

\* The backups of replace_if_changed cover all that any sequence of edits and
\* updates has ever taken from the user, as long as no two updates of one
\* second have both replaced the file.
THEOREM LossesRecoverable == Spec => []Recoverable
<1>1. Init => Recoverable
  BY DEF Init, Recoverable, NothingLost
<1>2. SInv /\ Recoverable /\ [Next]_vars => Recoverable'
  BY RecoverableStep
<1> QED BY <1>1, <1>2, SAlways, PTL DEF Spec
=============================================================================
