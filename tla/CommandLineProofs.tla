------------------------- MODULE CommandLineProofs --------------------------
(***************************************************************************)
(* CommandLine for any list of arguments: where global options may be, the *)
(* files of an upload, the life of the temporary file of a clipboard       *)
(* upload, and which program the clipboard is read with.                   *)
(***************************************************************************)
EXTENDS CommandLine, SequenceTheorems, WellFoundedInduction, TLAPS

-----------------------------------------------------------------------------
(* The program that reads the clipboard.                                   *)

LEMMA LeastOf ==
    ASSUME NEW T \in SUBSET Nat, T # {}
    PROVE  \E x \in T : \A y \in T : x <= y
<1>1. PICK x \in T : \A y \in T : ~ (<<y, x>> \in OpToRel(<, Nat))
  BY NatLessThanWellFounded, WFMin, Zenon
<1>2. \A y \in T : ~ (y < x)
  BY <1>1 DEF OpToRel
<1> QED  BY <1>2

\* FirstInstalled finds the first program of the order that is installed.
LEMMA FirstIsFirst ==
    ASSUME NEW order \in Seq(Readers), NEW e,
           NEW i \in DOMAIN order, order[i] \in e.installed
    PROVE  \E k \in DOMAIN order :
              /\ k <= i
              /\ FirstInstalled(order, e) = order[k]
              /\ order[k] \in e.installed
<1> DEFINE found == {k \in DOMAIN order : order[k] \in e.installed}
<1>1. found \in SUBSET Nat /\ i \in found
  OBVIOUS
<1>2. \E k \in found : \A j \in found : k <= j
  BY <1>1, LeastOf
<1> DEFINE least == CHOOSE k \in found : \A j \in found : k <= j
<1>3. least \in found /\ \A j \in found : least <= j
  BY <1>2
<1>4. FirstInstalled(order, e) = order[least]
  BY <1>1 DEF FirstInstalled
<1> QED  BY <1>1, <1>3, <1>4

\* Outside a Wayland session the preferred ones are those whose display is there.
LEMMA PreferredOnes ==
    ASSUME NEW e \in Environment
    PROVE  /\ PreferredReaders(e) \in Seq(Readers)
           /\ e.session = "wayland" => PreferredReaders(e) = <<"wl-paste">>
           /\ e.session # "wayland" =>
                 \A tool \in Readers :
                    Reaches(tool, e) =>
                       \E i \in 1 .. Len(PreferredReaders(e)) : PreferredReaders(e)[i] = tool
<1> DEFINE x == IF e.display THEN <<"xclip", "xsel">> ELSE <<>>
           w == IF e.waylandDisplay THEN <<"wl-paste">> ELSE <<>>
<1>1. /\ x \in Seq(Readers)
      /\ e.display => Len(x) = 2 /\ x[1] = "xclip" /\ x[2] = "xsel"
  <2>1. CASE e.display
    <3>1. x = <<"xclip", "xsel">>
      BY <2>1
    <3>2. <<"xclip", "xsel">> \in Seq({"wl-paste", "xclip", "xsel", "pbpaste"})
      OBVIOUS
    <3>3. x \in Seq(Readers)
      BY <3>1, <3>2 DEF Readers
    <3>4. Len(x) = 2 /\ x[1] = "xclip" /\ x[2] = "xsel"
      BY <3>1
    <3> QED  BY <3>3, <3>4
  <2>2. CASE ~e.display
    <3>1. x = <<>>
      BY <2>2
    <3> QED  BY <2>2, <3>1
  <2> QED  BY <2>1, <2>2
<1>2. /\ w \in Seq(Readers)
      /\ e.waylandDisplay => Len(w) = 1 /\ w[1] = "wl-paste"
  <2>1. CASE e.waylandDisplay
    <3>1. w = <<"wl-paste">>
      BY <2>1
    <3> QED  BY <3>1 DEF Readers
  <2>2. CASE ~e.waylandDisplay
    <3>1. w = <<>>
      BY <2>2
    <3> QED  BY <2>2, <3>1
  <2> QED  BY <2>1, <2>2
<1> HIDE DEF x, w
<1>3. CASE e.session = "wayland"
  BY <1>3 DEF PreferredReaders, Readers
<1>4. CASE e.session # "wayland"
  <2>1. PreferredReaders(e) = x \o w
    BY <1>4 DEF PreferredReaders, x, w
  <2>2. /\ x \o w \in Seq(Readers)
        /\ Len(x \o w) = Len(x) + Len(w)
        /\ \A i \in 1 .. Len(x) : (x \o w)[i] = x[i]
        /\ \A i \in 1 .. Len(w) : (x \o w)[Len(x) + i] = w[i]
        /\ Len(x) \in Nat /\ Len(w) \in Nat
    BY <1>1, <1>2
  <2>3. ASSUME NEW tool \in Readers, Reaches(tool, e)
        PROVE  \E i \in 1 .. Len(x \o w) : (x \o w)[i] = tool
    <3>1. CASE tool = "wl-paste"
      <4>1. e.waylandDisplay
        BY <2>3, <3>1 DEF Reaches
      <4>2. Len(x) + 1 \in 1 .. Len(x \o w) /\ (x \o w)[Len(x) + 1] = tool
        <5>1. Len(w) = 1 /\ w[1] = "wl-paste"
          BY <1>2, <4>1
        <5>2. (x \o w)[Len(x) + 1] = w[1]
          BY <2>2, <5>1
        <5>3. Len(x) + 1 \in 1 .. Len(x \o w)
          BY <2>2, <5>1
        <5> QED  BY <3>1, <5>1, <5>2, <5>3
      <4> QED  BY <4>2
    <3>2. CASE tool # "wl-paste"
      <4>1. e.display /\ tool \in {"xclip", "xsel"}
        BY <2>3, <3>2 DEF Reaches, Readers
      <4>2. PICK i \in {1, 2} : i \in 1 .. Len(x) /\ x[i] = tool
        BY <1>1, <4>1
      <4>3. i \in 1 .. Len(x \o w) /\ (x \o w)[i] = tool
        BY <2>2, <4>2
      <4> QED  BY <4>3
    <3> QED  BY <3>1, <3>2
  <2> QED  BY <1>4, <2>1, <2>2, <2>3
<1> QED  BY <1>3, <1>4

\* If an installed program reaches the clipboard, the one that is chosen does:
\* what is installed of the preferred ones reaches it, and where none of them
\* is, wl-paste is the only one missing.
LEMMA ReaderReaches ==
    ASSUME NEW e \in Environment,
           NEW tool \in e.installed, Reaches(tool, e),
           e.session = "wayland" => e.waylandDisplay
    PROVE  Reaches(Reader(e), e)
<1> DEFINE pref == PreferredReaders(e)
           order == pref \o AnyReader
<1>1. pref \in Seq(Readers) /\ AnyReader \in Seq(Readers) /\ order \in Seq(Readers)
  <2>1. AnyReader \in Seq(Readers)
    BY DEF AnyReader, Readers
  <2> QED  BY <2>1, PreferredOnes
<1>2. /\ Len(pref) \in Nat
      /\ \A k \in 1 .. Len(pref) : k \in DOMAIN order /\ order[k] = pref[k]
      /\ \A k \in DOMAIN order : k <= Len(pref) => k \in 1 .. Len(pref)
  BY <1>1
<1>3. \A k \in 1 .. Len(pref) : Reaches(pref[k], e)
  BY DEF PreferredReaders, Reaches, Environment
<1> HIDE DEF pref, order
<1>4. CASE \E i \in 1 .. Len(pref) : pref[i] \in e.installed
  <2>1. PICK i \in 1 .. Len(pref) : pref[i] \in e.installed
    BY <1>4
  <2>2. PICK k \in DOMAIN order : k <= i /\ FirstInstalled(order, e) = order[k]
    BY <1>1, <1>2, <2>1, FirstIsFirst
  <2>3. k \in 1 .. Len(pref)
    BY <1>1, <1>2, <2>1, <2>2
  <2> QED  BY <1>2, <1>3, <2>2, <2>3 DEF Reader, pref, order
<1>5. CASE \A i \in 1 .. Len(pref) : pref[i] \notin e.installed
  <2>1. e.session = "wayland" /\ pref = <<"wl-paste">>
    BY <1>5, PreferredOnes DEF pref, Environment
  <2>2. tool \in {"xclip", "xsel"} /\ e.display
    BY <1>5, <2>1 DEF Reaches
  <2>3. /\ Len(order) = 5
        /\ order[1] = "wl-paste" /\ order[2] = "wl-paste"
        /\ order[3] = "xclip" /\ order[4] = "xsel"
    <3>1. /\ Len(pref) = 1 /\ pref[1] = "wl-paste"
          /\ Len(AnyReader) = 4 /\ AnyReader[1] = "wl-paste"
          /\ AnyReader[2] = "xclip" /\ AnyReader[3] = "xsel"
      BY <2>1 DEF AnyReader
    <3>2. /\ Len(pref \o AnyReader) = Len(pref) + Len(AnyReader)
          /\ \A i \in 1 .. Len(pref) : (pref \o AnyReader)[i] = pref[i]
          /\ \A i \in 1 .. Len(AnyReader) :
                (pref \o AnyReader)[Len(pref) + i] = AnyReader[i]
      BY <1>1
    <3> QED  BY <3>1, <3>2 DEF order
  <2>4. "wl-paste" \notin e.installed
    BY <1>5, <2>1
  <2>5. PICK i \in {3, 4} : i \in DOMAIN order /\ order[i] = tool
    BY <2>2, <2>3
  <2>6. PICK k \in DOMAIN order :
           /\ k <= i
           /\ FirstInstalled(order, e) = order[k]
           /\ order[k] \in e.installed
    BY <1>1, <2>5, FirstIsFirst
  <2>7. order[k] \in {"xclip", "xsel"}
    BY <2>3, <2>4, <2>5, <2>6
  <2> QED  BY <2>2, <2>6, <2>7 DEF Reader, Reaches, pref, order
<1> QED  BY <1>4, <1>5

\* Where nobody looked, nothing was found.
LEMMA NothingUnread ==
    /\ Unread \in Environment
    /\ \A c : ~HasFile(Unread, c)
<1>1. Unread \in Environment
  BY DEF Unread, Environment, Readers
<1>2. \A tool : ~Reaches(tool, Unread)
  BY DEF Reaches, Unread
<1> QED  BY <1>1, <1>2 DEF HasFile, HasText

-----------------------------------------------------------------------------
(* Functions on lists of words that are recursive on their last word.      *)

Lists == Seq(STRING)

LEMMA FrontAndLastOf ==
    ASSUME NEW W, NEW s \in Seq(W)
    PROVE  /\ Len(s) \in Nat
           /\ s = <<>> <=> Len(s) = 0
           /\ s # <<>> => /\ Front(s) \in Seq(W) /\ Last(s) \in W
                          /\ Len(Front(s)) = Len(s) - 1
                          /\ s = Append(Front(s), Last(s))
<1>1. Len(s) \in Nat /\ (s = <<>> <=> Len(s) = 0)
  OBVIOUS
<1>2. ASSUME s # <<>>
      PROVE  /\ Front(s) \in Seq(W) /\ Last(s) \in W
             /\ Len(Front(s)) = Len(s) - 1
             /\ s = Append(Front(s), Last(s))
  <2> DEFINE t == SubSeq(s, 1, Len(s) - 1)
             w == s[Len(s)]
  <2>1. /\ t \in Seq(W) /\ Len(t) = Len(s) - 1 /\ w \in W
        /\ \A i \in 1 .. Len(t) : t[i] = s[i]
    <3>1. Len(s) \in Nat /\ Len(s) # 0 /\ Len(s) - 1 \in Nat
      BY <1>1, <1>2
    <3>2. w \in W
      BY <3>1
    <3>3. t \in Seq(W) /\ Len(t) = Len(s) - 1
      <4>1. \A i \in 1 .. Len(s) - 1 : s[i] \in W
        BY <3>1
      <4>2. t \in Seq(W)
        BY <3>1, <4>1, SubSeqProperties
      <4>3. Len(t) = Len(s) - 1
        <5> DEFINE n == Len(s) - 1
        <5>1. n \in Nat /\ \A i \in 1 .. n : s[i] \in W
          BY <3>1, <4>1
        <5> HIDE DEF n
        <5>2. Len(SubSeq(s, 1, n)) = IF 1 <= n THEN n - 1 + 1 ELSE 0
          BY <5>1, SubSeqProperties
        <5>3. Len(SubSeq(s, 1, n)) = n
          BY <5>1, <5>2
        <5> QED  BY <5>3 DEF n
      <4> QED  BY <4>2, <4>3
    <3>4. \A i \in 1 .. Len(s) - 1 : t[i] = s[i]
      BY <3>1
    <3> QED  BY <3>2, <3>3, <3>4
  <2> HIDE DEF t
  <2>2. /\ Append(t, w) \in Seq(W)
        /\ Len(Append(t, w)) = Len(s)
        /\ \A i \in 1 .. Len(s) : Append(t, w)[i] = s[i]
    BY <2>1
  <2> HIDE DEF w
  <2>3. s = Append(t, w)
    BY <2>2, SeqEqual
  <2> QED  BY <2>1, <2>3 DEF Front, Last, t, w
<1> QED  BY <1>1, <1>2

LEMMA FrontOfAppendOf ==
    ASSUME NEW W, NEW s \in Seq(W), NEW w \in W
    PROVE  /\ Append(s, w) \in Seq(W) /\ Append(s, w) # <<>>
           /\ Front(Append(s, w)) = s /\ Last(Append(s, w)) = w
<1> DEFINE t == Append(s, w)
<1>1. /\ Len(s) \in Nat /\ t \in Seq(W) /\ t # <<>> /\ Len(t) = Len(s) + 1
      /\ \A i \in 1 .. Len(s) : t[i] = s[i]
      /\ t[Len(t)] = w
  BY AppendProperties
<1> HIDE DEF t
<1>2. /\ SubSeq(t, 1, Len(t) - 1) \in Seq(W)
      /\ Len(SubSeq(t, 1, Len(t) - 1)) = Len(s)
      /\ \A i \in 1 .. Len(s) : SubSeq(t, 1, Len(t) - 1)[i] = s[i]
  BY <1>1
<1>3. SubSeq(t, 1, Len(t) - 1) = s
  BY <1>2, SeqEqual
<1> QED  BY <1>1, <1>3 DEF Front, Last, t

LEMMA FrontAndLast ==
    ASSUME NEW s \in Lists
    PROVE  /\ Len(s) \in Nat
           /\ s = <<>> <=> Len(s) = 0
           /\ s # <<>> => /\ Front(s) \in Lists /\ Last(s) \in STRING
                          /\ Len(Front(s)) = Len(s) - 1
                          /\ s = Append(Front(s), Last(s))
BY FrontAndLastOf DEF Lists

LEMMA FrontOfAppend ==
    ASSUME NEW s \in Lists, NEW w \in STRING
    PROVE  /\ Append(s, w) \in Lists /\ Append(s, w) # <<>>
           /\ Front(Append(s, w)) = s /\ Last(Append(s, w)) = w
BY FrontOfAppendOf DEF Lists

\* What holds of the empty list, and with a list of one that is a word longer,
\* holds of all.
LEMMA ListInduction ==
    ASSUME NEW P \in SUBSET Lists, <<>> \in P,
           \A s \in P, w \in STRING : Append(s, w) \in P
    PROVE  P = Lists
<1> SUFFICES ASSUME NEW x \in Lists, x \notin P PROVE FALSE
  OBVIOUS
<1> DEFINE T == {n \in Nat : \E s \in Lists : Len(s) = n /\ s \notin P}
<1>1. T \in SUBSET Nat /\ Len(x) \in T
  BY FrontAndLast
<1>2. PICK n \in T : \A m \in T : n <= m
  <2> HIDE DEF T
  <2> QED  BY <1>1, LeastOf
<1>3. PICK s \in Lists : Len(s) = n /\ s \notin P
  BY <1>2
<1>4. s # <<>> /\ Front(s) \in Lists /\ Len(Front(s)) = n - 1 /\ n - 1 \in Nat
  BY <1>3, FrontAndLast
<1>5. n - 1 \notin T
  BY <1>1, <1>2, <1>4
<1>6. Front(s) \in P
  BY <1>4, <1>5
<1>7. Append(Front(s), Last(s)) \in P
  BY <1>3, <1>4, <1>6, FrontAndLast
<1> QED  BY <1>3, <1>4, <1>7, FrontAndLast

Folds(f, start, step) ==
    f = [s \in Lists |-> IF s = <<>> THEN start ELSE step[f[Front(s)]][Last(s)]]

\* There is a function that takes the words of a list one after the other.
LEMMA FoldExists ==
    ASSUME NEW V, NEW start \in V, NEW step \in [V -> [STRING -> V]]
    PROVE  \E f \in [Lists -> V] : Folds(f, start, step)
<1> DEFINE Fits(f, s) == f[s] = IF s = <<>> THEN start ELSE step[f[Front(s)]][Last(s)]
           UpTo(f, n) == f \in [Lists -> V] /\ \A s \in Lists : Len(s) <= n => Fits(f, s)
<1>1. \A n \in Nat : \E f : UpTo(f, n)
  <2> DEFINE T == {n \in Nat : ~ \E f : UpTo(f, n)}
  <2> SUFFICES ASSUME T # {} PROVE FALSE
    OBVIOUS
  <2>1. PICK n \in T : \A m \in T : n <= m
    <3> HIDE DEF UpTo
    <3> QED  BY LeastOf
  <2>2. CASE n = 0
    <3> DEFINE g == [s \in Lists |-> start]
    <3>1. UpTo(g, n)
      BY <2>2, FrontAndLast
    <3> QED  BY <2>1, <3>1
  <2>3. CASE n # 0
    <3>1. n \in Nat /\ n - 1 \in Nat /\ n - 1 \notin T
      <4>1. T \in SUBSET Nat
        OBVIOUS
      <4> HIDE DEF T
      <4> QED  BY <2>1, <2>3, <4>1
    <3>2. PICK f : UpTo(f, n - 1)
      BY <3>1
    <3> DEFINE g == [s \in Lists |->
                       IF Len(s) = n THEN step[f[Front(s)]][Last(s)] ELSE f[s]]
    <3>3. g \in [Lists -> V]
      BY <2>3, <3>2, FrontAndLast
    <3>4. ASSUME NEW s \in Lists, Len(s) <= n
          PROVE  Fits(g, s)
      <4>1. CASE Len(s) = n
        <5>1. s # <<>> /\ Front(s) \in Lists /\ Len(Front(s)) = n - 1
          BY <2>3, <4>1, FrontAndLast
        <5>2. g[Front(s)] = f[Front(s)]
          BY <3>1, <5>1
        <5> QED  BY <4>1, <5>1, <5>2
      <4>2. CASE Len(s) # n
        <5>1. Len(s) <= n - 1 /\ Len(s) \in Nat
          BY <3>1, <3>4, <4>2, FrontAndLast
        <5>2. Fits(f, s) /\ g[s] = f[s]
          BY <3>2, <4>2, <5>1
        <5>3. s # <<>> => g[Front(s)] = f[Front(s)]
          BY <3>1, <5>1, FrontAndLast
        <5> QED  BY <5>2, <5>3
      <4> QED  BY <4>1, <4>2
    <3>5. UpTo(g, n)
      BY <3>3, <3>4
    <3> QED  BY <2>1, <3>5
  <2> QED  BY <2>2, <2>3
<1>2. ASSUME NEW n \in Nat, NEW f, NEW g, UpTo(f, n), UpTo(g, n),
             NEW x \in Lists, Len(x) <= n
      PROVE  f[x] = g[x]
  <2> DEFINE P == {s \in Lists : Len(s) <= n => f[s] = g[s]}
  <2>1. <<>> \in P
    <3>1. <<>> \in Lists /\ Len(<<>>) = 0
      BY DEF Lists
    <3> QED  BY <1>2, <3>1
  <2>2. ASSUME NEW s \in P, NEW w \in STRING
        PROVE  Append(s, w) \in P
    <3>1. /\ Append(s, w) \in Lists /\ Append(s, w) # <<>>
          /\ Front(Append(s, w)) = s /\ Last(Append(s, w)) = w
          /\ Len(s) \in Nat /\ Len(s) = Len(Append(s, w)) - 1
      BY FrontOfAppend, FrontAndLast
    <3>2. ASSUME Len(Append(s, w)) <= n
          PROVE  f[Append(s, w)] = g[Append(s, w)]
      <4>1. Fits(f, Append(s, w)) /\ Fits(g, Append(s, w))
        BY <1>2, <3>1, <3>2
      <4>2. f[s] = g[s]
        BY <3>1, <3>2, FrontAndLast
      <4> QED  BY <3>1, <4>1, <4>2
    <3> QED  BY <3>1, <3>2
  <2>3. P = Lists
    <3> HIDE DEF P
    <3>1. P \in SUBSET Lists
      BY DEF P
    <3> QED  BY <2>1, <2>2, <3>1, ListInduction
  <2> QED  BY <1>2, <2>3
<1> DEFINE part(n) == CHOOSE f : UpTo(f, n)
           h == [s \in Lists |-> part(Len(s))[s]]
<1>3. \A n \in Nat : UpTo(part(n), n)
  <2> HIDE DEF UpTo
  <2> QED  BY <1>1
<1> HIDE DEF part
<1>4. h \in [Lists -> V]
  BY <1>3, FrontAndLast
<1>5. ASSUME NEW s \in Lists
      PROVE  Fits(h, s)
  <2>1. Len(s) \in Nat /\ UpTo(part(Len(s)), Len(s)) /\ h[s] = part(Len(s))[s]
    BY <1>3, FrontAndLast
  <2>2. Fits(part(Len(s)), s)
    BY <2>1
  <2>3. CASE s = <<>>
    BY <2>1, <2>2, <2>3
  <2>4. CASE s # <<>>
    <3> DEFINE r == Front(s)
    <3>1. /\ r \in Lists /\ Len(r) \in Nat /\ Len(r) <= Len(s)
          /\ h[r] = part(Len(r))[r]
      BY <2>4, FrontAndLast
    <3>2. UpTo(part(Len(r)), Len(r)) /\ UpTo(part(Len(s)), Len(r))
      BY <1>3, <2>1, <3>1
    <3>3. part(Len(r))[r] = part(Len(s))[r]
      <4> HIDE DEF UpTo, r
      <4> QED  BY <1>2, <3>1, <3>2
    <3> QED  BY <2>1, <2>2, <2>4, <3>1, <3>3
  <2> QED  BY <2>3, <2>4
<1> QED  BY <1>4, <1>5 DEF Folds

LEMMA OnlyIs ==
    ASSUME NEW W
    PROVE  /\ Only(<<>>, W) = <<>>
           /\ \A s \in Lists : Only(s, W) \in Lists
           /\ \A s \in Lists, w \in STRING :
                 Only(Append(s, w), W) = IF w \in W THEN Append(Only(s, W), w) ELSE Only(s, W)
<1> DEFINE Def(f) == [s \in Lists |->
                        IF s = <<>> THEN <<>>
                        ELSE IF Last(s) \in W THEN Append(f[Front(s)], Last(s)) ELSE f[Front(s)]]
           step == [v \in Lists |-> [w \in STRING |-> IF w \in W THEN Append(v, w) ELSE v]]
           only == CHOOSE f : f = Def(f)
<1>1. \A s : Only(s, W) = only[s]
  BY DEF Only, Lists
<1>2. <<>> \in Lists /\ step \in [Lists -> [STRING -> Lists]]
  <2>1. <<>> \in Lists
    BY DEF Lists
  <2>2. \A v \in Lists, w \in STRING : (IF w \in W THEN Append(v, w) ELSE v) \in Lists
    BY FrontOfAppend
  <2> QED  BY <2>1, <2>2
<1>3. PICK f \in [Lists -> Lists] : Folds(f, <<>>, step)
  <2> HIDE DEF step
  <2> QED  BY <1>2, FoldExists
<1>4. f = Def(f)
  <2>1. ASSUME NEW s \in Lists
        PROVE  f[s] = Def(f)[s]
    <3>1. CASE s = <<>>
      BY <1>3, <3>1 DEF Folds
    <3>2. CASE s # <<>>
      <4>1. Front(s) \in Lists /\ Last(s) \in STRING /\ f[Front(s)] \in Lists
        BY <1>3, <3>2, FrontAndLast
      <4> QED  BY <1>3, <3>2, <4>1 DEF Folds
    <3> QED  BY <3>1, <3>2
  <2> QED  BY <1>3, <2>1
<1>5. only = Def(only)
  <2> HIDE DEF Def
  <2> QED  BY <1>4
<1> HIDE DEF only
<1>6. only[<<>>] = <<>>
  BY <1>2, <1>5
<1>7. \A s \in Lists, w \in STRING :
         only[Append(s, w)] = IF w \in W THEN Append(only[s], w) ELSE only[s]
  <2> SUFFICES ASSUME NEW s \in Lists, NEW w \in STRING
               PROVE  only[Append(s, w)] = IF w \in W THEN Append(only[s], w) ELSE only[s]
    OBVIOUS
  <2>1. /\ Append(s, w) \in Lists /\ Append(s, w) # <<>>
        /\ Front(Append(s, w)) = s /\ Last(Append(s, w)) = w
    BY FrontOfAppend
  <2>2. only[Append(s, w)] = Def(only)[Append(s, w)]
    BY <1>5
  <2> QED  BY <2>1, <2>2
<1>8. {s \in Lists : only[s] \in Lists} = Lists
  <2> DEFINE P == {s \in Lists : only[s] \in Lists}
  <2>1. <<>> \in P
    BY <1>2, <1>6
  <2>2. \A s \in P, w \in STRING : Append(s, w) \in P
    BY <1>7, FrontOfAppend
  <2>3. P \in SUBSET Lists
    OBVIOUS
  <2> HIDE DEF P
  <2>4. P = Lists
    BY <2>1, <2>2, <2>3, ListInduction
  <2> QED  BY <2>4 DEF P
<1>9. \A s \in Lists : only[s] \in Lists
  BY <1>8
<1> HIDE DEF Def, step
<1> QED  BY <1>1, <1>6, <1>7, <1>9, Zenon

Outputs ==
    [mode : {"normal", "json", "quiet", "verbose"}, color : BOOLEAN, notify : BOOLEAN]

LEMMA GlobalIsTyped ==
    ASSUME NEW out \in Outputs, NEW w
    PROVE  WithGlobal(out, w) \in Outputs
<1>1. CASE w = "--json"
  BY <1>1 DEF WithGlobal, Outputs
<1>2. CASE w \in {"--quiet", "-q"}
  BY <1>2 DEF WithGlobal, Outputs
<1>3. CASE w = "--verbose"
  BY <1>3 DEF WithGlobal, Outputs
<1>4. CASE w = "--no-color"
  BY <1>4 DEF WithGlobal, Outputs
<1>5. CASE w \notin Globals
  BY <1>5 DEF WithGlobal, Outputs, Globals
<1> QED  BY <1>1, <1>2, <1>3, <1>4, <1>5 DEF Globals

LEMMA OutputIs ==
    ASSUME NEW out \in Outputs
    PROVE  /\ OutputAfter(out, <<>>) = out
           /\ \A s \in Lists : OutputAfter(out, s) \in Outputs
           /\ \A s \in Lists, w \in STRING :
                 OutputAfter(out, Append(s, w)) = WithGlobal(OutputAfter(out, s), w)
<1> DEFINE Def(f) == [s \in Lists |->
                        IF s = <<>> THEN out ELSE WithGlobal(f[Front(s)], Last(s))]
           step == [v \in Outputs |-> [w \in STRING |-> WithGlobal(v, w)]]
           after == CHOOSE f : f = Def(f)
<1>1. \A s : OutputAfter(out, s) = after[s]
  BY DEF OutputAfter, Lists
<1>2. <<>> \in Lists /\ step \in [Outputs -> [STRING -> Outputs]]
  <2>1. <<>> \in Lists
    BY DEF Lists
  <2> QED  BY <2>1, GlobalIsTyped
<1>3. PICK f \in [Lists -> Outputs] : Folds(f, out, step)
  <2> HIDE DEF step
  <2> QED  BY <1>2, FoldExists
<1>4. f = Def(f)
  <2>1. ASSUME NEW s \in Lists
        PROVE  f[s] = Def(f)[s]
    <3>1. CASE s = <<>>
      BY <1>3, <3>1 DEF Folds
    <3>2. CASE s # <<>>
      <4>1. Front(s) \in Lists /\ Last(s) \in STRING /\ f[Front(s)] \in Outputs
        BY <1>3, <3>2, FrontAndLast
      <4> QED  BY <1>3, <3>2, <4>1 DEF Folds
    <3> QED  BY <3>1, <3>2
  <2> QED  BY <1>3, <2>1
<1>5. after = Def(after)
  <2> HIDE DEF Def
  <2> QED  BY <1>4
<1> HIDE DEF after
<1>6. after[<<>>] = out
  BY <1>2, <1>5
<1>7. \A s \in Lists, w \in STRING : after[Append(s, w)] = WithGlobal(after[s], w)
  <2> SUFFICES ASSUME NEW s \in Lists, NEW w \in STRING
               PROVE  after[Append(s, w)] = WithGlobal(after[s], w)
    OBVIOUS
  <2>1. /\ Append(s, w) \in Lists /\ Append(s, w) # <<>>
        /\ Front(Append(s, w)) = s /\ Last(Append(s, w)) = w
    BY FrontOfAppend
  <2>2. after[Append(s, w)] = Def(after)[Append(s, w)]
    BY <1>5
  <2> QED  BY <2>1, <2>2
<1>8. \A s \in Lists : after[s] \in Outputs
  <2> DEFINE P == {s \in Lists : after[s] \in Outputs}
  <2>1. <<>> \in P
    BY <1>2, <1>6
  <2>2. \A s \in P, w \in STRING : Append(s, w) \in P
    BY <1>7, FrontOfAppend, GlobalIsTyped
  <2>3. P \in SUBSET Lists
    OBVIOUS
  <2> HIDE DEF P
  <2>4. P = Lists
    BY <2>1, <2>2, <2>3, ListInduction
  <2> QED  BY <2>4 DEF P
<1> HIDE DEF Def, step
<1> QED  BY <1>1, <1>6, <1>7, <1>8, Zenon

Seen(c) ==
    [out : Outputs, flags : SUBSET STRING, words : Lists,
     wants : WithArgument[c] \union {NoWord}, value : [WithArgument[c] -> STRING \union {NoWord}],
     ended : BOOLEAN, help : BOOLEAN]

\* What an option takes as its argument is not also a flag or a global option.
LEMMA OptionsAreApart ==
    ASSUME NEW c \in DOMAIN WithArgument
    PROVE  /\ NoWord \notin WithArgument[c]
           /\ "--" \notin WithArgument[c] \union Flags[c]
           /\ WithArgument[c] \intersect Flags[c] = {}
           /\ Globals \intersect (WithArgument[c] \union Flags[c] \union {"--"}) = {}
           /\ \A o \in WithArgument[c] :
                 o \in AllOptions \ UNION {Flags[d] : d \in DOMAIN Flags}
<1> DEFINE someFlags == {"--continue-on-error", "--no-clipboard", "--insecure", "--clipboard"}
           someOptions == {"--host", "--directory", "--throttle", "--page", "--limit"}
<1>1. /\ WithArgument[c] \subseteq someOptions
      /\ \A d \in DOMAIN Flags : Flags[d] \subseteq someFlags
      /\ DOMAIN Flags = DOMAIN WithArgument
  <2>1. CASE c = "upload"
    BY <2>1 DEF WithArgument, Flags
  <2>2. CASE c = "list-uploads"
    BY <2>2 DEF WithArgument, Flags
  <2>3. CASE c \notin {"upload", "list-uploads"}
    BY <2>3 DEF WithArgument, Flags
  <2> QED  BY <2>1, <2>2, <2>3
<1>2. WithArgument[c] \subseteq AllOptions
  <2> HIDE DEF someFlags, someOptions
  <2> QED  BY DEF AllOptions
<1>3. NoWord \notin someOptions /\ "--" \notin someOptions \union someFlags
  BY DEF NoWord
<1>4. /\ Globals \intersect someOptions = {}
      /\ Globals \intersect someFlags = {}
      /\ "--" \notin Globals
  BY DEF Globals
<1>5. someOptions \intersect someFlags = {}
  OBVIOUS
<1> HIDE DEF someFlags, someOptions
<1> QED  BY <1>1, <1>2, <1>3, <1>4, <1>5

LEMMA ScanIsTyped ==
    ASSUME NEW c \in DOMAIN WithArgument, NEW seen \in Seen(c), NEW w \in STRING
    PROVE  Scan(c, seen, w) \in Seen(c)
<1>1. CASE seen.help
  BY <1>1 DEF Scan
<1>2. CASE ~seen.help /\ seen.wants # NoWord
  BY <1>2 DEF Scan, Seen
<1>3. CASE ~seen.help /\ seen.wants = NoWord /\ (seen.ended \/ w \notin Dashed)
  <2>1. Append(seen.words, w) \in Lists
    BY FrontOfAppend DEF Seen
  <2>2. Scan(c, seen, w) = [seen EXCEPT !.words = Append(@, w)]
    BY <1>3 DEF Scan
  <2> QED  BY <2>1, <2>2 DEF Seen
<1>4. CASE ~seen.help /\ seen.wants = NoWord /\ ~seen.ended /\ w \in Dashed
  <2>1. Scan(c, seen, w) =
            CASE w = "--" -> [seen EXCEPT !.ended = TRUE]
              [] w \in WithArgument[c] -> [seen EXCEPT !.wants = w]
              [] w \in Flags[c] -> [seen EXCEPT !.flags = @ \union {w}]
              [] w \in Globals -> [seen EXCEPT !.out = WithGlobal(@, w)]
              [] OTHER -> [seen EXCEPT !.help = TRUE]
    BY <1>4 DEF Scan
  <2>2. WithGlobal(seen.out, w) \in Outputs
    BY GlobalIsTyped DEF Seen
  <2>3. /\ [seen EXCEPT !.ended = TRUE] \in Seen(c)
        /\ w \in WithArgument[c] => [seen EXCEPT !.wants = w] \in Seen(c)
        /\ [seen EXCEPT !.flags = @ \union {w}] \in Seen(c)
        /\ [seen EXCEPT !.out = WithGlobal(@, w)] \in Seen(c)
        /\ [seen EXCEPT !.help = TRUE] \in Seen(c)
    BY <2>2 DEF Seen
  <2> QED  BY <2>1, <2>3
<1> QED  BY <1>1, <1>2, <1>3, <1>4 DEF Seen

\* Before the first word.
Start(c, out) ==
    [out |-> out, flags |-> {}, words |-> <<>>, wants |-> NoWord,
     value |-> [o \in WithArgument[c] |-> NoWord], ended |-> FALSE, help |-> FALSE]

LEMMA StartIsTyped ==
    ASSUME NEW c \in DOMAIN WithArgument, NEW out \in Outputs
    PROVE  Start(c, out) \in Seen(c)
<1>1. <<>> \in Lists
  BY DEF Lists
<1> QED  BY <1>1 DEF Start, Seen

LEMMA ScannedIs ==
    ASSUME NEW c \in DOMAIN WithArgument, NEW out \in Outputs
    PROVE  /\ Scanned(c, out, <<>>) = Start(c, out)
           /\ \A s \in Lists : Scanned(c, out, s) \in Seen(c)
           /\ \A s \in Lists, w \in STRING :
                 Scanned(c, out, Append(s, w)) = Scan(c, Scanned(c, out, s), w)
<1> DEFINE start == Start(c, out)
           Def(f) == [s \in Lists |->
                        IF s = <<>> THEN start ELSE Scan(c, f[Front(s)], Last(s))]
           step == [v \in Seen(c) |-> [w \in STRING |-> Scan(c, v, w)]]
           seen == CHOOSE f : f = Def(f)
<1>1. \A s : Scanned(c, out, s) = seen[s]
  BY DEF Scanned, Lists, Start
<1>2. <<>> \in Lists /\ start \in Seen(c) /\ step \in [Seen(c) -> [STRING -> Seen(c)]]
  <2>1. <<>> \in Lists
    BY DEF Lists
  <2> HIDE DEF start
  <2>2. start \in Seen(c)
    BY StartIsTyped DEF start
  <2> QED  BY <2>1, <2>2, ScanIsTyped
<1> HIDE DEF start
<1>3. PICK f \in [Lists -> Seen(c)] : Folds(f, start, step)
  <2> HIDE DEF step
  <2> QED  BY <1>2, FoldExists
<1>4. f = Def(f)
  <2>1. ASSUME NEW s \in Lists
        PROVE  f[s] = Def(f)[s]
    <3>1. CASE s = <<>>
      BY <1>3, <3>1 DEF Folds
    <3>2. CASE s # <<>>
      <4>1. Front(s) \in Lists /\ Last(s) \in STRING /\ f[Front(s)] \in Seen(c)
        BY <1>3, <3>2, FrontAndLast
      <4> QED  BY <1>3, <3>2, <4>1 DEF Folds
    <3> QED  BY <3>1, <3>2
  <2> QED  BY <1>3, <2>1
<1>5. seen = Def(seen)
  <2> HIDE DEF Def
  <2> QED  BY <1>4
<1> HIDE DEF seen
<1>6. seen[<<>>] = start
  BY <1>2, <1>5
<1>7. \A s \in Lists, w \in STRING : seen[Append(s, w)] = Scan(c, seen[s], w)
  <2> SUFFICES ASSUME NEW s \in Lists, NEW w \in STRING
               PROVE  seen[Append(s, w)] = Scan(c, seen[s], w)
    OBVIOUS
  <2>1. /\ Append(s, w) \in Lists /\ Append(s, w) # <<>>
        /\ Front(Append(s, w)) = s /\ Last(Append(s, w)) = w
    BY FrontOfAppend
  <2>2. seen[Append(s, w)] = Def(seen)[Append(s, w)]
    BY <1>5
  <2> QED  BY <2>1, <2>2
<1>8. \A s \in Lists : seen[s] \in Seen(c)
  <2> DEFINE P == {s \in Lists : seen[s] \in Seen(c)}
  <2>1. <<>> \in P
    BY <1>2, <1>6
  <2>2. \A s \in P, w \in STRING : Append(s, w) \in P
    BY <1>7, FrontOfAppend, ScanIsTyped
  <2>3. P \in SUBSET Lists
    OBVIOUS
  <2> HIDE DEF P
  <2>4. P = Lists
    BY <2>1, <2>2, <2>3, ListInduction
  <2> QED  BY <2>4 DEF P
<1> HIDE DEF Def, step
<1> QED  BY <1>1, <1>6, <1>7, <1>8, Zenon DEF start

-----------------------------------------------------------------------------
(* The words of a list that are in a set.                                  *)

LEMMA EmptyList == <<>> \in Lists
BY DEF Lists

LEMMA ConcatOf ==
    ASSUME NEW W, NEW s \in Seq(W), NEW t \in Seq(W), NEW x \in W
    PROVE  s \o Append(t, x) = Append(s \o t, x)
<1> DEFINE u == s \o Append(t, x)
           v == Append(s \o t, x)
<1>1. /\ u \in Seq(W) /\ v \in Seq(W) /\ Len(u) = Len(v)
      /\ \A i \in 1 .. Len(u) : u[i] = v[i]
  OBVIOUS
<1> HIDE DEF u, v
<1>2. u = v
  BY <1>1, SeqEqual
<1> QED  BY <1>2 DEF u, v

LEMMA Concat ==
    ASSUME NEW s \in Lists, NEW t \in Lists
    PROVE  /\ s \o t \in Lists
           /\ s \o <<>> = s /\ <<>> \o s = s
<1>1. s \o t \in Lists
  BY ConcatProperties DEF Lists
<1>2. s \o <<>> = s /\ <<>> \o s = s
  BY ConcatEmptySeq DEF Lists
<1> QED  BY <1>1, <1>2

LEMMA ConcatAppend ==
    ASSUME NEW s \in Lists, NEW t \in Lists, NEW x \in STRING
    PROVE  s \o Append(t, x) = Append(s \o t, x)
<1> DEFINE Moves(W) ==
               \A a, b \in Seq(W), y \in W : a \o Append(b, y) = Append(a \o b, y)
<1>1. \A W : Moves(W)
  BY ConcatOf
<1>2. Moves(STRING)
  <2> HIDE DEF Moves
  <2> QED  BY <1>1
<1> QED  BY <1>2, Zenon DEF Lists

LEMMA ConcatThree ==
    ASSUME NEW s \in Lists, NEW t \in Lists, NEW u \in Lists
    PROVE  s \o (t \o u) = (s \o t) \o u
<1> DEFINE Same(W) == \A a, b, d \in Seq(W) : (a \o b) \o d = a \o (b \o d)
<1>1. \A W : Same(W)
  BY ConcatAssociative
<1>2. Same(STRING)
  <2> HIDE DEF Same
  <2> QED  BY <1>1
<1> QED  BY <1>2, Zenon DEF Lists

LEMMA OnlyOfConcat ==
    ASSUME NEW W, NEW s \in Lists, NEW t \in Lists
    PROVE  Only(s \o t, W) = Only(s, W) \o Only(t, W)
<1> DEFINE P == {r \in Lists : Only(s \o r, W) = Only(s, W) \o Only(r, W)}
<1>1. <<>> \in P
  <2>1. <<>> \in Lists /\ Only(s, W) \in Lists /\ Only(<<>>, W) = <<>>
    BY EmptyList, OnlyIs
  <2>2. s \o <<>> = s /\ Only(s, W) \o <<>> = Only(s, W)
    BY <2>1, Concat, Zenon
  <2> QED  BY <2>1, <2>2
<1>2. ASSUME NEW r \in P, NEW w \in STRING
      PROVE  Append(r, w) \in P
  <2>1. /\ r \in Lists /\ Append(r, w) \in Lists /\ s \o r \in Lists
        /\ Only(s, W) \in Lists /\ Only(r, W) \in Lists
    BY FrontOfAppend, Concat, OnlyIs
  <2>2. s \o Append(r, w) = Append(s \o r, w)
    BY <2>1, ConcatAppend, Zenon
  <2>3. Only(Append(s \o r, w), W) =
           IF w \in W THEN Append(Only(s \o r, W), w) ELSE Only(s \o r, W)
    BY <2>1, OnlyIs
  <2>4. Only(Append(r, w), W) = IF w \in W THEN Append(Only(r, W), w) ELSE Only(r, W)
    BY <2>1, OnlyIs
  <2>5. Only(s, W) \o Append(Only(r, W), w) = Append(Only(s, W) \o Only(r, W), w)
    BY <2>1, ConcatAppend, Zenon
  <2> QED  BY <2>1, <2>2, <2>3, <2>4, <2>5, Zenon
<1>3. P \in SUBSET Lists
  OBVIOUS
<1> HIDE DEF P
<1>4. P = Lists
  BY <1>1, <1>2, <1>3, ListInduction
<1> QED  BY <1>4 DEF P

\* What is taken is taken again.
LEMMA OnlyOfOnly ==
    ASSUME NEW W, NEW s \in Lists
    PROVE  Only(Only(s, W), W) = Only(s, W)
<1> DEFINE P == {r \in Lists : Only(Only(r, W), W) = Only(r, W)}
<1>1. <<>> \in P
  BY EmptyList, OnlyIs
<1>2. ASSUME NEW r \in P, NEW w \in STRING
      PROVE  Append(r, w) \in P
  <2>1. r \in Lists /\ Append(r, w) \in Lists /\ Only(r, W) \in Lists
    BY FrontOfAppend, OnlyIs
  <2>2. Only(Append(r, w), W) = IF w \in W THEN Append(Only(r, W), w) ELSE Only(r, W)
    BY <2>1, OnlyIs
  <2>3. w \in W => Only(Append(Only(r, W), w), W) = Append(Only(Only(r, W), W), w)
    BY <2>1, OnlyIs
  <2>4. Only(Only(Append(r, w), W), W) = Only(Append(r, w), W)
    BY <2>2, <2>3
  <2> QED  BY <2>1, <2>4
<1>3. P \in SUBSET Lists
  OBVIOUS
<1> HIDE DEF P
<1>4. P = Lists
  BY <1>1, <1>2, <1>3, ListInduction
<1> QED  BY <1>4 DEF P

\* All words of a list are in a set.
AllIn(s, D) == \A i \in DOMAIN s : s[i] \in D

LEMMA AllInAppendOf ==
    ASSUME NEW W, NEW s \in Seq(W), NEW w \in W, NEW D
    PROVE  AllIn(Append(s, w), D) <=> AllIn(s, D) /\ w \in D
<1>1. /\ DOMAIN Append(s, w) = 1 .. Len(s) + 1 /\ Len(s) \in Nat
      /\ DOMAIN s = 1 .. Len(s)
      /\ \A i \in 1 .. Len(s) : Append(s, w)[i] = s[i]
      /\ Append(s, w)[Len(s) + 1] = w
  OBVIOUS
<1>2. \A i \in 1 .. Len(s) : i \in 1 .. Len(s) + 1
  BY <1>1
<1>3. \A i \in 1 .. Len(s) + 1 : i \in 1 .. Len(s) \/ i = Len(s) + 1
  BY <1>1
<1>4. Len(s) + 1 \in 1 .. Len(s) + 1
  BY <1>1
<1> QED  BY <1>1, <1>2, <1>3, <1>4 DEF AllIn

LEMMA AllInAppend ==
    ASSUME NEW s \in Lists, NEW w \in STRING, NEW D
    PROVE  /\ AllIn(<<>>, D)
           /\ AllIn(Append(s, w), D) <=> AllIn(s, D) /\ w \in D
<1>1. AllIn(<<>>, D)
  BY DEF AllIn
<1> QED  BY <1>1, AllInAppendOf DEF Lists

\* What is taken was there and is in the set; where all is, all is taken.
LEMMA OnlyTakes ==
    ASSUME NEW W, NEW D, NEW s \in Lists
    PROVE  /\ AllIn(Only(s, W), W)
           /\ AllIn(s, D) => AllIn(Only(s, W), D)
<1> DEFINE P == {r \in Lists : AllIn(Only(r, W), W) /\ (AllIn(r, D) => AllIn(Only(r, W), D))}
<1>1. <<>> \in P
  <2>1. <<>> \in Lists /\ Only(<<>>, W) = <<>>
    BY EmptyList, OnlyIs
  <2> QED  BY <2>1, AllInAppend DEF AllIn
<1>2. ASSUME NEW r \in P, NEW w \in STRING
      PROVE  Append(r, w) \in P
  <2>1. r \in Lists /\ Append(r, w) \in Lists /\ Only(r, W) \in Lists
    BY FrontOfAppend, OnlyIs
  <2>2. Only(Append(r, w), W) = IF w \in W THEN Append(Only(r, W), w) ELSE Only(r, W)
    BY <2>1, OnlyIs
  <2>3. /\ AllIn(Append(r, w), D) <=> AllIn(r, D) /\ w \in D
        /\ AllIn(Append(Only(r, W), w), D) <=> AllIn(Only(r, W), D) /\ w \in D
        /\ AllIn(Append(Only(r, W), w), W) <=> AllIn(Only(r, W), W) /\ w \in W
    BY <2>1, AllInAppend
  <2>4. CASE w \in W
    BY <2>1, <2>2, <2>3, <2>4
  <2>5. CASE w \notin W
    BY <2>1, <2>2, <2>3, <2>5
  <2> QED  BY <2>4, <2>5
<1>3. P \in SUBSET Lists
  OBVIOUS
<1> HIDE DEF P
<1>4. P = Lists
  BY <1>1, <1>2, <1>3, ListInduction
<1> QED  BY <1>4 DEF P

-----------------------------------------------------------------------------
(* What the global options of a list do.                                   *)

LEMMA NoGlobal ==
    ASSUME NEW out, NEW w, w \notin Globals
    PROVE  WithGlobal(out, w) = out
BY DEF WithGlobal, Globals

LEMMA OutputOfConcat ==
    ASSUME NEW out \in Outputs, NEW s \in Lists, NEW t \in Lists
    PROVE  OutputAfter(out, s \o t) = OutputAfter(OutputAfter(out, s), t)
<1> DEFINE mid == OutputAfter(out, s)
           P == {r \in Lists : OutputAfter(out, s \o r) = OutputAfter(mid, r)}
<1>1. mid \in Outputs
  BY OutputIs
<1> HIDE DEF mid
<1>2. <<>> \in P
  BY <1>1, EmptyList, Concat, OutputIs DEF mid
<1>3. ASSUME NEW r \in P, NEW w \in STRING
      PROVE  Append(r, w) \in P
  <2>1. r \in Lists /\ Append(r, w) \in Lists /\ s \o r \in Lists
    BY FrontOfAppend, Concat
  <2>2. s \o Append(r, w) = Append(s \o r, w)
    BY <2>1, ConcatAppend
  <2>3. OutputAfter(out, Append(s \o r, w)) = WithGlobal(OutputAfter(out, s \o r), w)
    BY <2>1, OutputIs
  <2>4. OutputAfter(mid, Append(r, w)) = WithGlobal(OutputAfter(mid, r), w)
    BY <1>1, <2>1, OutputIs
  <2> QED  BY <2>1, <2>2, <2>3, <2>4
<1>4. P \in SUBSET Lists
  OBVIOUS
<1> HIDE DEF P
<1>5. P = Lists
  BY <1>2, <1>3, <1>4, ListInduction
<1> QED  BY <1>5 DEF P, mid

\* The other words do nothing.
LEMMA OutputOfGlobals ==
    ASSUME NEW out \in Outputs, NEW s \in Lists
    PROVE  OutputAfter(out, Only(s, Globals)) = OutputAfter(out, s)
<1> DEFINE P == {r \in Lists : OutputAfter(out, Only(r, Globals)) = OutputAfter(out, r)}
<1>1. <<>> \in P
  BY EmptyList, OnlyIs
<1>2. ASSUME NEW r \in P, NEW w \in STRING
      PROVE  Append(r, w) \in P
  <2>1. r \in Lists /\ Append(r, w) \in Lists /\ Only(r, Globals) \in Lists
    BY FrontOfAppend, OnlyIs
  <2>2. Only(Append(r, w), Globals) =
            IF w \in Globals THEN Append(Only(r, Globals), w) ELSE Only(r, Globals)
    BY <2>1, OnlyIs
  <2>3. OutputAfter(out, Append(r, w)) = WithGlobal(OutputAfter(out, r), w)
    BY <2>1, OutputIs
  <2>4. OutputAfter(out, Append(Only(r, Globals), w)) =
            WithGlobal(OutputAfter(out, Only(r, Globals)), w)
    BY <2>1, OutputIs
  <2> QED  BY <2>1, <2>2, <2>3, <2>4, NoGlobal
<1>3. P \in SUBSET Lists
  OBVIOUS
<1> HIDE DEF P
<1>4. P = Lists
  BY <1>1, <1>2, <1>3, ListInduction
<1> QED  BY <1>4 DEF P

LEMMA OutputOfOthers ==
    ASSUME NEW out \in Outputs, NEW s \in Lists, AllIn(s, STRING \ Globals)
    PROVE  OutputAfter(out, s) = out
<1> DEFINE P == {r \in Lists : AllIn(r, STRING \ Globals) => OutputAfter(out, r) = out}
<1>1. <<>> \in P
  BY EmptyList, OutputIs
<1>2. ASSUME NEW r \in P, NEW w \in STRING
      PROVE  Append(r, w) \in P
  <2>1. r \in Lists /\ Append(r, w) \in Lists
    BY FrontOfAppend
  <2>2. AllIn(Append(r, w), STRING \ Globals) <=>
            AllIn(r, STRING \ Globals) /\ w \in STRING \ Globals
    BY <2>1, AllInAppend
  <2>3. OutputAfter(out, Append(r, w)) = WithGlobal(OutputAfter(out, r), w)
    BY <2>1, OutputIs
  <2> QED  BY <2>1, <2>2, <2>3, NoGlobal
<1>3. P \in SUBSET Lists
  OBVIOUS
<1> HIDE DEF P
<1>4. P = Lists
  BY <1>1, <1>2, <1>3, ListInduction
<1> QED  BY <1>4 DEF P

\* A setting is left as it was or set to the same, whatever it was.
Settles(before, after, before2, after2) ==
    after = after2 \/ (after = before /\ after2 = before2)

LEMMA OutputSettles ==
    ASSUME NEW o \in Outputs, NEW p \in Outputs, NEW s \in Lists
    PROVE  /\ Settles(o.mode, OutputAfter(o, s).mode, p.mode, OutputAfter(p, s).mode)
           /\ Settles(o.color, OutputAfter(o, s).color, p.color, OutputAfter(p, s).color)
           /\ Settles(o.notify, OutputAfter(o, s).notify, p.notify, OutputAfter(p, s).notify)
<1> DEFINE Q(a, b) == /\ Settles(o.mode, a.mode, p.mode, b.mode)
                      /\ Settles(o.color, a.color, p.color, b.color)
                      /\ Settles(o.notify, a.notify, p.notify, b.notify)
           P == {r \in Lists : Q(OutputAfter(o, r), OutputAfter(p, r))}
<1>1. <<>> \in P
  BY EmptyList, OutputIs DEF Settles
<1>2. ASSUME NEW a \in Outputs, NEW b \in Outputs, NEW w, Q(a, b)
      PROVE  Q(WithGlobal(a, w), WithGlobal(b, w))
  <2>1. CASE w = "--json"
    BY <1>2, <2>1 DEF WithGlobal, Outputs, Settles
  <2>2. CASE w \in {"--quiet", "-q"}
    BY <1>2, <2>2 DEF WithGlobal, Outputs, Settles
  <2>3. CASE w = "--verbose"
    BY <1>2, <2>3 DEF WithGlobal, Outputs, Settles
  <2>4. CASE w = "--no-color"
    BY <1>2, <2>4 DEF WithGlobal, Outputs, Settles
  <2>5. CASE w \notin Globals
    BY <1>2, <2>5, NoGlobal
  <2> QED  BY <2>1, <2>2, <2>3, <2>4, <2>5 DEF Globals
<1>3. ASSUME NEW r \in P, NEW w \in STRING
      PROVE  Append(r, w) \in P
  <2>1. r \in Lists /\ Append(r, w) \in Lists
    BY FrontOfAppend
  <2>2. /\ OutputAfter(o, r) \in Outputs /\ OutputAfter(p, r) \in Outputs
        /\ OutputAfter(o, Append(r, w)) = WithGlobal(OutputAfter(o, r), w)
        /\ OutputAfter(p, Append(r, w)) = WithGlobal(OutputAfter(p, r), w)
    BY <2>1, OutputIs
  <2>3. Q(OutputAfter(o, r), OutputAfter(p, r))
    OBVIOUS
  <2> HIDE DEF Q
  <2> QED  BY <1>2, <2>1, <2>2, <2>3
<1>4. P \in SUBSET Lists
  OBVIOUS
<1> HIDE DEF P, Q
<1>5. P = Lists
  BY <1>1, <1>3, <1>4, ListInduction
<1> QED  BY <1>5 DEF P, Q

LEMMA OutputTwice ==
    ASSUME NEW out \in Outputs, NEW s \in Lists
    PROVE  OutputAfter(OutputAfter(out, s), s) = OutputAfter(out, s)
<1> DEFINE mid == OutputAfter(out, s)
           end == OutputAfter(mid, s)
<1>1. mid \in Outputs /\ end \in Outputs
  BY OutputIs
<1>2. /\ Settles(out.mode, mid.mode, mid.mode, end.mode)
      /\ Settles(out.color, mid.color, mid.color, end.color)
      /\ Settles(out.notify, mid.notify, mid.notify, end.notify)
  BY <1>1, OutputSettles
<1> HIDE DEF mid, end
<1>3. end.mode = mid.mode /\ end.color = mid.color /\ end.notify = mid.notify
  BY <1>2 DEF Settles
<1>4. end = mid
  BY <1>1, <1>3 DEF Outputs
<1> QED  BY <1>4 DEF mid, end

-----------------------------------------------------------------------------
(* Options with and without the global ones between them.                  *)

Others == STRING \ Globals

Alike(x, y) ==
    /\ x.flags = y.flags /\ x.words = y.words /\ x.wants = y.wants
    /\ x.value = y.value /\ x.ended = y.ended /\ x.help = y.help

LEMMA ScanGlobal ==
    ASSUME NEW c \in DOMAIN WithArgument, NEW x \in Seen(c), NEW w \in Globals,
           x.help \/ (x.wants = NoWord /\ ~x.ended)
    PROVE  Scan(c, x, w) = IF x.help THEN x ELSE [x EXCEPT !.out = WithGlobal(@, w)]
<1>1. CASE x.help
  BY <1>1 DEF Scan
<1>2. CASE ~x.help
  <2>1. w \in Dashed
    BY DEF Dashed
  <2>2. w # "--" /\ w \notin WithArgument[c] /\ w \notin Flags[c]
    BY OptionsAreApart
  <2>3. Scan(c, x, w) =
            CASE w = "--" -> [x EXCEPT !.ended = TRUE]
              [] w \in WithArgument[c] -> [x EXCEPT !.wants = w]
              [] w \in Flags[c] -> [x EXCEPT !.flags = @ \union {w}]
              [] w \in Globals -> [x EXCEPT !.out = WithGlobal(@, w)]
              [] OTHER -> [x EXCEPT !.help = TRUE]
    BY <1>2, <2>1 DEF Scan
  <2> QED  BY <1>2, <2>2, <2>3
<1> QED  BY <1>1, <1>2

\* Another word does the same whatever the output is, and leaves that alone.
LEMMA ScanOther ==
    ASSUME NEW c \in DOMAIN WithArgument, NEW x \in Seen(c), NEW y \in Seen(c),
           Alike(x, y), NEW w \in Others
    PROVE  /\ Alike(Scan(c, x, w), Scan(c, y, w))
           /\ Scan(c, x, w).out = x.out /\ Scan(c, y, w).out = y.out
           /\ Scan(c, x, w).ended => x.ended \/ w = "--"
           /\ Scan(c, x, w).wants # NoWord /\ ~Scan(c, x, w).help =>
                 Scan(c, x, w).wants = w
<1>1. CASE x.help
  BY <1>1 DEF Scan, Alike
<1>2. CASE ~x.help /\ x.wants # NoWord
  <2>1. /\ Scan(c, x, w) = [x EXCEPT !.value[x.wants] = w, !.wants = NoWord]
        /\ Scan(c, y, w) = [y EXCEPT !.value[y.wants] = w, !.wants = NoWord]
    BY <1>2 DEF Scan, Alike
  <2> QED  BY <2>1 DEF Alike, Seen
<1>3. CASE ~x.help /\ x.wants = NoWord /\ (x.ended \/ w \notin Dashed)
  <2>1. /\ Scan(c, x, w) = [x EXCEPT !.words = Append(@, w)]
        /\ Scan(c, y, w) = [y EXCEPT !.words = Append(@, w)]
    BY <1>3 DEF Scan, Alike
  <2>2. Scan(c, x, w).wants = NoWord /\ Scan(c, x, w).ended = x.ended
    BY <1>3, <2>1 DEF Seen
  <2>3. Scan(c, x, w).out = x.out /\ Scan(c, y, w).out = y.out
    BY <2>1 DEF Seen
  <2>4. Alike(Scan(c, x, w), Scan(c, y, w))
    BY <2>1 DEF Alike, Seen
  <2> QED  BY <2>2, <2>3, <2>4
<1>4. CASE ~x.help /\ x.wants = NoWord /\ ~x.ended /\ w \in Dashed
  <2> DEFINE Does(z) ==
               CASE w = "--" -> [z EXCEPT !.ended = TRUE]
                 [] w \in WithArgument[c] -> [z EXCEPT !.wants = w]
                 [] w \in Flags[c] -> [z EXCEPT !.flags = @ \union {w}]
                 [] w \in Globals -> [z EXCEPT !.out = WithGlobal(@, w)]
                 [] OTHER -> [z EXCEPT !.help = TRUE]
  <2>1. Scan(c, x, w) = Does(x) /\ Scan(c, y, w) = Does(y)
    BY <1>4 DEF Scan, Alike
  <2>2. CASE w = "--"
    <3>1. /\ Scan(c, x, w) = [x EXCEPT !.ended = TRUE]
          /\ Scan(c, y, w) = [y EXCEPT !.ended = TRUE]
      <4>1. w \notin WithArgument[c] /\ w \notin Flags[c] /\ w \notin Globals
        BY <2>2, OptionsAreApart
      <4> QED  BY <2>1, <2>2, <4>1
    <3>2. Scan(c, x, w).wants = NoWord
      BY <1>4, <3>1 DEF Seen
    <3>3. Alike(Scan(c, x, w), Scan(c, y, w))
      BY <3>1 DEF Alike, Seen
    <3>4. Scan(c, x, w).out = x.out /\ Scan(c, y, w).out = y.out
      BY <3>1 DEF Seen
    <3> QED  BY <2>2, <3>2, <3>3, <3>4
  <2>3. CASE w # "--" /\ w \in WithArgument[c]
    <3>1. /\ Scan(c, x, w) = [x EXCEPT !.wants = w]
          /\ Scan(c, y, w) = [y EXCEPT !.wants = w]
      <4>1. w \notin Flags[c] /\ w \notin Globals
        BY <2>3, OptionsAreApart DEF Others
      <4> QED  BY <2>1, <2>3, <4>1
    <3> QED  BY <1>4, <2>3, <3>1 DEF Alike, Seen
  <2>4. CASE w # "--" /\ w \notin WithArgument[c] /\ w \in Flags[c]
    <3>1. /\ Scan(c, x, w) = [x EXCEPT !.flags = @ \union {w}]
          /\ Scan(c, y, w) = [y EXCEPT !.flags = @ \union {w}]
      BY <2>1, <2>4 DEF Others
    <3> QED  BY <1>4, <2>4, <3>1 DEF Alike, Seen
  <2>5. CASE w # "--" /\ w \notin WithArgument[c] /\ w \notin Flags[c]
    <3>1. /\ Scan(c, x, w) = [x EXCEPT !.help = TRUE]
          /\ Scan(c, y, w) = [y EXCEPT !.help = TRUE]
      BY <2>1, <2>5 DEF Others
    <3> QED  BY <1>4, <2>5, <3>1 DEF Alike, Seen
  <2> QED  BY <2>2, <2>3, <2>4, <2>5
<1> QED  BY <1>1, <1>2, <1>3, <1>4 DEF Seen

\* No global option of a list is an argument, or behind "--".
Stand(c, s) ==
    \A i \in DOMAIN s :
        s[i] \in Globals =>
            /\ i > 1 => s[i - 1] \notin WithArgument[c]
            /\ \A j \in 1 .. i : s[j] # "--"

LEMMA StandOfAppendOf ==
    ASSUME NEW W, NEW s \in Seq(W), NEW w \in W, NEW c, Stand(c, Append(s, w))
    PROVE  /\ Stand(c, s)
           /\ w \in Globals => /\ s # <<>> => Last(s) \notin WithArgument[c]
                               /\ \A j \in DOMAIN s : s[j] # "--"
<1> DEFINE t == Append(s, w)
<1>1. /\ DOMAIN t = 1 .. Len(s) + 1 /\ Len(s) \in Nat
      /\ DOMAIN s = 1 .. Len(s)
      /\ \A i \in 1 .. Len(s) : t[i] = s[i]
      /\ t[Len(s) + 1] = w
      /\ s # <<>> => Len(s) # 0
  OBVIOUS
<1>2. \A i \in DOMAIN t :
         t[i] \in Globals =>
            /\ i > 1 => t[i - 1] \notin WithArgument[c]
            /\ \A j \in 1 .. i : t[j] # "--"
  BY DEF Stand
<1> HIDE DEF t
<1>3. Stand(c, s)
  <2> SUFFICES ASSUME NEW i \in DOMAIN s, s[i] \in Globals
               PROVE  /\ i > 1 => s[i - 1] \notin WithArgument[c]
                      /\ \A j \in 1 .. i : s[j] # "--"
    BY DEF Stand
  <2>1. i \in DOMAIN t /\ t[i] = s[i]
    BY <1>1
  <2>2. /\ i > 1 => i - 1 \in 1 .. Len(s)
        /\ \A j \in 1 .. i : j \in 1 .. Len(s)
    BY <1>1
  <2> QED  BY <1>1, <1>2, <2>1, <2>2
<1>4. ASSUME w \in Globals
      PROVE  /\ s # <<>> => Last(s) \notin WithArgument[c]
             /\ \A j \in DOMAIN s : s[j] # "--"
  <2>1. Len(s) + 1 \in DOMAIN t /\ t[Len(s) + 1] \in Globals
    BY <1>1, <1>4
  <2>2. /\ Len(s) + 1 > 1 => t[(Len(s) + 1) - 1] \notin WithArgument[c]
        /\ \A j \in 1 .. Len(s) + 1 : t[j] # "--"
    BY <1>2, <2>1
  <2>3. \A j \in 1 .. Len(s) : j \in 1 .. Len(s) + 1
    BY <1>1
  <2>4. ASSUME s # <<>>
        PROVE  Last(s) \notin WithArgument[c]
    <3>1. Len(s) + 1 > 1 /\ (Len(s) + 1) - 1 = Len(s) /\ Len(s) \in 1 .. Len(s)
      BY <1>1, <2>4
    <3> QED  BY <1>1, <2>2, <3>1 DEF Last
  <2> QED  BY <1>1, <2>2, <2>3, <2>4
<1> QED  BY <1>3, <1>4

LEMMA StandOfAppend ==
    ASSUME NEW s \in Lists, NEW w \in STRING, NEW c, Stand(c, Append(s, w))
    PROVE  /\ Stand(c, s)
           /\ w \in Globals => /\ s # <<>> => Last(s) \notin WithArgument[c]
                               /\ \A j \in DOMAIN s : s[j] # "--"
BY StandOfAppendOf DEF Lists

\* Whether a word is in a list.
Has(s, v) == \E j \in DOMAIN s : s[j] = v

\* A scan with the global options and one without.
ScansAlike(c, out, s) ==
    LET x == Scanned(c, out, s)
        y == Scanned(c, out, Only(s, Others))
    IN  /\ Alike(x, y)
        /\ x.help \/ x.out = OutputAfter(out, s)
        /\ y.out = out
        /\ x.wants # NoWord /\ ~x.help => s # <<>> /\ Last(s) = x.wants
        /\ x.ended => Has(s, "--")

LEMMA EndsOf ==
    ASSUME NEW W, NEW s \in Seq(W), NEW w \in W, NEW v
    PROVE  Has(Append(s, w), v) <=> Has(s, v) \/ w = v
<1>1. /\ DOMAIN Append(s, w) = 1 .. Len(s) + 1 /\ Len(s) \in Nat
      /\ DOMAIN s = 1 .. Len(s)
      /\ \A i \in 1 .. Len(s) : Append(s, w)[i] = s[i]
      /\ Append(s, w)[Len(s) + 1] = w
  OBVIOUS
<1>2. \A i \in 1 .. Len(s) : i \in 1 .. Len(s) + 1
  BY <1>1
<1>3. \A i \in 1 .. Len(s) + 1 : i \in 1 .. Len(s) \/ i = Len(s) + 1
  BY <1>1
<1>4. Len(s) + 1 \in 1 .. Len(s) + 1
  BY <1>1
<1> QED  BY <1>1, <1>2, <1>3, <1>4 DEF Has

LEMMA Ends ==
    ASSUME NEW s \in Lists, NEW w \in STRING, NEW v
    PROVE  Has(Append(s, w), v) <=> Has(s, v) \/ w = v
<1> DEFINE Adds(W) == \A a \in Seq(W), b \in W :
               Has(Append(a, b), v) <=> Has(a, v) \/ b = v
<1>1. \A W : Adds(W)
  BY EndsOf
<1>2. Adds(STRING)
  <2> HIDE DEF Adds
  <2> QED  BY <1>1
<1> QED  BY <1>2, Zenon DEF Lists

LEMMA ScanWithoutGlobals ==
    ASSUME NEW c \in DOMAIN WithArgument, NEW out \in Outputs, NEW s \in Lists, Stand(c, s)
    PROVE  ScansAlike(c, out, s)
<1> DEFINE P == {r \in Lists : Stand(c, r) => ScansAlike(c, out, r)}
<1>1. <<>> \in P
  <2>1. /\ Scanned(c, out, <<>>) = Start(c, out)
        /\ Only(<<>>, Others) = <<>>
        /\ OutputAfter(out, <<>>) = out
    BY OnlyIs, ScannedIs, OutputIs
  <2>2. /\ Start(c, out).out = out /\ Start(c, out).wants = NoWord
        /\ ~Start(c, out).ended
    BY DEF Start
  <2> QED  BY <2>1, <2>2, EmptyList DEF ScansAlike, Alike
<1>2. ASSUME NEW r \in P, NEW w \in STRING
      PROVE  Append(r, w) \in P
  <2> SUFFICES ASSUME Stand(c, Append(r, w))
               PROVE  ScansAlike(c, out, Append(r, w))
    BY FrontOfAppend
  <2> DEFINE s1 == Append(r, w)
             x == Scanned(c, out, r)
             y == Scanned(c, out, Only(r, Others))
             x1 == Scanned(c, out, s1)
             y1 == Scanned(c, out, Only(s1, Others))
  <2>1. /\ r \in Lists /\ s1 \in Lists /\ s1 # <<>> /\ Last(s1) = w
        /\ Only(r, Others) \in Lists
    BY FrontOfAppend, OnlyIs
  <2>2. /\ Stand(c, r)
        /\ w \in Globals => /\ r # <<>> => Last(r) \notin WithArgument[c]
                            /\ \A j \in DOMAIN r : r[j] # "--"
    BY <2>1, StandOfAppend
  <2>3. ScansAlike(c, out, r)
    BY <2>2
  <2>4. /\ Alike(x, y)
        /\ x.help \/ x.out = OutputAfter(out, r)
        /\ y.out = out
        /\ x.wants # NoWord /\ ~x.help => r # <<>> /\ Last(r) = x.wants
        /\ x.ended => Has(r, "--")
    BY <2>3 DEF ScansAlike
  <2>5. x \in Seen(c) /\ y \in Seen(c) /\ x1 = Scan(c, x, w)
    BY <2>1, ScannedIs
  <2>6. OutputAfter(out, s1) = WithGlobal(OutputAfter(out, r), w)
    BY <2>1, OutputIs
  <2>7. Has(s1, "--") <=> Has(r, "--") \/ w = "--"
    BY <2>1, Ends
  <2>8. CASE w \in Globals
    <3>1. y1 = y
      <4>1. w \notin Others
        BY <2>8 DEF Others
      <4> QED  BY <2>1, <4>1, OnlyIs
    <3>2. x.help \/ (x.wants = NoWord /\ ~x.ended)
      <4>1. x.wants \in WithArgument[c] \union {NoWord}
        BY <2>5 DEF Seen
      <4> QED  BY <2>2, <2>4, <2>8, <4>1 DEF Has
    <3>3. x1 = IF x.help THEN x ELSE [x EXCEPT !.out = WithGlobal(@, w)]
      BY <2>5, <2>8, <3>2, ScanGlobal
    <3>4. /\ Alike(x1, x)
          /\ x1.help \/ x1.out = OutputAfter(out, s1)
      <4>1. CASE x.help
        BY <3>3, <4>1 DEF Alike
      <4>2. CASE ~x.help
        <5>1. x1 = [x EXCEPT !.out = WithGlobal(@, w)]
          BY <3>3, <4>2
        <5>2. Alike(x1, x) /\ x1.out = WithGlobal(x.out, w)
          BY <2>5, <5>1 DEF Alike, Seen
        <5> QED  BY <2>4, <2>6, <4>2, <5>2
      <4> QED  BY <4>1, <4>2
    <3> HIDE DEF x, y, x1, y1, s1
    <3>5. Alike(x1, y1)
      BY <2>4, <3>1, <3>4 DEF Alike
    <3>6. x1.wants # NoWord /\ ~x1.help => s1 # <<>> /\ Last(s1) = x1.wants
      BY <3>2, <3>4 DEF Alike
    <3>7. x1.ended => Has(s1, "--")
      BY <2>4, <2>7, <3>4 DEF Alike
    <3> QED  BY <2>4, <3>1, <3>4, <3>5, <3>6, <3>7 DEF ScansAlike, x1, y1, s1
  <2>9. CASE w \notin Globals
    <3>1. w \in Others
      BY <2>9 DEF Others
    <3>2. Only(s1, Others) = Append(Only(r, Others), w)
      BY <2>1, <3>1, OnlyIs
    <3>3. y1 = Scan(c, y, w)
      <4>1. Scanned(c, out, Append(Only(r, Others), w)) = Scan(c, y, w)
        BY <2>1, ScannedIs
      <4> QED  BY <3>2, <4>1
    <3> HIDE DEF x, y, x1, y1, s1
    <3>4. /\ Alike(x1, y1) /\ x1.out = x.out /\ y1.out = y.out
          /\ x1.ended => x.ended \/ w = "--"
          /\ x1.wants # NoWord /\ ~x1.help => x1.wants = w
      BY <2>4, <2>5, <3>1, <3>3, ScanOther
    <3>5. x.help => x1.help
      BY <2>5 DEF Scan
    <3>6. OutputAfter(out, s1) = OutputAfter(out, r)
      BY <2>6, <2>9, NoGlobal
    <3>7. x1.help \/ x1.out = OutputAfter(out, s1)
      BY <2>4, <3>4, <3>5, <3>6
    <3>8. x1.ended => Has(s1, "--")
      BY <2>4, <2>7, <3>4
    <3> QED  BY <2>1, <2>4, <3>4, <3>7, <3>8 DEF ScansAlike, x1, y1, s1
  <2> QED  BY <2>8, <2>9
<1>3. P \in SUBSET Lists
  OBVIOUS
<1> HIDE DEF P
<1>4. P = Lists
  BY <1>1, <1>2, <1>3, ListInduction
<1> QED  BY <1>4 DEF P

\* What follows a command with options means the same without the global ones
\* if they were looked for before.
LEMMA OptionsWithoutGlobals ==
    ASSUME NEW c \in DOMAIN WithArgument, NEW out \in Outputs, NEW s \in Lists, Stand(c, s),
           OutputAfter(out, s) = out
    PROVE  SameMeaning(ParseOptions(c, out, Only(s, Others)), ParseOptions(c, out, s))
<1> DEFINE x == Scanned(c, out, s)
           y == Scanned(c, out, Only(s, Others))
           gx == GetOpt(c, out, s)
           gy == GetOpt(c, out, Only(s, Others))
<1>1. /\ Alike(x, y) /\ y.out = out
      /\ x.help \/ x.out = out
  BY ScanWithoutGlobals DEF ScansAlike
<1>2. x \in Seen(c) /\ y \in Seen(c)
  BY OnlyIs, ScannedIs
<1>3. /\ gx = [x EXCEPT !.help = @ \/ x.wants # NoWord]
      /\ gy = [y EXCEPT !.help = @ \/ y.wants # NoWord]
  BY DEF GetOpt
<1> HIDE DEF x, y, gx, gy
<1>4. CASE x.help \/ x.wants # NoWord
  <2>1. y.help \/ y.wants # NoWord
    BY <1>1, <1>4 DEF Alike
  <2>2. gx.help /\ gy.help
    BY <1>2, <1>3, <1>4, <2>1 DEF Seen
  <2>3. /\ ParseOptions(c, out, s).over = gx.help
        /\ ParseOptions(c, out, Only(s, Others)).over = gy.help
    BY DEF ParseOptions, Args, gx, gy
  <2> QED  BY <2>2, <2>3 DEF SameMeaning
<1>5. CASE ~x.help /\ x.wants = NoWord
  <2>1. x = y
    <3>1. ASSUME NEW z \in Seen(c)
          PROVE  z = [out |-> z.out, flags |-> z.flags, words |-> z.words,
                      wants |-> z.wants, value |-> z.value, ended |-> z.ended,
                      help |-> z.help]
      BY <3>1 DEF Seen
    <3>2. x.out = y.out
      BY <1>1, <1>5
    <3> QED  BY <1>1, <1>2, <3>1, <3>2 DEF Alike
  <2>2. GetOpt(c, out, s) = GetOpt(c, out, Only(s, Others))
    BY <1>3, <2>1 DEF gx, gy
  <2> QED  BY <2>2 DEF ParseOptions, SameMeaning
<1> QED  BY <1>4, <1>5

-----------------------------------------------------------------------------
(* The command and what is before and behind it.                           *)

LEMMA SplitOf ==
    ASSUME NEW W, NEW s \in Seq(W), NEW k \in DOMAIN s
    PROVE  /\ SubSeq(s, 1, k - 1) \in Seq(W) /\ After(s, k) \in Seq(W) /\ s[k] \in W
           /\ Len(SubSeq(s, 1, k - 1)) = k - 1
           /\ \A i \in DOMAIN SubSeq(s, 1, k - 1) : i < k /\ SubSeq(s, 1, k - 1)[i] = s[i]
           /\ Len(After(s, k)) = Len(s) - k
           /\ \A i \in DOMAIN After(s, k) : After(s, k)[i] = s[k + i]
           /\ s = Append(SubSeq(s, 1, k - 1), s[k]) \o After(s, k)
<1> DEFINE pre == SubSeq(s, 1, k - 1)
           post == SubSeq(s, k + 1, Len(s))
<1>1. k \in 1 .. Len(s) /\ Len(s) \in Nat /\ s[k] \in W /\ k \in Nat
  OBVIOUS
<1>2. /\ pre \in Seq(W) /\ Len(pre) = k - 1
      /\ \A i \in 1 .. k - 1 : pre[i] = s[i]
  <2>1. \A i \in 1 .. k - 1 : s[i] \in W
    BY <1>1
  <2> QED  BY <1>1, <2>1
<1>3. /\ post \in Seq(W) /\ Len(post) = Len(s) - k
      /\ \A i \in 1 .. Len(s) - k : post[i] = s[k + i]
  <2>1. \A i \in k + 1 .. Len(s) : s[i] \in W
    BY <1>1
  <2> QED  BY <1>1, <2>1
<1> HIDE DEF pre, post
<1> DEFINE u == Append(pre, s[k])
<1>4. /\ u \in Seq(W) /\ Len(u) = k
      /\ \A i \in 1 .. k : u[i] = s[i]
  BY <1>1, <1>2
<1> HIDE DEF u
<1>5. /\ u \o post \in Seq(W) /\ Len(u \o post) = Len(s)
      /\ \A i \in 1 .. Len(s) : (u \o post)[i] = s[i]
  <2>1. u \o post \in Seq(W) /\ Len(u \o post) = Len(s)
    BY <1>1, <1>3, <1>4
  <2>2. ASSUME NEW i \in 1 .. Len(s)
        PROVE  (u \o post)[i] = s[i]
    <3>1. (u \o post)[i] = IF i <= k THEN u[i] ELSE post[i - k]
      BY <1>1, <1>3, <1>4
    <3>2. CASE i <= k
      BY <1>1, <1>4, <3>1, <3>2
    <3>3. CASE ~(i <= k)
      <4>1. i - k \in 1 .. Len(s) - k /\ k + (i - k) = i
        BY <1>1, <3>3
      <4> QED  BY <1>1, <1>3, <3>1, <3>3, <4>1
    <3> QED  BY <1>1, <3>2, <3>3
  <2> QED  BY <2>1, <2>2
<1>6. s = u \o post
  BY <1>5, SeqEqual
<1>7. \A i \in DOMAIN pre : i < k /\ pre[i] = s[i]
  BY <1>1, <1>2
<1>8. \A i \in DOMAIN post : post[i] = s[k + i]
  BY <1>1, <1>3
<1> QED  BY <1>1, <1>2, <1>3, <1>6, <1>7, <1>8 DEF After, pre, post, u

LEMMA JoinOf ==
    ASSUME NEW W, NEW a \in Seq(W), NEW c \in W, NEW r \in Seq(W)
    PROVE  LET v == Append(a, c) \o r IN
           /\ v \in Seq(W)
           /\ Len(a) + 1 \in DOMAIN v /\ v[Len(a) + 1] = c
           /\ \A i \in DOMAIN v : i < Len(a) + 1 => i \in DOMAIN a /\ v[i] = a[i]
           /\ After(v, Len(a) + 1) = r
<1> DEFINE n == Len(a) + 1
           u == Append(a, c)
           v == u \o r
<1>1. /\ u \in Seq(W) /\ Len(u) = n /\ u[n] = c /\ n \in Nat /\ n > 0
      /\ DOMAIN a = 1 .. n - 1
      /\ \A i \in 1 .. n - 1 : u[i] = a[i]
      /\ Len(r) \in Nat
  OBVIOUS
<1> HIDE DEF u, n
<1>2. /\ v \in Seq(W) /\ Len(v) = n + Len(r) /\ DOMAIN v = 1 .. n + Len(r)
      /\ \A i \in 1 .. n + Len(r) : v[i] = IF i <= n THEN u[i] ELSE r[i - n]
  BY <1>1
<1> HIDE DEF v
<1>3. n \in DOMAIN v /\ v[n] = c
  BY <1>1, <1>2
<1>4. \A i \in DOMAIN v : i < n => i \in DOMAIN a /\ v[i] = a[i]
  <2> SUFFICES ASSUME NEW i \in DOMAIN v, i < n
               PROVE  i \in DOMAIN a /\ v[i] = a[i]
    OBVIOUS
  <2>1. i \in 1 .. n - 1 /\ i <= n
    BY <1>1, <1>2
  <2> QED  BY <1>1, <1>2, <2>1
<1>5. SubSeq(v, n + 1, Len(v)) = r
  <2>1. \A i \in n + 1 .. Len(v) : v[i] \in W
    BY <1>1, <1>2
  <2> DEFINE t == SubSeq(v, n + 1, Len(v))
  <2>2. /\ t \in Seq(W) /\ Len(t) = Len(r)
        /\ \A i \in 1 .. Len(r) : t[i] = v[n + i]
    BY <1>1, <1>2, <2>1
  <2>3. \A i \in 1 .. Len(r) : v[n + i] = r[i]
    <3> SUFFICES ASSUME NEW i \in 1 .. Len(r)
                 PROVE  v[n + i] = r[i]
      OBVIOUS
    <3>1. n + i \in 1 .. n + Len(r) /\ ~(n + i <= n) /\ (n + i) - n = i
      BY <1>1
    <3> QED  BY <1>2, <3>1
  <2> HIDE DEF t
  <2>4. t = r
    BY <2>2, <2>3, SeqEqual
  <2> QED  BY <2>4 DEF t
<1> QED  BY <1>2, <1>3, <1>4, <1>5 DEF After, n, u, v

\* The command is the first of its kind.
LEMMA CommandIsFirst ==
    ASSUME NEW s \in Lists
    PROVE  /\ CommandAt(s) = 0 => AllIn(s, Dashed)
           /\ CommandAt(s) # 0 =>
                 /\ CommandAt(s) \in DOMAIN s
                 /\ s[CommandAt(s)] \notin Dashed
                 /\ \A j \in DOMAIN s : s[j] \notin Dashed => CommandAt(s) <= j
<1> DEFINE words == {k \in DOMAIN s : s[k] \notin Dashed}
<1>1. words \in SUBSET Nat /\ 0 \notin words
  <2>1. DOMAIN s = 1 .. Len(s) /\ Len(s) \in Nat
    BY LenProperties DEF Lists
  <2> QED  BY <2>1
<1>2. CommandAt(s) = IF words = {} THEN 0 ELSE CHOOSE k \in words : \A j \in words : k <= j
  BY DEF CommandAt
<1>3. CASE words = {}
  BY <1>2, <1>3 DEF AllIn
<1>4. CASE words # {}
  <2> HIDE DEF words
  <2>1. \E k \in words : \A j \in words : k <= j
    BY <1>1, <1>4, LeastOf
  <2>2. CommandAt(s) \in words /\ \A j \in words : CommandAt(s) <= j
    BY <1>2, <1>4, <2>1
  <2>3. CommandAt(s) # 0
    BY <1>1, <2>2
  <2> QED  BY <2>2, <2>3 DEF words
<1> QED  BY <1>3, <1>4

LEMMA CommandJoins ==
    ASSUME NEW a \in Lists, AllIn(a, Dashed), NEW c \in STRING, c \notin Dashed,
           NEW r \in Lists
    PROVE  /\ CommandAt(Append(a, c) \o r) # 0
           /\ (Append(a, c) \o r)[CommandAt(Append(a, c) \o r)] = c
           /\ After(Append(a, c) \o r, CommandAt(Append(a, c) \o r)) = r
<1> DEFINE v == Append(a, c) \o r
           n == Len(a) + 1
<1>1. /\ v \in Lists
      /\ n \in DOMAIN v /\ v[n] = c
      /\ \A i \in DOMAIN v : i < n => i \in DOMAIN a /\ v[i] = a[i]
      /\ After(v, n) = r
  <2> DEFINE Joins(W) == \A b, e \in Seq(W), d \in W :
                 LET w == Append(b, d) \o e IN
                 /\ w \in Seq(W)
                 /\ Len(b) + 1 \in DOMAIN w /\ w[Len(b) + 1] = d
                 /\ \A i \in DOMAIN w : i < Len(b) + 1 => i \in DOMAIN b /\ w[i] = b[i]
                 /\ After(w, Len(b) + 1) = e
  <2>1. \A W : Joins(W)
    BY JoinOf
  <2>2. Joins(STRING)
    <3> HIDE DEF Joins
    <3> QED  BY <2>1
  <2> QED  BY <2>2, Zenon DEF Lists
<1>2. DOMAIN v \subseteq Nat /\ n \in Nat
  <2>1. DOMAIN v = 1 .. Len(v) /\ Len(v) \in Nat
    BY <1>1, LenProperties DEF Lists
  <2> QED  BY <1>1, <2>1
<1> HIDE DEF v, n
<1>3. \A i \in DOMAIN v : i < n => v[i] \in Dashed
  BY <1>1 DEF AllIn
<1>4. CommandAt(v) # 0
  BY <1>1, CommandIsFirst DEF AllIn
<1>5. CommandAt(v) = n
  <2>1. /\ CommandAt(v) \in DOMAIN v /\ v[CommandAt(v)] \notin Dashed
        /\ CommandAt(v) <= n
    BY <1>1, <1>4, CommandIsFirst
  <2>2. ~(CommandAt(v) < n)
    BY <1>3, <2>1
  <2> QED  BY <1>2, <2>1, <2>2
<1> QED  BY <1>1, <1>4, <1>5 DEF v

LEMMA AllInConcatOf ==
    ASSUME NEW W, NEW s \in Seq(W), NEW t \in Seq(W), NEW D, AllIn(s, D), AllIn(t, D)
    PROVE  AllIn(s \o t, D)
<1>1. /\ DOMAIN (s \o t) = 1 .. Len(s) + Len(t)
      /\ Len(s) \in Nat /\ Len(t) \in Nat
      /\ DOMAIN s = 1 .. Len(s) /\ DOMAIN t = 1 .. Len(t)
      /\ \A i \in 1 .. Len(s) + Len(t) :
            (s \o t)[i] = IF i <= Len(s) THEN s[i] ELSE t[i - Len(s)]
  OBVIOUS
<1>2. ASSUME NEW i \in 1 .. Len(s) + Len(t)
      PROVE  (s \o t)[i] \in D
  <2>1. CASE i <= Len(s)
    <3>1. i \in 1 .. Len(s)
      BY <1>1, <2>1
    <3> QED  BY <1>1, <2>1, <3>1 DEF AllIn
  <2>2. CASE ~(i <= Len(s))
    <3>1. i - Len(s) \in 1 .. Len(t)
      BY <1>1, <2>2
    <3> QED  BY <1>1, <2>2, <3>1 DEF AllIn
  <2> QED  BY <2>1, <2>2
<1> QED  BY <1>1, <1>2 DEF AllIn

LEMMA AllInConcat ==
    ASSUME NEW s \in Lists, NEW t \in Lists, NEW D, AllIn(s, D), AllIn(t, D)
    PROVE  AllIn(s \o t, D)
BY AllInConcatOf DEF Lists

-----------------------------------------------------------------------------
(* The arguments with the global options first.                            *)

\* What parse_args makes of a command and the words behind it.
AfterCommand(c, out, rest) ==
    LET words == OtherWords(rest)
    IN  CASE c \in DOMAIN WithArgument -> ParseOptions(c, out, rest)
          [] c \in Worded /\ words # <<>> -> Simple(c, out, <<words[1]>>)
          [] c \in Worded /\ words = <<>> -> Simple("unknown", out, <<>>)
          [] c \in Wordless -> Simple(c, out, <<>>)
          [] c = "config" -> ParseConfig(out, words)
          [] c = "help" -> Simple(c, out, IF rest = <<>> THEN <<"general">> ELSE <<rest[1]>>)

LEMMA ParseIs ==
    ASSUME NEW s
    PROVE  Parse(s) = IF CommandAt(s) # 0 /\ s[CommandAt(s)] \in Commands
                      THEN AfterCommand(s[CommandAt(s)], OutputAfter(Output, s),
                                        After(s, CommandAt(s)))
                      ELSE Simple("unknown", OutputAfter(Output, s), <<>>)
<1> DEFINE k == CommandAt(s)
           out == OutputAfter(Output, s)
           told == AfterCommand(s[k], out, After(s, k))
           nothing == Simple("unknown", out, <<>>)
<1>1. Parse(s) = CASE k = 0 -> nothing
                   [] k # 0 /\ s[k] \notin Commands -> nothing
                   [] OTHER -> told
  BY Zenon DEF Parse, AfterCommand
<1> HIDE DEF k, told, nothing
<1>2. CASE k = 0
  BY <1>1, <1>2 DEF k, told, nothing
<1>3. CASE k # 0 /\ s[k] \notin Commands
  BY <1>1, <1>3 DEF k, told, nothing
<1>4. CASE k # 0 /\ s[k] \in Commands
  BY <1>1, <1>4 DEF k, told, nothing
<1> QED  BY <1>2, <1>3, <1>4

\* A command means the same without the global options among its words if they
\* were looked for before; all but help.
LEMMA CommandWithoutGlobals ==
    ASSUME NEW c \in ProgramCommands, c # "help", NEW out \in Outputs, NEW s \in Lists,
           c \in DOMAIN WithArgument => Stand(c, s),
           OutputAfter(out, s) = out
    PROVE  SameMeaning(AfterCommand(c, out, Only(s, Others)), AfterCommand(c, out, s))
<1> DEFINE t == Only(s, Others)
           words == OtherWords(s)
<1>1. OtherWords(t) = words
  BY OnlyOfOnly DEF OtherWords, Others
<1> HIDE DEF t, words
<1>2. CASE c \in DOMAIN WithArgument
  <2>1. \A r : AfterCommand(c, out, r) = ParseOptions(c, out, r)
    BY <1>2 DEF AfterCommand, WithArgument, Worded, Wordless
  <2> QED  BY <1>2, <2>1, OptionsWithoutGlobals
<1>3. CASE c \in Worded
  <2>1. \A r : AfterCommand(c, out, r) =
                  IF OtherWords(r) # <<>> THEN Simple(c, out, <<OtherWords(r)[1]>>)
                  ELSE Simple("unknown", out, <<>>)
    BY <1>3 DEF AfterCommand, WithArgument, Worded, Wordless
  <2> QED  BY <1>1, <2>1 DEF SameMeaning, t, words
<1>4. CASE c \in Wordless
  <2>1. \A r : AfterCommand(c, out, r) = Simple(c, out, <<>>)
    BY <1>4 DEF AfterCommand, WithArgument, Worded, Wordless
  <2> QED  BY <2>1 DEF SameMeaning
<1>5. CASE c = "config"
  <2>1. \A r : AfterCommand(c, out, r) = ParseConfig(out, OtherWords(r))
    BY <1>5 DEF AfterCommand, WithArgument, Worded, Wordless
  <2> QED  BY <1>1, <2>1 DEF SameMeaning, t, words
<1> QED  BY <1>2, <1>3, <1>4, <1>5 DEF ProgramCommands

LEMMA StandBehindOf ==
    ASSUME NEW W, NEW s \in Seq(W), NEW k \in DOMAIN s, NEW c,
           Stand(c, s)
    PROVE  Stand(c, After(s, k))
<1> DEFINE t == After(s, k)
<1>1. /\ t \in Seq(W) /\ Len(t) = Len(s) - k
      /\ \A i \in DOMAIN t : t[i] = s[k + i]
  BY SplitOf
<1>2. DOMAIN t = 1 .. Len(s) - k /\ k \in 1 .. Len(s) /\ Len(s) \in Nat
      /\ DOMAIN s = 1 .. Len(s)
  BY <1>1
<1> HIDE DEF t
<1>3. ASSUME NEW i \in DOMAIN t, t[i] \in Globals
      PROVE  /\ i > 1 => t[i - 1] \notin WithArgument[c]
             /\ \A j \in 1 .. i : t[j] # "--"
  <2>1. k + i \in DOMAIN s /\ s[k + i] \in Globals /\ k + i > 1
    BY <1>1, <1>2, <1>3
  <2>2. s[(k + i) - 1] \notin WithArgument[c] /\ \A j \in 1 .. k + i : s[j] # "--"
    BY <2>1 DEF Stand
  <2>3. ASSUME i > 1
        PROVE  t[i - 1] \notin WithArgument[c]
    <3>1. i - 1 \in DOMAIN t /\ k + (i - 1) = (k + i) - 1
      BY <1>2, <2>3
    <3> QED  BY <1>1, <2>2, <3>1
  <2>4. ASSUME NEW j \in 1 .. i
        PROVE  t[j] # "--"
    <3>1. j \in DOMAIN t /\ k + j \in 1 .. k + i
      BY <1>2
    <3> QED  BY <1>1, <2>2, <3>1
  <2> QED  BY <2>3, <2>4
<1> QED  BY <1>3 DEF Stand, t

LEMMA GlobalsComeFirst ==
    ASSUME NEW s \in Lists,
           \A c \in DOMAIN WithArgument : Stand(c, s),
           Parse(s).type # "help"
    PROVE  SameMeaning(Parse(Only(s, Globals) \o Only(s, Others)), Parse(s))
<1> DEFINE g == Only(s, Globals)
           first == g \o Only(s, Others)
           out == OutputAfter(Output, s)
           k == CommandAt(s)
<1>1. g \in Lists /\ Only(s, Others) \in Lists /\ first \in Lists
  BY OnlyIs, Concat
<1>2. Globals \subseteq Dashed
  BY DEF Dashed
<1>3. AllIn(g, Dashed)
  BY <1>2, OnlyTakes DEF AllIn
<1>4. out \in Outputs /\ OutputAfter(Output, first) = out
  <2>1. Output \in Outputs
    BY DEF Output, Outputs
  <2>2. OutputAfter(Output, g) = out /\ out \in Outputs
    BY <2>1, OutputOfGlobals, OutputIs
  <2>3. AllIn(Only(s, Others), STRING \ Globals)
    BY OnlyTakes DEF Others
  <2>4. OutputAfter(out, Only(s, Others)) = out
    BY <1>1, <2>2, <2>3, OutputOfOthers
  <2> QED  BY <1>1, <2>1, <2>2, <2>4, OutputOfConcat
<1>5. CASE k = 0
  <2>1. AllIn(s, Dashed)
    BY <1>5, CommandIsFirst
  <2>2. AllIn(Only(s, Others), Dashed)
    BY <2>1, OnlyTakes
  <2>3. AllIn(first, Dashed)
    BY <1>1, <1>3, <2>2, AllInConcat
  <2>4. CommandAt(first) = 0
    BY <1>1, <2>3, CommandIsFirst DEF AllIn
  <2> QED  BY <1>4, <1>5, <2>4, ParseIs DEF SameMeaning
<1>6. CASE k # 0
  <2> DEFINE pre == SubSeq(s, 1, k - 1)
             c == s[k]
             rest == After(s, k)
             r == Only(rest, Others)
             q == Only(pre, Others)
  <2>1. /\ k \in DOMAIN s /\ c \notin Dashed
        /\ \A j \in DOMAIN s : s[j] \notin Dashed => k <= j
    BY <1>6, CommandIsFirst
  <2>2. /\ pre \in Lists /\ rest \in Lists /\ c \in STRING
        /\ \A i \in DOMAIN pre : i < k /\ pre[i] = s[i]
        /\ s = Append(pre, c) \o rest
    BY <2>1, SplitOf DEF Lists
  <2>3. AllIn(pre, Dashed)
    <3> SUFFICES ASSUME NEW i \in DOMAIN pre, s[i] \notin Dashed
                 PROVE  FALSE
      BY <2>2 DEF AllIn
    <3>1. DOMAIN pre = 1 .. Len(pre) /\ DOMAIN s = 1 .. Len(s)
          /\ Len(pre) = k - 1 /\ Len(s) \in Nat
      BY <2>1, <2>2, SplitOf, LenProperties DEF Lists
    <3> HIDE DEF pre, k
    <3>2. i \in DOMAIN s /\ i < k /\ ~(k <= i)
      BY <2>1, <2>2, <3>1
    <3> QED  BY <2>1, <3>2
  <2>4. /\ Append(pre, c) \in Lists /\ q \in Lists /\ r \in Lists
        /\ Append(q, c) \in Lists /\ g \o q \in Lists
    BY <1>1, <2>2, FrontOfAppend, OnlyIs, Concat
  <2>5. Only(s, Others) = Append(q, c) \o r
    <3>1. c \in Others
      BY <1>2, <2>1, <2>2 DEF Others
    <3>2. Only(Append(pre, c), Others) = Append(q, c)
      BY <2>2, <3>1, OnlyIs
    <3>3. Only(Append(pre, c) \o rest, Others) = Only(Append(pre, c), Others) \o r
      BY <2>2, <2>4, OnlyOfConcat
    <3> HIDE DEF pre, c, rest, r, q
    <3> QED  BY <2>2, <3>2, <3>3
  <2>6. first = Append(g \o q, c) \o r
    <3>1. g \o (Append(q, c) \o r) = (g \o Append(q, c)) \o r
      <4> HIDE DEF g, q, c, r
      <4>1. g \in Lists /\ Append(q, c) \in Lists /\ r \in Lists
        BY <1>1, <2>4
      <4> QED  BY <4>1, ConcatThree, Zenon
    <3>2. g \o Append(q, c) = Append(g \o q, c)
      BY <1>1, <2>2, <2>4, ConcatAppend
    <3> QED  BY <2>5, <3>1, <3>2
  <2>7. AllIn(g \o q, Dashed)
    BY <1>1, <1>3, <2>2, <2>3, <2>4, OnlyTakes, AllInConcat
  <2>8. /\ CommandAt(first) # 0
        /\ first[CommandAt(first)] = c /\ After(first, CommandAt(first)) = r
    <3> HIDE DEF first, g, q, c, r
    <3> DEFINE a == g \o q
    <3>1. a \in Lists /\ AllIn(a, Dashed) /\ c \in STRING /\ c \notin Dashed /\ r \in Lists
      BY <2>1, <2>2, <2>4, <2>7
    <3>2. first = Append(a, c) \o r
      BY <2>6
    <3> HIDE DEF a, first, c, r
    <3>3. /\ CommandAt(Append(a, c) \o r) # 0
          /\ (Append(a, c) \o r)[CommandAt(Append(a, c) \o r)] = c
          /\ After(Append(a, c) \o r, CommandAt(Append(a, c) \o r)) = r
      BY <3>1, CommandJoins, Zenon
    <3> QED  BY <3>2, <3>3
  <2>9. OutputAfter(out, rest) = out
    <3> DEFINE before == OutputAfter(Output, Append(pre, c))
    <3>1. Output \in Outputs
      BY DEF Output, Outputs
    <3>2. before \in Outputs
      BY <2>4, <3>1, OutputIs
    <3>3. out = OutputAfter(before, rest)
      <4>1. OutputAfter(Output, Append(pre, c) \o rest) = OutputAfter(before, rest)
        BY <2>2, <2>4, <3>1, OutputOfConcat
      <4> HIDE DEF pre, c, rest, before
      <4> QED  BY <2>2, <4>1
    <3> HIDE DEF out, before, rest
    <3> QED  BY <2>2, <3>2, <3>3, OutputTwice
  <2> HIDE DEF pre, c, rest, r, q, first, out, k, g
  <2>10. CASE c \notin Commands
    <3>1. Parse(s) = Simple("unknown", out, <<>>)
      BY <1>6, <2>10, ParseIs DEF c, k, out
    <3>2. Parse(first) = Simple("unknown", out, <<>>)
      BY <1>4, <2>8, <2>10, ParseIs
    <3> QED  BY <3>1, <3>2 DEF SameMeaning, first, g
  <2>11. CASE c \in Commands
    <3>1. Parse(s) = AfterCommand(c, out, rest)
      BY <1>6, <2>11, ParseIs DEF c, k, out, rest
    <3>2. Parse(first) = AfterCommand(c, out, r)
      BY <1>4, <2>8, <2>11, ParseIs
    <3>3. c \in ProgramCommands
      BY <2>11, CommandLineAssumption
    <3>4. c # "help"
      <4> SUFFICES ASSUME c = "help" PROVE FALSE
        OBVIOUS
      <4>1. AfterCommand(c, out, rest).type = "help"
        BY DEF AfterCommand, WithArgument, Worded, Wordless, Simple, Args
      <4> QED  BY <3>1, <4>1
    <3>5. c \in DOMAIN WithArgument => Stand(c, rest)
      BY <2>1, StandBehindOf DEF rest, Lists
    <3> QED  BY <1>4, <2>2, <2>9, <3>1, <3>2, <3>3, <3>4, <3>5, CommandWithoutGlobals
             DEF r, first, g
  <2> QED  BY <2>10, <2>11
<1> QED  BY <1>5, <1>6

\* What parse_args returns has a type.
LEMMA ParseHasType ==
    ASSUME NEW s
    PROVE  "type" \in DOMAIN Parse(s)
<1>1. \A t, over, out, flags, value, words :
         "type" \in DOMAIN Args(t, over, out, flags, value, words)
  BY DEF Args
<1>2. \A t, out, words : "type" \in DOMAIN Simple(t, out, words)
  BY <1>1 DEF Simple
<1>3. ASSUME NEW c \in ProgramCommands, NEW out, NEW rest
      PROVE  "type" \in DOMAIN AfterCommand(c, out, rest)
  <2>1. CASE c \in DOMAIN WithArgument
    <3>1. AfterCommand(c, out, rest) = ParseOptions(c, out, rest)
      BY <2>1 DEF AfterCommand, WithArgument, Worded, Wordless
    <3>2. "type" \in DOMAIN ParseOptions(c, out, rest)
      BY <1>1 DEF ParseOptions
    <3> QED  BY <3>1, <3>2
  <2>2. CASE c \in Worded
    <3>1. AfterCommand(c, out, rest) =
             IF OtherWords(rest) # <<>> THEN Simple(c, out, <<OtherWords(rest)[1]>>)
             ELSE Simple("unknown", out, <<>>)
      BY <2>2 DEF AfterCommand, WithArgument, Worded, Wordless
    <3> QED  BY <1>2, <3>1
  <2>3. CASE c \in Wordless
    <3>1. AfterCommand(c, out, rest) = Simple(c, out, <<>>)
      BY <2>3 DEF AfterCommand, WithArgument, Worded, Wordless
    <3> QED  BY <1>2, <3>1
  <2>4. CASE c = "config"
    <3>1. AfterCommand(c, out, rest) = ParseConfig(out, OtherWords(rest))
      BY <2>4 DEF AfterCommand, WithArgument, Worded, Wordless
    <3>2. \A words : "type" \in DOMAIN ParseConfig(out, words)
      BY <1>2 DEF ParseConfig
    <3> QED  BY <3>1, <3>2
  <2>5. CASE c = "help"
    <3>1. AfterCommand(c, out, rest) =
             Simple(c, out, IF rest = <<>> THEN <<"general">> ELSE <<rest[1]>>)
      BY <2>5 DEF AfterCommand, WithArgument, Worded, Wordless
    <3> QED  BY <1>2, <3>1
  <2> QED  BY <2>1, <2>2, <2>3, <2>4, <2>5 DEF ProgramCommands
<1>4. CASE CommandAt(s) # 0 /\ s[CommandAt(s)] \in Commands
  <2>1. s[CommandAt(s)] \in ProgramCommands
    BY <1>4, CommandLineAssumption
  <2> QED  BY <1>3, <1>4, <2>1, ParseIs
<1>5. CASE ~(CommandAt(s) # 0 /\ s[CommandAt(s)] \in Commands)
  BY <1>2, <1>5, ParseIs
<1> QED  BY <1>4, <1>5

-----------------------------------------------------------------------------
(* The inductive invariant.                                                *)

\* There is a temporary file from the moment it is made, and from then on the
\* arguments name it or it is gone.
TempInv ==
    /\ at \in {"parse", "files", "clipboard", "write", "execute", "cleanup", "over",
               "killed"}
    /\ at \in {"parse", "files", "clipboard"} => temp = "none" /\ ~clipboard_temp_file
    /\ at = "write" => temp = "empty" /\ ~clipboard_temp_file
    /\ at \in {"execute", "cleanup"} /\ clipboard_temp_file => temp \in {"whole", "cut"}
    /\ at \in {"execute", "cleanup"} /\ ~clipboard_temp_file => temp = "none"
    /\ at = "over" => temp = "none"
    /\ sent # "empty"

\* A file that was found in the clipboard is what will be uploaded.
FoundInv ==
    /\ env \in Environment
    /\ at \in {"parse", "files"} => env = Unread
    /\ at = "write" => ~HasFile(env, copied)
    /\ at = "execute" /\ HasFile(env, copied) => files = <<CopiedFile>>

IInv == TempInv /\ FoundInv

\* An upload that is executed has a file, wherever its files come from: the loop
\* over no files at all would end with exit code 0 (cli.c:1237, 1514).
UploadsHaveFiles == at = "execute" /\ args.type = "upload" => files # <<>>

\* While the files of an upload are collected there is a command to refuse, and
\* what is left of it in the end has some.
FilesInv ==
    /\ argv \in Argvs
    /\ at \in {"files", "clipboard", "write"} => "type" \in DOMAIN args
    /\ UploadsHaveFiles

LEMMA ClipboardInvariance == Spec => []IInv
<1>1. Init => IInv
  BY NothingUnread DEF Init, IInv, TempInv, FoundInv
<1>2. ASSUME IInv, [Next]_vars
      PROVE  TempInv'
  <2> USE DEF IInv, TempInv, world, paths, Refuse, Collecting
  <2>1. CASE ParseArgs
    <3>1. at' \in {"over", "files", "execute"}
      BY <2>1 DEF ParseArgs
    <3> QED  BY <1>2, <2>1, <3>1 DEF ParseArgs
  <2>2. CASE RefuseBoth \/ LookAtClipboard
    BY <1>2, <2>2 DEF RefuseBoth, LookAtClipboard
  <2>3. CASE TakeCopiedFile \/ CreateTemp \/ NoImage
    BY <1>2, <2>3 DEF TakeCopiedFile, CreateTemp, NoImage
  <2>4. CASE WriteTemp \/ WriteTempFails
    <3>1. CASE WriteTemp
      <4>1. clipboard_temp_file' = TRUE /\ at' = "execute" /\ temp' \in {"whole", "cut"}
        BY <3>1 DEF WriteTemp
      <4>2. sent' # "empty"
        BY <1>2, <3>1 DEF WriteTemp
      <4> QED  BY <4>1, <4>2
    <3>2. CASE WriteTempFails
      BY <1>2, <3>2 DEF WriteTempFails
    <3> QED  BY <2>4, <3>1, <3>2
  <2>5. CASE TakeDirectory \/ TakeWords \/ TakeStdin
    <3>1. /\ at = "files" /\ at' = "execute"
          /\ UNCHANGED <<clipboard_temp_file, temp, sent>>
      BY <2>5 DEF TakeDirectory, TakeWords, TakeStdin
    <3> QED  BY <1>2, <3>1
  <2>6. CASE Execute \/ Cleanup \/ Kill
    <3>1. CASE Execute
      BY <1>2, <3>1 DEF Execute
    <3>2. CASE Cleanup
      BY <1>2, <3>2 DEF Cleanup
    <3>3. CASE Kill
      BY <1>2, <3>3 DEF Kill
    <3> QED  BY <2>6, <3>1, <3>2, <3>3
  <2>7. CASE UNCHANGED vars
    BY <1>2, <2>7 DEF vars
  <2> QED  BY <1>2, <2>1, <2>2, <2>3, <2>4, <2>5, <2>6, <2>7 DEF Next
<1>3. ASSUME IInv, [Next]_vars
      PROVE  FoundInv'
  <2> USE DEF IInv, FoundInv, world, paths, Refuse, Collecting
  <2>1. CASE ParseArgs
    <3>1. at' \in {"over", "files", "execute"}
      BY <2>1 DEF ParseArgs
    <3> QED  BY <1>3, NothingUnread, <2>1, <3>1 DEF ParseArgs
  <2>2. CASE RefuseBoth \/ LookAtClipboard
    BY <1>3, NothingUnread, <2>2 DEF RefuseBoth, LookAtClipboard
  <2>3. CASE TakeCopiedFile \/ CreateTemp \/ NoImage
    BY <1>3, <2>3 DEF TakeCopiedFile, CreateTemp, NoImage
  <2>4. CASE WriteTemp \/ WriteTempFails
    BY <1>3, <2>4 DEF WriteTemp, WriteTempFails
  <2>5. CASE TakeDirectory \/ TakeWords \/ TakeStdin
    BY <1>3, NothingUnread, <2>5 DEF TakeDirectory, TakeWords, TakeStdin
  <2>6. CASE Execute \/ Cleanup \/ Kill
    BY <1>3, <2>6 DEF Execute, Cleanup, Kill
  <2>7. CASE UNCHANGED vars
    BY <1>3, <2>7 DEF vars
  <2> QED  BY <1>3, <2>1, <2>2, <2>3, <2>4, <2>5, <2>6, <2>7 DEF Next
<1> QED  BY <1>1, <1>2, <1>3, PTL DEF Spec, IInv

LEMMA RefusedIsUnknown ==
    ASSUME "type" \in DOMAIN args, Refuse
    PROVE  args'.type = "unknown"
BY DEF Refuse

LEMMA FilesInvariance == Spec => []FilesInv
<1>1. Init => FilesInv
  BY DEF Init, FilesInv, UploadsHaveFiles
<1>2. ASSUME FilesInv, [Next]_vars
      PROVE  FilesInv'
  <2> USE DEF FilesInv, UploadsHaveFiles, world, paths
  <2>1. CASE ParseArgs
    <3>1. args' = Parse(argv) /\ "type" \in DOMAIN args'
      BY <2>1, ParseHasType DEF ParseArgs
    <3>2. at' = "execute" => args'.type # "upload"
      BY <2>1 DEF ParseArgs
    <3> QED  BY <1>2, <2>1, <3>1, <3>2 DEF ParseArgs
  <2>2. CASE RefuseBoth \/ NoImage \/ WriteTempFails
    <3>1. Refuse /\ argv' = argv /\ "type" \in DOMAIN args
      BY <1>2, <2>2 DEF RefuseBoth, NoImage, WriteTempFails, Collecting
    <3>2. at' = "execute" /\ args'.type = "unknown"
      BY <3>1, RefusedIsUnknown DEF Refuse
    <3> QED  BY <1>2, <3>1, <3>2
  <2>3. CASE LookAtClipboard \/ CreateTemp
    BY <1>2, <2>3 DEF LookAtClipboard, CreateTemp, Collecting
  <2>4. CASE TakeCopiedFile \/ WriteTemp
    BY <1>2, <2>4 DEF TakeCopiedFile, WriteTemp
  <2>5. CASE TakeDirectory \/ TakeStdin
    <3>1. argv' = argv /\ at = "files" /\ at' = "execute"
      BY <2>5 DEF TakeDirectory, TakeStdin, Refuse, Collecting
    <3>2. files' # <<>> \/ Refuse
      <4>1. \A file : <<file>> # <<>>
        OBVIOUS
      <4>2. files' = <<"file in it">> \/ files' = <<"line">> \/ Refuse
        BY <2>5, Zenon DEF TakeDirectory, TakeStdin
      <4> QED  BY <4>1, <4>2, Zenon
    <3>3. files' # <<>> \/ args'.type = "unknown"
      BY <1>2, <3>1, <3>2, RefusedIsUnknown
    <3> QED  BY <1>2, <3>1, <3>3
  <2>6. CASE TakeWords
    BY <1>2, <2>6 DEF TakeWords, Collecting
  <2>7. CASE Execute \/ Cleanup \/ Kill
    BY <1>2, <2>7 DEF Execute, Cleanup, Kill
  <2>8. CASE UNCHANGED vars
    BY <1>2, <2>8 DEF vars
  <2> QED  BY <1>2, <2>1, <2>2, <2>3, <2>4, <2>5, <2>6, <2>7, <2>8 DEF Next
<1> QED  BY <1>1, <1>2, PTL DEF Spec

-----------------------------------------------------------------------------
(* The theorems.                                                           *)

\* Of any argument list whose global options are options, every command but help
\* means the same if they are taken out and put first: those before the command
\* are seen by parse_args, those behind it by the loops and calls of getopt_long
\* of the commands, and seeing one twice does nothing (cli.c:471-511, 541-1167).
THEOREM GlobalOptionsMeanTheSame == Spec => []GlobalOptionsCanBeAnywhere
<1>1. FilesInv => GlobalOptionsCanBeAnywhere
  <2> SUFFICES ASSUME argv \in Argvs, GlobalsAreOptions, Parse(argv).type # "help"
               PROVE  SameMeaning(Parse(GlobalsFirst), Parse(argv))
    BY DEF FilesInv, GlobalOptionsCanBeAnywhere
  <2>1. argv \in Lists
    BY CommandLineAssumption DEF Lists
  <2>2. ASSUME NEW c \in DOMAIN WithArgument
        PROVE  Stand(c, argv)
    BY OptionsAreApart DEF GlobalsAreOptions, Stand
  <2> QED  BY <2>1, <2>2, GlobalsComeFirst DEF GlobalsFirst, Others
<1> QED  BY <1>1, FilesInvariance, PTL

\* An upload that is executed has a file, whether its files are named, found in
\* a directory or in the clipboard, or read from the standard input, and however
\* looking for them fails (cli.c:1237, 1514).
THEOREM NoUploadOfNothing == Spec => []UploadsHaveFiles
<1>1. FilesInv => UploadsHaveFiles
  BY DEF FilesInv
<1> QED  BY <1>1, FilesInvariance, PTL

\* The image of a clipboard upload is in its file when the upload reads it, and
\* the file is gone in the end, whatever the arguments and whichever write fails
\* (utils.c:883-904, cli.c:2123-2132), if nobody interrupts the program.
THEOREM TempFileIsThereAndGone == Spec => []TempFileLives
<1>1. IInv => TempFileLives
  BY DEF IInv, TempInv, TempFileLives
<1> QED  BY <1>1, ClipboardInvariance, PTL

\* Of any programs installed and any displays, the one chosen reaches the
\* clipboard if one of them does, and a file that was copied is then what is
\* uploaded (utils.c:461-513, 745-793).
THEOREM CopiedFileIsSent == Spec => []CopiedFileIsUploaded
<1>1. IInv => CopiedFileIsUploaded
  <2> SUFFICES ASSUME IInv,
                      at = "execute",
                      NEW tool \in env.installed, Reaches(tool, env),
                      env.session = "wayland" => env.waylandDisplay,
                      copied.text \in {"uri", "uris", "path"}
               PROVE  files = <<CopiedFile>>
    BY DEF CopiedFileIsUploaded
  <2>1. Reaches(Reader(env), env)
    BY ReaderReaches DEF IInv, FoundInv
  <2>2. HasFile(env, copied)
    BY <2>1 DEF HasFile, HasText
  <2> QED  BY <2>2 DEF IInv, FoundInv
<1> QED  BY <1>1, ClipboardInvariance, PTL
=============================================================================
