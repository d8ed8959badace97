-------------------------- MODULE HostConfigProofs --------------------------
(***************************************************************************)
(* What the operators of HostConfig return and preserve, for every         *)
(* configuration.                                                          *)
(***************************************************************************)
EXTENDS HostConfig, FiniteSetTheorems, FunctionTheorems, SequenceTheorems, TLAPS

\* How many of the indices K come no later than i.
Rank(K, i) == Cardinality({j \in K : j <= i})

\* Kept returns the chosen entries, each once, in positions 1 to their number.
LEMMA KeptProperties ==
    ASSUME NEW S, NEW s \in Seq(S), NEW K \in SUBSET DOMAIN s
    PROVE  /\ Cardinality(K) \in Nat
           /\ Kept(s, K) \in Seq(S)
           /\ Len(Kept(s, K)) = Cardinality(K)
           /\ \A k \in 1 .. Cardinality(K) :
                 \E i \in K : Rank(K, i) = k /\ Kept(s, K)[k] = s[i]
           /\ \A i \in K :
                 \E k \in 1 .. Cardinality(K) : Kept(s, K)[k] = s[i]
           /\ Cardinality(K) <= Len(s)
<1> DEFINE n == Cardinality(K)
           below(i) == {j \in K : j <= i}
           rank == [i \in K |-> Rank(K, i)]
<1>1. IsFiniteSet(K) /\ n \in Nat /\ n <= Len(s)
  <2>1. K \in SUBSET (1 .. Len(s)) /\ Len(s) \in Nat
    BY LenProperties
  <2>2. IsFiniteSet(1 .. Len(s)) /\ Cardinality(1 .. Len(s)) = Len(s)
    <3>1. 1 \in Int /\ Len(s) \in Int
      BY <2>1
    <3>2. /\ IsFiniteSet(1 .. Len(s))
          /\ Cardinality(1 .. Len(s)) =
                IF 1 > Len(s) THEN 0 ELSE Len(s) - 1 + 1
      BY <3>1, FS_Interval
    <3> QED  BY <2>1, <3>2
  <2> QED  BY <2>1, <2>2, FS_Subset, FS_CardinalityType
<1>2. K \in SUBSET Nat
  BY LenProperties
<1>3. \A i \in K : /\ IsFiniteSet(below(i)) /\ i \in below(i)
                   /\ Rank(K, i) \in 1 .. n /\ Rank(K, i) \in Nat
  <2> SUFFICES ASSUME NEW i \in K
               PROVE  /\ IsFiniteSet(below(i)) /\ i \in below(i)
                      /\ Rank(K, i) \in 1 .. n /\ Rank(K, i) \in Nat
    OBVIOUS
  <2>1. below(i) \in SUBSET K /\ i \in below(i)
    BY <1>2
  <2>2. /\ IsFiniteSet(below(i)) /\ Cardinality(below(i)) <= n
        /\ Cardinality(below(i)) \in Nat
    BY <1>1, <2>1, FS_Subset, FS_CardinalityType
  <2>3. Cardinality(below(i)) # 0
    BY <2>1, <2>2, FS_EmptySet
  <2> QED  BY <1>1, <2>1, <2>2, <2>3 DEF Rank
<1>4. \A i, j \in K : i < j => Rank(K, i) < Rank(K, j)
  <2> SUFFICES ASSUME NEW i \in K, NEW j \in K, i < j
               PROVE  Rank(K, i) < Rank(K, j)
    OBVIOUS
  <2>1. below(i) \in SUBSET below(j)
    BY <1>2
  <2>2. j \in below(j) /\ j \notin below(i)
    BY <1>2
  <2>3. /\ Cardinality(below(i)) <= Cardinality(below(j))
        /\ Cardinality(below(i)) # Cardinality(below(j))
    BY <1>3, <2>1, <2>2, FS_Subset
  <2>4. /\ Rank(K, i) = Cardinality(below(i))
        /\ Rank(K, j) = Cardinality(below(j))
    BY DEF Rank
  <2>5. Rank(K, i) \in Nat /\ Rank(K, j) \in Nat
    BY <1>3
  <2> QED  BY <2>3, <2>4, <2>5
<1>5. \A i, j \in K : Rank(K, i) = Rank(K, j) => i = j
  <2> SUFFICES ASSUME NEW i \in K, NEW j \in K, Rank(K, i) = Rank(K, j), i # j
               PROVE  FALSE
    OBVIOUS
  <2>1. i < j \/ j < i
    BY <1>2
  <2>2. Rank(K, i) < Rank(K, j) \/ Rank(K, j) < Rank(K, i)
    BY <1>4, <2>1
  <2>3. Rank(K, i) \in Nat
    BY <1>3
  <2> QED  BY <2>2, <2>3
<1>6. rank \in Injection(K, 1 .. n)
  BY <1>3, <1>5 DEF Injection, IsInjective
<1>7. rank \in Surjection(K, 1 .. n)
  <2>1. IsFiniteSet(1 .. n) /\ Cardinality(1 .. n) = n
    BY <1>1, FS_Interval
  <2> QED  BY <1>6, <2>1, FS_Injection
<1>8. \A k \in 1 .. n : \E i \in K : Rank(K, i) = k
  BY <1>7 DEF Surjection
<1>9. \A k \in 1 .. n :
          Kept(s, K)[k] = s[CHOOSE i \in K : Rank(K, i) = k]
  BY DEF Kept, Rank
<1>10. \A k \in 1 .. n :
          \E i \in K : Rank(K, i) = k /\ Kept(s, K)[k] = s[i]
  <2> SUFFICES ASSUME NEW k \in 1 .. n
               PROVE  \E i \in K : Rank(K, i) = k /\ Kept(s, K)[k] = s[i]
    OBVIOUS
  <2> DEFINE i == CHOOSE x \in K : Rank(K, x) = k
  <2>1. i \in K /\ Rank(K, i) = k
    BY <1>8
  <2> QED  BY <1>9, <2>1
<1>11. \A i \in K : \E k \in 1 .. n : Kept(s, K)[k] = s[i]
  BY <1>3, <1>5, <1>10
<1>12. \A i \in K : s[i] \in S
  BY ElementOfSeq, LenProperties
<1>13. Kept(s, K) \in [1 .. n -> S]
  BY <1>10, <1>12 DEF Kept
<1>14. Kept(s, K) \in Seq(S) /\ Len(Kept(s, K)) = n
  BY <1>1, <1>13, IsASeq, LenProperties
<1> QED  BY <1>1, <1>10, <1>11, <1>14

-----------------------------------------------------------------------------
(* Configurations and their slots.                                         *)

\* No empty slot, and a default host that exists as soon as there is a host.
WellFormed(c) == Listable(c) /\ DefaultExists(c) /\ DefaultChosen(c)

LEMMA ConfigFields ==
    ASSUME NEW c \in Config
    PROVE  /\ c.hosts \in Seq(Slot)
           /\ Len(c.hosts) \in Nat
           /\ DOMAIN c.hosts = 1 .. Len(c.hosts)
           /\ \A i \in 1 .. Len(c.hosts) : c.hosts[i] \in Slot
           /\ Filled(c) \in SUBSET (1 .. Len(c.hosts))
           /\ \A i \in Filled(c) : c.hosts[i] \in Host /\ c.hosts[i].name \in Names
           /\ c.default_host \in Names \union {NoName}
           /\ c.log_level \in Levels
           /\ c.copy_to_clipboard \in BOOLEAN
           /\ NamesOf(c) \subseteq Names
<1>1. c.hosts \in Seq(Slot)
  BY DEF Config
<1>2. /\ Len(c.hosts) \in Nat
      /\ DOMAIN c.hosts = 1 .. Len(c.hosts)
      /\ c.hosts \in [1 .. Len(c.hosts) -> Slot]
  BY <1>1, LenProperties
<1> QED  BY <1>1, <1>2 DEF Config, Filled, Host, NamesOf

LEMMA FreshConfigProperties ==
    /\ FreshConfig \in Config
    /\ WellFormed(FreshConfig)
    /\ NamesUnique(FreshConfig)
<1>1. <<>> \in Seq(Slot) /\ DOMAIN <<>> = {}
  OBVIOUS
<1> QED  BY <1>1, SentinelsAreDistinct DEF FreshConfig, Config, WellFormed,
           Listable, DefaultExists, DefaultChosen, NamesUnique, NamesOf, Filled

\* The loops that search by name find the host, if names are unique.
LEMMA IndexOfProperties ==
    ASSUME NEW c \in Config, NEW n \in NamesOf(c), NamesUnique(c)
    PROVE  IndexOf(c, n) \in Filled(c) /\ c.hosts[IndexOf(c, n)].name = n
<1>1. PICK i \in Filled(c) : c.hosts[i].name = n
  BY DEF NamesOf
<1>2. \A j \in Filled(c) : c.hosts[j].name = n => i <= j
  BY <1>1, ConfigFields DEF NamesUnique
<1> QED  BY <1>1, <1>2 DEF IndexOf

-----------------------------------------------------------------------------
(* The changes.                                                            *)

LEMMA AddHostProperties ==
    ASSUME NEW c \in Config, NEW h \in Host, h.name \notin NamesOf(c)
    PROVE  LET d == AddHost(c, h)
           IN  /\ d \in Config
               /\ Len(d.hosts) = Len(c.hosts) + 1
               /\ NamesOf(d) = NamesOf(c) \union {h.name}
               /\ Intact(c) => Intact(d)
               /\ WellFormed(c) => WellFormed(d)
               /\ NamesUnique(c) => NamesUnique(d)
<1> DEFINE d == AddHost(c, h)
           m == Len(c.hosts)
<1>1. /\ c.hosts \in Seq(Slot) /\ m \in Nat /\ h \in Slot /\ h.name \in Names
      /\ h # FreedHost
  BY ConfigFields, SentinelsAreDistinct DEF Slot, Host
<1>2. /\ d.hosts = Append(c.hosts, h)
      /\ d.default_host = IF c.hosts = <<>> /\ c.default_host = NoName
                          THEN h.name ELSE c.default_host
      /\ d.log_level = c.log_level
      /\ d.copy_to_clipboard = c.copy_to_clipboard
      /\ d \in Config
  <2>1. d = [c EXCEPT !.hosts = Append(c.hosts, h),
                      !.default_host =
                          IF c.hosts = <<>> /\ c.default_host = NoName
                          THEN h.name ELSE c.default_host]
    BY DEF AddHost
  <2>2. Append(c.hosts, h) \in Seq(Slot)
    BY <1>1, AppendProperties
  <2> HIDE DEF d
  <2> QED  BY <1>1, <2>1, <2>2 DEF Config
<1>3. /\ Len(d.hosts) = m + 1
      /\ \A i \in 1 .. m : d.hosts[i] = c.hosts[i]
      /\ d.hosts[m + 1] = h
  BY <1>1, <1>2, AppendProperties
<1>4. DOMAIN d.hosts = 1 .. m + 1 /\ DOMAIN c.hosts = 1 .. m
  BY <1>2, <1>3, ConfigFields
<1>5. Filled(d) = Filled(c) \union {m + 1}
  BY <1>1, <1>3, <1>4 DEF Filled
<1>6. NamesOf(d) = NamesOf(c) \union {h.name}
  BY <1>1, <1>3, <1>4, <1>5 DEF NamesOf, Filled
<1>7. Intact(c) => Intact(d)
  BY <1>1, <1>3, <1>4 DEF Intact
<1>8. WellFormed(c) => WellFormed(d)
  <2> SUFFICES ASSUME WellFormed(c) PROVE WellFormed(d)
    OBVIOUS
  <2>1. Listable(d)
    BY <1>1, <1>3, <1>4 DEF WellFormed, Listable
  <2>2. DefaultExists(d)
    BY <1>2, <1>6 DEF WellFormed, DefaultExists
  <2>3. c.hosts # <<>> => NamesOf(c) # {}
    <3> SUFFICES ASSUME c.hosts # <<>> PROVE NamesOf(c) # {}
      OBVIOUS
    <3>1. m # 0
      BY <1>1, EmptySeq
    <3>2. 1 \in Filled(c)
      BY <1>1, <1>4, <3>1 DEF WellFormed, Listable, Filled
    <3> QED  BY <3>2 DEF NamesOf
  <2>4. DefaultChosen(d)
    BY <1>1, <1>2, <2>3, SentinelsAreDistinct DEF WellFormed, DefaultChosen
  <2> QED  BY <2>1, <2>2, <2>4 DEF WellFormed
<1>9. NamesUnique(c) => NamesUnique(d)
  BY <1>1, <1>3, <1>4, <1>5 DEF NamesUnique, NamesOf, Filled
<1> QED  BY <1>2, <1>3, <1>6, <1>7, <1>8, <1>9

LEMMA RemoveHostProperties ==
    ASSUME NEW c \in Config, NEW n \in NamesOf(c), NamesUnique(c)
    PROVE  LET d == RemoveHost(c, n)
           IN  /\ d \in Config
               /\ NamesUnique(d)
               /\ NamesOf(d) = NamesOf(c) \ {n}
               /\ Intact(c) => Intact(d)
               /\ WellFormed(c) => WellFormed(d)
<1> DEFINE d == RemoveHost(c, n)
           m == Len(c.hosts)
           x == IndexOf(c, n)
           rest == [j \in 1 .. m - 1 |->
                       IF j < x THEN c.hosts[j] ELSE c.hosts[j + 1]]
<1>1. /\ m \in Nat /\ DOMAIN c.hosts = 1 .. m
      /\ \A i \in 1 .. m : c.hosts[i] \in Slot
      /\ x \in Filled(c) /\ x \in 1 .. m /\ c.hosts[x].name = n
      /\ n \in Names
  BY ConfigFields, IndexOfProperties
<1>2. rest \in [1 .. m - 1 -> Slot] /\ m - 1 \in Nat
  BY <1>1
<1>3. rest \in Seq(Slot) /\ Len(rest) = m - 1 /\ DOMAIN rest = 1 .. m - 1
  BY <1>2, LenProperties
<1>4. /\ d.hosts = rest
      /\ d.default_host =
            IF c.default_host # n THEN c.default_host
            ELSE IF m > 1 /\ rest[1] \in Host THEN rest[1].name ELSE NoName
      /\ d = [c EXCEPT !.hosts = rest, !.default_host = d.default_host]
  BY DEF RemoveHost, Config
<1>5. d.default_host \in Names \union {NoName}
  BY <1>4, ConfigFields DEF Host
<1>6. d \in Config
  BY <1>3, <1>4, <1>5 DEF Config
<1>7. \A j \in 1 .. m - 1 :
          /\ j < x => rest[j] = c.hosts[j]
          /\ j >= x => rest[j] = c.hosts[j + 1] /\ j + 1 \in 1 .. m
  BY <1>1
<1>8. Filled(d) = {j \in 1 .. m - 1 : rest[j] \in Host}
  BY <1>3, <1>4 DEF Filled
<1>9. \A i \in Filled(c) : i # x => c.hosts[i].name # n
  BY <1>1 DEF NamesUnique
<1>10. \A i \in Filled(c) : i # x =>
          \E j \in Filled(d) : rest[j] = c.hosts[i]
  <2> SUFFICES ASSUME NEW i \in Filled(c), i # x
               PROVE  \E j \in Filled(d) : rest[j] = c.hosts[i]
    OBVIOUS
  <2>1. i \in 1 .. m /\ c.hosts[i] \in Host
    BY ConfigFields
  <2>2. CASE i < x
    <3>1. i \in 1 .. m - 1 /\ rest[i] = c.hosts[i]
      BY <1>1, <1>7, <2>1, <2>2
    <3> QED  BY <1>8, <2>1, <3>1
  <2>3. CASE i > x
    <3>1. /\ i - 1 \in 1 .. m - 1 /\ i - 1 >= x
          /\ (i - 1) + 1 = i
      BY <1>1, <2>1, <2>3
    <3>2. rest[i - 1] = c.hosts[i]
      BY <1>7, <3>1
    <3> QED  BY <1>8, <2>1, <3>1, <3>2
  <2> QED  BY <1>1, <2>1, <2>2, <2>3
<1>11. \A j \in Filled(d) :
          \E i \in Filled(c) : i # x /\ rest[j] = c.hosts[i]
                              /\ i = IF j < x THEN j ELSE j + 1
  <2> SUFFICES ASSUME NEW j \in Filled(d)
               PROVE  \E i \in Filled(c) : /\ i # x
                                          /\ rest[j] = c.hosts[i]
                                          /\ i = IF j < x THEN j ELSE j + 1
    OBVIOUS
  <2>1. j \in 1 .. m - 1 /\ rest[j] \in Host /\ j \in Nat /\ j \in 1 .. m
    BY <1>1, <1>8
  <2> HIDE DEF d, rest
  <2>2. CASE j < x
    BY <1>1, <1>7, <2>1, <2>2 DEF Filled
  <2>3. CASE ~(j < x)
    <3>1. j + 1 \in 1 .. m /\ rest[j] = c.hosts[j + 1] /\ j + 1 # x
      BY <1>1, <1>7, <2>1, <2>3
    <3>2. j + 1 \in Filled(c)
      BY <1>1, <2>1, <3>1 DEF Filled
    <3> QED  BY <2>3, <3>1, <3>2
  <2> QED  BY <2>2, <2>3
<1>12. NamesOf(d) = NamesOf(c) \ {n}
  <2> HIDE DEF d, rest, x, m
  <2>1. \A i \in Filled(c) : i # x => c.hosts[i].name \in NamesOf(d)
    BY <1>4, <1>10 DEF NamesOf
  <2>2. \A j \in Filled(d) : d.hosts[j].name \in NamesOf(c) \ {n}
    BY <1>4, <1>9, <1>11 DEF NamesOf
  <2> QED  BY <1>1, <2>1, <2>2 DEF NamesOf
<1>13. NamesUnique(d)
  <2> SUFFICES ASSUME NEW j \in Filled(d), NEW k \in Filled(d),
                      rest[j].name = rest[k].name
               PROVE  j = k
    BY <1>4 DEF NamesUnique
  <2>1. j \in Nat /\ k \in Nat
    BY <1>8
  <2>2. (IF j < x THEN j ELSE j + 1) = (IF k < x THEN k ELSE k + 1)
    BY <1>11 DEF NamesUnique
  <2> QED  BY <1>1, <2>1, <2>2
<1>14. Intact(c) => Intact(d)
  BY <1>1, <1>3, <1>4, <1>7 DEF Intact
<1>15. WellFormed(c) => WellFormed(d)
  <2> SUFFICES ASSUME WellFormed(c) PROVE WellFormed(d)
    OBVIOUS
  <2>1. \A j \in 1 .. m - 1 : rest[j] \in Host
    BY <1>1, <1>7 DEF WellFormed, Listable
  <2>2. Listable(d)
    BY <1>3, <1>4, <2>1 DEF Listable
  <2> HIDE DEF d, rest, x, m
  <2>3. m > 1 => 1 \in Filled(d) /\ rest[1].name \in NamesOf(d)
    <3> SUFFICES ASSUME m > 1
                 PROVE  1 \in Filled(d) /\ rest[1].name \in NamesOf(d)
      OBVIOUS
    <3>1. 1 \in Filled(d)
      BY <1>1, <1>8, <2>1
    <3> QED  BY <1>4, <3>1 DEF NamesOf
  <2>4. NamesOf(d) # {} => m > 1
    BY <1>1, <1>8 DEF NamesOf
  <2>5. \A j \in Filled(d) : rest[j].name \in Names
    BY <1>8, <2>1 DEF Host
  <2>6. DefaultExists(d)
    BY <1>1, <1>4, <1>12, <2>3 DEF WellFormed, DefaultExists
  <2>7. m > 1 => rest[1].name # NoName /\ rest[1] \in Host
    BY <1>8, <2>3, <2>5, SentinelsAreDistinct
  <2>8. DefaultChosen(d)
    BY <1>4, <1>12, <2>4, <2>7 DEF WellFormed, DefaultChosen
  <2> QED  BY <2>2, <2>6, <2>8 DEF WellFormed
<1> QED  BY <1>6, <1>12, <1>13, <1>14, <1>15

\* A change that leaves the slots alone, or the names in them.
LEMMA SameNamesProperties ==
    ASSUME NEW c \in Config, NEW d \in Config,
           Len(d.hosts) = Len(c.hosts),
           \A i \in 1 .. Len(c.hosts) :
               \/ d.hosts[i] = c.hosts[i]
               \/ /\ c.hosts[i] \in Host /\ d.hosts[i] \in Host
                  /\ d.hosts[i].name = c.hosts[i].name
    PROVE  /\ Filled(d) = Filled(c)
           /\ NamesOf(d) = NamesOf(c)
           /\ NamesUnique(c) => NamesUnique(d)
           /\ Intact(c) => Intact(d)
           /\ Listable(c) => Listable(d)
<1>1. DOMAIN c.hosts = 1 .. Len(c.hosts) /\ DOMAIN d.hosts = 1 .. Len(c.hosts)
  BY ConfigFields
<1>2. Filled(d) = Filled(c)
  BY <1>1 DEF Filled
<1>3. \A i \in Filled(c) : d.hosts[i].name = c.hosts[i].name
  BY <1>1 DEF Filled
<1>4. NamesOf(d) = NamesOf(c)
  BY <1>2, <1>3 DEF NamesOf
<1>5. NamesUnique(c) => NamesUnique(d)
  BY <1>2, <1>3 DEF NamesUnique
<1>6. FreedHost \notin Host
  BY SentinelsAreDistinct
<1> QED  BY <1>1, <1>2, <1>4, <1>5, <1>6 DEF Intact, Listable

LEMMA SetDefaultHostProperties ==
    ASSUME NEW c \in Config, NEW n \in NamesOf(c)
    PROVE  LET d == SetDefaultHost(c, n)
           IN  /\ d \in Config
               /\ NamesUnique(c) => NamesUnique(d)
               /\ NamesOf(d) = NamesOf(c)
               /\ Intact(c) => Intact(d)
               /\ WellFormed(c) => WellFormed(d)
<1> DEFINE d == SetDefaultHost(c, n)
<1>1. n \in Names /\ n # NoName
  BY ConfigFields, SentinelsAreDistinct
<1>2. d.hosts = c.hosts /\ d.default_host = n /\ d \in Config
  BY <1>1 DEF SetDefaultHost, Config
<1> HIDE DEF d
<1>3. /\ NamesOf(d) = NamesOf(c)
      /\ NamesUnique(c) => NamesUnique(d)
      /\ Intact(c) => Intact(d)
      /\ Listable(c) => Listable(d)
  BY <1>2, SameNamesProperties
<1>4. WellFormed(c) => WellFormed(d)
  BY <1>1, <1>2, <1>3 DEF WellFormed, DefaultExists, DefaultChosen
<1> QED  BY <1>2, <1>3, <1>4 DEF d

LEMMA SetEndpointProperties ==
    ASSUME NEW c \in Config, NEW n \in NamesOf(c), NEW v \in Values, NamesUnique(c)
    PROVE  LET d == SetEndpoint(c, n, v)
           IN  /\ d \in Config
               /\ NamesUnique(d)
               /\ NamesOf(d) = NamesOf(c)
               /\ Intact(c) => Intact(d)
               /\ WellFormed(c) => WellFormed(d)
<1> DEFINE d == SetEndpoint(c, n, v)
           x == IndexOf(c, n)
           h == [name |-> n, endpoint |-> v]
<1>1. /\ x \in 1 .. Len(c.hosts) /\ c.hosts[x] \in Host /\ c.hosts[x].name = n
      /\ n \in Names /\ c.hosts \in Seq(Slot)
  BY ConfigFields, IndexOfProperties
<1>2. h \in Host /\ h \in Slot /\ h.name = n
  BY <1>1 DEF Host, Slot
<1>3. d = [c EXCEPT !.hosts = [c.hosts EXCEPT ![x] = h]]
  BY DEF SetEndpoint
<1>4. /\ [c.hosts EXCEPT ![x] = h] \in Seq(Slot)
      /\ Len([c.hosts EXCEPT ![x] = h]) = Len(c.hosts)
      /\ \A i \in 1 .. Len(c.hosts) :
            [c.hosts EXCEPT ![x] = h][i] = IF i = x THEN h ELSE c.hosts[i]
  BY <1>1, <1>2, ExceptSeq
<1> HIDE DEF d, h, x
<1>5. /\ d \in Config /\ d.default_host = c.default_host
      /\ d.hosts = [c.hosts EXCEPT ![x] = h]
  BY <1>3, <1>4 DEF Config
<1>6. /\ Len(d.hosts) = Len(c.hosts)
      /\ \A i \in 1 .. Len(c.hosts) : d.hosts[i] = IF i = x THEN h ELSE c.hosts[i]
  BY <1>4, <1>5
<1>7. /\ NamesOf(d) = NamesOf(c)
      /\ NamesUnique(c) => NamesUnique(d)
      /\ Intact(c) => Intact(d)
      /\ Listable(c) => Listable(d)
  BY <1>1, <1>2, <1>5, <1>6, SameNamesProperties
<1>8. WellFormed(c) => WellFormed(d)
  BY <1>5, <1>7 DEF WellFormed, DefaultExists, DefaultChosen
<1> QED  BY <1>5, <1>7, <1>8 DEF d

LEMMA SetScalarProperties ==
    ASSUME NEW c \in Config, NEW v \in Levels, NEW b \in BOOLEAN,
           NEW d \in {SetLevel(c, v), SetClipboard(c, b)}
    PROVE  /\ d \in Config
           /\ NamesUnique(c) => NamesUnique(d)
           /\ NamesOf(d) = NamesOf(c)
           /\ Intact(c) => Intact(d)
           /\ WellFormed(c) => WellFormed(d)
<1>1. /\ d.hosts = c.hosts /\ d.default_host = c.default_host /\ d \in Config
  BY DEF SetLevel, SetClipboard, Config
<1>2. /\ NamesOf(d) = NamesOf(c)
      /\ NamesUnique(c) => NamesUnique(d)
      /\ Intact(c) => Intact(d)
      /\ Listable(c) => Listable(d)
  BY <1>1, SameNamesProperties
<1> QED  BY <1>1, <1>2 DEF WellFormed, DefaultExists, DefaultChosen

LEMMA FreeLastHostProperties ==
    ASSUME NEW c \in Config, Len(c.hosts) > 0, NamesUnique(c)
    PROVE  LET d == FreeLastHost(c)
           IN  d \in Config /\ NamesUnique(d) /\ ~Intact(d)
<1> DEFINE d == FreeLastHost(c)
           m == Len(c.hosts)
<1>1. /\ c.hosts \in Seq(Slot) /\ m \in 1 .. m /\ FreedHost \in Slot
      /\ DOMAIN c.hosts = 1 .. m
  BY ConfigFields DEF Slot
<1>2. /\ [c.hosts EXCEPT ![m] = FreedHost] \in Seq(Slot)
      /\ Len([c.hosts EXCEPT ![m] = FreedHost]) = m
      /\ \A i \in 1 .. m :
            [c.hosts EXCEPT ![m] = FreedHost][i] = IF i = m THEN FreedHost
                                                   ELSE c.hosts[i]
  BY <1>1, ExceptSeq
<1>3. d = [c EXCEPT !.hosts = [c.hosts EXCEPT ![m] = FreedHost]]
  BY DEF FreeLastHost
<1> HIDE DEF d, m
<1>4. d \in Config /\ d.hosts = [c.hosts EXCEPT ![m] = FreedHost]
  BY <1>2, <1>3 DEF Config
<1>5. DOMAIN d.hosts = 1 .. m
  BY <1>1, <1>4
<1>6. \A i \in Filled(d) : i \in Filled(c) /\ d.hosts[i] = c.hosts[i]
  BY <1>1, <1>2, <1>4, <1>5, SentinelsAreDistinct DEF Filled
<1>7. NamesUnique(d)
  BY <1>6 DEF NamesUnique
<1>8. ~Intact(d)
  BY <1>1, <1>2, <1>4, <1>5 DEF Intact
<1> QED  BY <1>4, <1>7, <1>8 DEF d

-----------------------------------------------------------------------------
(* The file.                                                               *)

LEMMA ConfigToJsonProperties ==
    ASSUME NEW c \in Config
    PROVE  LET d == ConfigToJson(c)
           IN  /\ d \in Config
               /\ Listable(d)
               /\ NamesOf(d) = NamesOf(c)
               /\ NamesUnique(c) => NamesUnique(d)
               /\ WellFormed(c) => WellFormed(d)
<1> DEFINE d == ConfigToJson(c)
           K == Filled(c)
           t == Kept(c.hosts, K)
<1>1. c.hosts \in Seq(Slot) /\ K \in SUBSET DOMAIN c.hosts
  BY DEF Filled, Config
<1>2. /\ Cardinality(K) \in Nat
      /\ t \in Seq(Slot)
      /\ Len(t) = Cardinality(K)
      /\ \A k \in 1 .. Cardinality(K) :
            \E i \in K : Rank(K, i) = k /\ t[k] = c.hosts[i]
      /\ \A i \in K :
            \E k \in 1 .. Cardinality(K) : t[k] = c.hosts[i]
  BY <1>1, KeptProperties
<1>3. d = [c EXCEPT !.hosts = t]
  BY DEF ConfigToJson
<1> HIDE DEF d, K, t
<1>4. d \in Config /\ d.hosts = t /\ d.default_host = c.default_host
  BY <1>2, <1>3 DEF Config
<1>5. DOMAIN t = 1 .. Cardinality(K)
  BY <1>2, LenProperties
<1>6. \A i \in K : c.hosts[i] \in Host
  BY DEF K, Filled
<1>7. \A k \in 1 .. Cardinality(K) : t[k] \in Host
  BY <1>2, <1>6
<1>8. Listable(d) /\ Filled(d) = 1 .. Cardinality(K)
  BY <1>4, <1>5, <1>7 DEF Listable, Filled
<1>9. NamesOf(d) = NamesOf(c)
  <2>1. \A k \in Filled(d) : d.hosts[k].name \in NamesOf(c)
    <3> SUFFICES ASSUME NEW k \in 1 .. Cardinality(K)
                 PROVE  t[k].name \in NamesOf(c)
      BY <1>4, <1>8
    <3>1. PICK i \in K : t[k] = c.hosts[i]
      BY <1>2
    <3> QED  BY <3>1 DEF NamesOf, K
  <2>2. \A i \in K : c.hosts[i].name \in NamesOf(d)
    BY <1>2, <1>4, <1>8 DEF NamesOf
  <2> QED  BY <2>1, <2>2 DEF NamesOf, K
<1>10. NamesUnique(c) => NamesUnique(d)
  <2> SUFFICES ASSUME NamesUnique(c),
                      NEW j \in 1 .. Cardinality(K), NEW k \in 1 .. Cardinality(K),
                      t[j].name = t[k].name
               PROVE  j = k
    BY <1>4, <1>8 DEF NamesUnique
  <2>1. PICK i1 \in K : Rank(K, i1) = j /\ t[j] = c.hosts[i1]
    BY <1>2
  <2>2. PICK i2 \in K : Rank(K, i2) = k /\ t[k] = c.hosts[i2]
    BY <1>2
  <2>3. i1 = i2
    BY <2>1, <2>2 DEF NamesUnique, K
  <2> QED  BY <2>1, <2>2, <2>3
<1>11. WellFormed(c) => WellFormed(d)
  BY <1>4, <1>8, <1>9 DEF WellFormed, DefaultExists, DefaultChosen
<1> QED  BY <1>4, <1>8, <1>9, <1>10, <1>11 DEF d

LEMMA ParseConfigProperties ==
    ASSUME NEW c \in Config
    PROVE  LET d == ParseConfig(c)
           IN  /\ d \in Config
               /\ Intact(d)
               /\ NamesOf(d) = NamesOf(c) \ {EmptyName}
               /\ NamesUnique(c) => NamesUnique(d)
               /\ EmptyName \notin Names /\ WellFormed(c) => WellFormed(d)
<1> DEFINE d == ParseConfig(c)
           K == {i \in Filled(c) : c.hosts[i].name # EmptyName}
           m == Len(c.hosts)
           t == Kept(c.hosts, K)
           u == [k \in 1 .. m |-> IF k <= Cardinality(K) THEN t[k] ELSE NullHost]
<1>1. /\ c.hosts \in Seq(Slot) /\ m \in Nat
      /\ K \in SUBSET DOMAIN c.hosts /\ DOMAIN c.hosts = 1 .. m
  BY ConfigFields DEF Filled
<1>2. /\ Cardinality(K) \in Nat
      /\ t \in Seq(Slot)
      /\ Len(t) = Cardinality(K)
      /\ \A k \in 1 .. Cardinality(K) :
            \E i \in K : Rank(K, i) = k /\ t[k] = c.hosts[i]
      /\ \A i \in K :
            \E k \in 1 .. Cardinality(K) : t[k] = c.hosts[i]
      /\ Cardinality(K) <= m
  BY <1>1, KeptProperties
<1>3. d = [c EXCEPT !.hosts = u]
  BY <1>1 DEF ParseConfig
<1>4. \A i \in K : c.hosts[i] \in Host /\ c.hosts[i].name # EmptyName
  BY DEF Filled
<1>5. \A k \in 1 .. Cardinality(K) : k \in 1 .. m /\ u[k] = t[k] /\ t[k] \in Host
  BY <1>1, <1>2, <1>4
<1>6. \A k \in 1 .. m : k \notin 1 .. Cardinality(K) => u[k] = NullHost
  BY <1>1, <1>2
<1>7. u \in [1 .. m -> Slot]
  BY <1>1, <1>5, <1>6 DEF Slot
<1>8. u \in Seq(Slot) /\ Len(u) = m /\ DOMAIN u = 1 .. m
  BY <1>1, <1>7, LenProperties
<1>9. K = Filled(c) \ {i \in Filled(c) : c.hosts[i].name = EmptyName}
  OBVIOUS
<1>10. WellFormed(c) /\ EmptyName \notin Names => Cardinality(K) = m
  <2> SUFFICES ASSUME WellFormed(c), EmptyName \notin Names
               PROVE  Cardinality(K) = m
    OBVIOUS
  <2>1. Filled(c) = 1 .. m
    BY <1>1 DEF WellFormed, Listable, Filled
  <2>2. K = 1 .. m
    BY <2>1, ConfigFields
  <2>3. 1 \in Int /\ m \in Int
    BY <1>1
  <2>4. Cardinality(1 .. m) = IF 1 > m THEN 0 ELSE m - 1 + 1
    BY <2>3, FS_Interval
  <2> HIDE DEF K, m
  <2> QED  BY <1>1, <2>2, <2>4
<1> HIDE DEF d, t, u, m
<1>11. d \in Config /\ d.hosts = u /\ d.default_host = c.default_host
  BY <1>3, <1>8 DEF Config
<1>12. Filled(d) = 1 .. Cardinality(K)
  BY <1>5, <1>6, <1>8, <1>11, SentinelsAreDistinct DEF Filled
<1>13. Intact(d)
  <2>1. \A k \in 1 .. m : u[k] # FreedHost
    BY <1>5, <1>6, SentinelsAreDistinct
  <2> QED  BY <1>8, <1>11, <2>1 DEF Intact
<1>14. NamesOf(d) = NamesOf(c) \ {EmptyName}
  <2>1. \A k \in Filled(d) : d.hosts[k].name \in NamesOf(c) \ {EmptyName}
    <3> SUFFICES ASSUME NEW k \in 1 .. Cardinality(K)
                 PROVE  t[k].name \in NamesOf(c) \ {EmptyName}
      BY <1>5, <1>11, <1>12
    <3>1. PICK i \in K : t[k] = c.hosts[i]
      BY <1>2
    <3>2. i \in Filled(c) /\ c.hosts[i].name # EmptyName
      OBVIOUS
    <3> QED  BY <3>1, <3>2 DEF NamesOf
  <2>2. \A i \in K : c.hosts[i].name \in NamesOf(d)
    BY <1>2, <1>5, <1>11, <1>12 DEF NamesOf
  <2> QED  BY <2>1, <2>2 DEF NamesOf
<1>15. NamesUnique(c) => NamesUnique(d)
  <2> SUFFICES ASSUME NamesUnique(c),
                      NEW j \in 1 .. Cardinality(K), NEW k \in 1 .. Cardinality(K),
                      t[j].name = t[k].name
               PROVE  j = k
    BY <1>5, <1>11, <1>12 DEF NamesUnique
  <2>1. PICK i1 \in K : Rank(K, i1) = j /\ t[j] = c.hosts[i1]
    BY <1>2
  <2>2. PICK i2 \in K : Rank(K, i2) = k /\ t[k] = c.hosts[i2]
    BY <1>2
  <2>3. i1 = i2
    BY <2>1, <2>2 DEF NamesUnique
  <2> HIDE DEF K
  <2> QED  BY <2>1, <2>2, <2>3
<1>16. EmptyName \notin Names /\ WellFormed(c) => WellFormed(d)
  <2> SUFFICES ASSUME WellFormed(c), EmptyName \notin Names
               PROVE  WellFormed(d)
    OBVIOUS
  <2>1. NamesOf(d) = NamesOf(c)
    BY <1>14, ConfigFields
  <2>2. Listable(d)
    BY <1>5, <1>8, <1>10, <1>11 DEF Listable
  <2> QED  BY <1>11, <2>1, <2>2 DEF WellFormed, DefaultExists, DefaultChosen
<1> QED  BY <1>11, <1>13, <1>14, <1>15, <1>16 DEF d

\* All the entries, in their order, are the sequence itself.
LEMMA KeptAll ==
    ASSUME NEW S, NEW s \in Seq(S)
    PROVE  Kept(s, DOMAIN s) = s
<1> DEFINE K == DOMAIN s
           n == Len(s)
           t == Kept(s, K)
<1>1. n \in Nat /\ K = 1 .. n
  BY LenProperties
<1>2. \A i \in 1 .. n : Rank(K, i) = i
  <2> SUFFICES ASSUME NEW i \in 1 .. n PROVE Rank(K, i) = i
    OBVIOUS
  <2>1. {j \in K : j <= i} = 1 .. i
    BY <1>1
  <2>2. Cardinality(1 .. i) = i
    BY <1>1, FS_Interval
  <2> QED  BY <2>1, <2>2 DEF Rank
<1>3. Cardinality(K) = n
  BY <1>1, FS_Interval
<1> HIDE DEF K, t
<1>4. /\ t \in Seq(S) /\ Len(t) = n
      /\ \A k \in 1 .. n : \E i \in K : Rank(K, i) = k /\ t[k] = s[i]
  BY <1>3, KeptProperties DEF K, t
<1>5. \A k \in 1 .. n : t[k] = s[k]
  BY <1>1, <1>2, <1>4
<1>6. t = s
  BY <1>4, <1>5, SeqEqual
<1> QED  BY <1>6 DEF K, t

\* A configuration whose slots all hold hosts is printed as it is, and parsed as
\* it was if no host has the empty name.
LEMMA RoundTrip ==
    ASSUME NEW c \in Config, Listable(c)
    PROVE  /\ ConfigToJson(c) = c
           /\ EmptyName \notin Names => ParseConfig(c) = c
<1> DEFINE m == Len(c.hosts)
<1>1. c.hosts \in Seq(Slot) /\ m \in Nat /\ DOMAIN c.hosts = 1 .. m
  BY ConfigFields
<1>2. Filled(c) = DOMAIN c.hosts
  BY DEF Filled, Listable
<1>3. Kept(c.hosts, DOMAIN c.hosts) = c.hosts
  BY <1>1, KeptAll
<1>4. [c EXCEPT !.hosts = c.hosts] = c
  BY DEF Config
<1>5. ConfigToJson(c) = c
  BY <1>2, <1>3, <1>4 DEF ConfigToJson
<1>6. ASSUME EmptyName \notin Names PROVE ParseConfig(c) = c
  <2> DEFINE K == {i \in Filled(c) : c.hosts[i].name # EmptyName}
             u == [k \in DOMAIN c.hosts |->
                      IF k <= Cardinality(K) THEN Kept(c.hosts, K)[k] ELSE NullHost]
  <2>1. K = DOMAIN c.hosts
    BY <1>2, <1>6, ConfigFields
  <2>2. Cardinality(K) = m
    <3>1. \A n \in Nat : Cardinality(1 .. n) = n
      BY FS_Interval
    <3> HIDE DEF m, K
    <3> QED  BY <1>1, <2>1, <3>1
  <2>3. Kept(c.hosts, K) = c.hosts
    BY <1>3, <2>1
  <2>4. \A k \in DOMAIN c.hosts : u[k] = c.hosts[k]
    BY <1>1, <2>2, <2>3
  <2>5. c.hosts = [k \in DOMAIN c.hosts |-> c.hosts[k]]
    BY <1>1
  <2>6. u = c.hosts
    BY <2>4, <2>5
  <2>7. ParseConfig(c) = [c EXCEPT !.hosts = u]
    BY DEF ParseConfig
  <2> QED  BY <1>4, <2>6, <2>7
<1> QED  BY <1>5, <1>6
=============================================================================
