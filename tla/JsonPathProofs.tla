--------------------------- MODULE JsonPathProofs ----------------------------
(***************************************************************************)
(* The walk of JsonPath stays inside its path, however long the path is    *)
(* and whatever the documents are.                                         *)
(***************************************************************************)
EXTENDS JsonPath, WellFoundedInduction, TLAPS

\* The position, with what the steps need to know of the path it is in.
PositionInv ==
    /\ request \in Requests
    /\ tried \in 1 .. Len(request)
    /\ p \in Nat \ {0}
    /\ ReadsWithinPath

\* The path being walked has a length.
LEMMA PathHasLength ==
    ASSUME request \in Requests, tried \in 1 .. Len(request)
    PROVE  path \in Path /\ Len(path) \in Nat
<1>1. request \in Seq(Path)
  BY JsonPathAssumption
<1>2. path \in Path
  BY <1>1 DEF path
<1> QED
  BY <1>2 DEF Path

\* Only the NUL is not before the end: any other character leaves room for a
\* step to the next.
LEMMA RoomForOneMore ==
    ASSUME PositionInv, Char # "NUL"
    PROVE  p + 1 <= Len(path) + 1
<1>1. Len(path) \in Nat
  BY PathHasLength DEF PositionInv
<1>2. p <= Len(path)
  BY <1>1 DEF Char, CharAt, PositionInv
<1> QED
  BY <1>1, <1>2 DEF PositionInv

LEMMA PositionInit == Init => PositionInv
<1> SUFFICES ASSUME Init PROVE PositionInv
  OBVIOUS
<1>1. request \in Requests /\ tried = 1 /\ p = 1
  BY DEF Init
<1>2. request \in Seq(Path) \ {<<>>}
  BY <1>1, JsonPathAssumption
<1>3. Len(request) \in Nat /\ Len(request) # 0
  BY <1>2
<1>4. tried \in 1 .. Len(request)
  BY <1>1, <1>3
<1>5. Len(path) \in Nat
  BY <1>1, <1>4, PathHasLength
<1> QED
  BY <1>1, <1>4, <1>5 DEF PositionInv, ReadsWithinPath

\* A step to the next character.
LEMMA OneFurther ==
    ASSUME PositionInv, Char # "NUL", p' = p + 1, UNCHANGED <<request, tried>>
    PROVE  PositionInv'
<1>1. p + 1 <= Len(path) + 1
  BY RoomForOneMore
<1> QED
  BY <1>1 DEF PositionInv, ReadsWithinPath, path

\* A step that reads nothing.
LEMMA SamePlace ==
    ASSUME PositionInv, UNCHANGED <<p, request, tried>>
    PROVE  PositionInv'
BY DEF PositionInv, ReadsWithinPath, path

LEMMA PositionNext == PositionInv /\ [Next]_vars => PositionInv'
<1> SUFFICES ASSUME PositionInv, [Next]_vars PROVE PositionInv'
  OBVIOUS
<1>1. CASE SkipDot
  <2>1. Char # "NUL"
    BY <1>1 DEF SkipDot, Walking
  <2> QED
    BY <1>1, <2>1, OneFurther DEF SkipDot
<1>2. CASE BeginKey
  BY <1>2, SamePlace DEF BeginKey
<1>3. CASE ReadKey
  <2>1. Char # "NUL"
    BY <1>3 DEF ReadKey
  <2> QED
    BY <1>3, <2>1, OneFurther DEF ReadKey
<1>4. CASE TakeMember
  BY <1>4, SamePlace DEF TakeMember
<1>5. CASE OpenBracket
  <2>1. Char # "NUL"
    BY <1>5 DEF OpenBracket
  <2> QED
    BY <1>5, <2>1, OneFurther DEF OpenBracket
<1>6. CASE ReadDigit
  <2>1. Char \in Tokens
    BY <1>6 DEF ReadDigit, IsDigit, Tokens
  <2>2. Char # "NUL"
    BY <2>1, JsonPathAssumption
  <2> QED
    BY <1>6, <2>2, OneFurther DEF ReadDigit
<1>7. CASE CloseBracket
  <2>1. CASE Char = "]"
    BY <1>7, <2>1, OneFurther DEF CloseBracket
  <2>2. CASE Char # "]"
    BY <1>7, <2>2, SamePlace DEF CloseBracket
  <2> QED
    BY <2>1, <2>2
<1>8. CASE LeaveBrackets
  BY <1>8, SamePlace DEF LeaveBrackets
<1>9. CASE Return
  BY <1>9, SamePlace DEF Return
<1>10. CASE TryNext
  <2>1. request' \in Requests /\ tried' = tried + 1 /\ tried < Len(request) /\ p' = 1
    BY <1>10 DEF TryNext, PositionInv
  <2>2. request \in Requests /\ tried \in 1 .. Len(request)
    BY DEF PositionInv
  <2>3. Len(request) \in Nat
    BY <2>2, JsonPathAssumption
  <2>4. request' = request
    BY <1>10 DEF TryNext
  <2>5. tried' \in 1 .. Len(request')
    BY <2>1, <2>2, <2>3, <2>4
  <2>6. request' \in Seq(Path)
    BY <2>1, JsonPathAssumption
  <2>7. path' \in Path
    BY <2>5, <2>6 DEF path
  <2>8. Len(path') \in Nat
    BY <2>7 DEF Path
  <2> QED
    BY <2>1, <2>5, <2>8 DEF PositionInv, ReadsWithinPath
<1>11. CASE UNCHANGED vars
  BY <1>11, SamePlace DEF vars
<1> QED
  BY <1>1, <1>2, <1>3, <1>4, <1>5, <1>6, <1>7, <1>8, <1>9, <1>10, <1>11 DEF Next

\* The walk of extract_json_string (utils.c:155-225) never reads past the NUL
\* of its path, for paths of any length and documents of any shape.
THEOREM WalkReadsWithinPath == Spec => []ReadsWithinPath
<1>1. PositionInv => ReadsWithinPath
  BY DEF PositionInv
<1> QED
  BY <1>1, PositionInit, PositionNext, PTL DEF Spec

-----------------------------------------------------------------------------
(* Functions defined by recursion.                                         *)

LEMMA LeastOf ==
    ASSUME NEW T \in SUBSET Nat, T # {}
    PROVE  \E x \in T : \A y \in T : x <= y
<1>1. PICK x \in T : \A y \in T : ~ (<<y, x>> \in OpToRel(<, Nat))
  BY NatLessThanWellFounded, WFMin, Zenon
<1>2. \A y \in T : ~ (y < x)
  BY <1>1 DEF OpToRel
<1> QED  BY <1>2

\* Going back from an argument makes its rank smaller, until it is zero.
Descends(S, rank, before) ==
    /\ rank \in [S -> Nat]
    /\ before \in [S -> S]
    /\ \A x \in S : rank[x] # 0 => rank[before[x]] < rank[x]

Recursion(S, V, rank, before, base, step) ==
    /\ Descends(S, rank, before)
    /\ base \in [S -> V]
    /\ step \in [S -> [V -> V]]

\* A function that is given where the rank is zero, and elsewhere by its value
\* at an argument of smaller rank.
LEMMA RecursionExists ==
    ASSUME NEW S, NEW V, NEW rank, NEW before, NEW base, NEW step,
           Recursion(S, V, rank, before, base, step)
    PROVE  \E f \in [S -> V] :
              \A x \in S : f[x] = IF rank[x] = 0 THEN base[x] ELSE step[x][f[before[x]]]
<1> USE DEF Recursion, Descends
<1> DEFINE Fits(f, x) == f[x] = IF rank[x] = 0 THEN base[x] ELSE step[x][f[before[x]]]
           UpTo(f, n) == f \in [S -> V] /\ \A x \in S : rank[x] <= n => Fits(f, x)
<1>1. \A n \in Nat : \E f : UpTo(f, n)
  <2> DEFINE T == {n \in Nat : ~ \E f : UpTo(f, n)}
  <2> SUFFICES ASSUME T # {} PROVE FALSE
    OBVIOUS
  <2>1. PICK n \in T : \A m \in T : n <= m
    <3> HIDE DEF UpTo
    <3> QED  BY LeastOf
  <2>2. CASE n = 0
    <3>1. UpTo(base, n)
      BY <2>2
    <3> QED  BY <2>1, <3>1
  <2>3. CASE n # 0
    <3>1. n \in Nat /\ n - 1 \in Nat /\ n - 1 \notin T
      <4>1. T \in SUBSET Nat
        OBVIOUS
      <4> HIDE DEF T
      <4> QED  BY <2>1, <2>3, <4>1
    <3>2. PICK f : UpTo(f, n - 1)
      BY <3>1
    <3> DEFINE g == [x \in S |-> IF rank[x] = n THEN step[x][f[before[x]]] ELSE f[x]]
    <3>3. g \in [S -> V]
      BY <3>2
    <3>4. ASSUME NEW x \in S, rank[x] <= n
          PROVE  Fits(g, x)
      <4>1. CASE rank[x] = n
        <5>1. rank[before[x]] < n /\ before[x] \in S
          BY <2>3, <4>1
        <5>2. g[before[x]] = f[before[x]]
          BY <3>1, <5>1
        <5>3. g[x] = step[x][f[before[x]]]
          BY <4>1
        <5> QED  BY <2>3, <4>1, <5>2, <5>3
      <4>2. CASE rank[x] # n
        <5>1. rank[x] <= n - 1 /\ rank[x] \in Nat
          BY <2>1, <3>4, <4>2
        <5>2. Fits(f, x) /\ g[x] = f[x]
          BY <3>2, <4>2, <5>1
        <5>3. rank[x] # 0 => g[before[x]] = f[before[x]]
          BY <2>1, <5>1
        <5> QED  BY <5>2, <5>3
      <4> QED  BY <4>1, <4>2
    <3>5. UpTo(g, n)
      BY <3>3, <3>4
    <3> QED  BY <2>1, <3>5
  <2> QED  BY <2>2, <2>3
<1>2. ASSUME NEW n \in Nat, NEW f, NEW g, UpTo(f, n), UpTo(g, n),
             NEW x \in S, rank[x] <= n
      PROVE  f[x] = g[x]
  <2> DEFINE T == {k \in Nat : \E y \in S : rank[y] = k /\ k <= n /\ f[y] # g[y]}
  <2> SUFFICES ASSUME f[x] # g[x] PROVE FALSE
    OBVIOUS
  <2>1. rank[x] \in T
    BY <1>2
  <2>2. PICK k \in T : \A m \in T : k <= m
    <3> HIDE DEF T
    <3>1. T \in SUBSET Nat
      BY DEF T
    <3> QED  BY <2>1, <3>1, LeastOf
  <2>3. PICK y \in S : rank[y] = k /\ k <= n /\ f[y] # g[y]
    BY <2>2
  <2>4. Fits(f, y) /\ Fits(g, y)
    BY <1>2, <2>3
  <2>5. CASE k = 0
    BY <2>3, <2>4, <2>5
  <2>6. CASE k # 0
    <3>1. /\ before[y] \in S /\ rank[before[y]] \in Nat
          /\ rank[before[y]] < k /\ rank[before[y]] <= n
      BY <2>2, <2>3, <2>6
    <3>2. rank[before[y]] \notin T
      BY <2>2, <3>1
    <3>3. f[before[y]] = g[before[y]]
      BY <3>1, <3>2
    <3> QED  BY <2>3, <2>4, <2>6, <3>3
  <2> QED  BY <2>5, <2>6
<1> DEFINE part(n) == CHOOSE f : UpTo(f, n)
           h == [x \in S |-> part(rank[x])[x]]
<1>3. \A n \in Nat : UpTo(part(n), n)
  <2> HIDE DEF UpTo
  <2> QED  BY <1>1
<1> HIDE DEF part
<1>4. h \in [S -> V]
  BY <1>3
<1>5. ASSUME NEW x \in S
      PROVE  Fits(h, x)
  <2>1. rank[x] \in Nat /\ UpTo(part(rank[x]), rank[x]) /\ h[x] = part(rank[x])[x]
    BY <1>3
  <2>2. Fits(part(rank[x]), x)
    BY <2>1
  <2>3. CASE rank[x] = 0
    BY <2>1, <2>2, <2>3
  <2>4. CASE rank[x] # 0
    <3> DEFINE y == before[x]
    <3>1. /\ y \in S /\ rank[y] \in Nat /\ rank[y] < rank[x]
          /\ h[y] = part(rank[y])[y]
      BY <2>4
    <3>2. UpTo(part(rank[y]), rank[y]) /\ UpTo(part(rank[x]), rank[y])
      BY <1>3, <2>1, <3>1
    <3>3. part(rank[y])[y] = part(rank[x])[y]
      <4> HIDE DEF UpTo
      <4> QED  BY <1>2, <3>1, <3>2
    <3> QED  BY <2>1, <2>2, <2>4, <3>1, <3>3
  <2> QED  BY <2>3, <2>4
<1> QED  BY <1>4, <1>5

\* What holds where the rank is zero, and wherever it holds before, holds.
LEMMA RankInduction ==
    ASSUME NEW S, NEW rank, NEW before, Descends(S, rank, before),
           NEW P \in SUBSET S,
           \A x \in S : rank[x] = 0 \/ before[x] \in P => x \in P
    PROVE  P = S
<1> USE DEF Descends
<1> DEFINE T == {k \in Nat : \E x \in S : rank[x] = k /\ x \notin P}
<1> SUFFICES ASSUME NEW x \in S, x \notin P PROVE FALSE
  OBVIOUS
<1>1. rank[x] \in T /\ T \in SUBSET Nat
  OBVIOUS
<1>2. PICK k \in T : \A m \in T : k <= m
  <2> HIDE DEF T
  <2> QED  BY <1>1, LeastOf
<1>3. PICK y \in S : rank[y] = k /\ y \notin P
  BY <1>2
<1>4. k # 0 /\ before[y] \in S /\ before[y] \notin P
  BY <1>3
<1>5. rank[before[y]] \in T /\ rank[before[y]] < k /\ rank[before[y]] \in Nat
  BY <1>3, <1>4
<1> QED  BY <1>2, <1>5

-----------------------------------------------------------------------------
(* What a path means.                                                      *)

LEMMA NumberIs ==
    /\ Number \in [Seq(DOMAIN Digits) -> Nat]
    /\ Number[<<>>] = 0
    /\ \A d \in Seq(DOMAIN Digits) : d # <<>> =>
          Number[d] = Number[SubSeq(d, 1, Len(d) - 1)] * 10 + Digits[d[Len(d)]]
<1> DEFINE S == Seq(DOMAIN Digits)
           Def(f) == [d \in S |-> IF d = <<>> THEN 0
                                  ELSE f[SubSeq(d, 1, Len(d) - 1)] * 10 + Digits[d[Len(d)]]]
           rank == [d \in S |-> Len(d)]
           before == [d \in S |-> IF d = <<>> THEN <<>> ELSE SubSeq(d, 1, Len(d) - 1)]
           base == [d \in S |-> 0]
           step == [d \in S |-> [n \in Nat |-> IF d = <<>> THEN 0 ELSE n * 10 + Digits[d[Len(d)]]]]
<1>1. \A d \in S : /\ Len(d) \in Nat
                   /\ d = <<>> <=> Len(d) = 0
                   /\ d # <<>> => /\ SubSeq(d, 1, Len(d) - 1) \in S
                                  /\ Len(SubSeq(d, 1, Len(d) - 1)) < Len(d)
                                  /\ d[Len(d)] \in DOMAIN Digits
  OBVIOUS
<1>2. \A t \in DOMAIN Digits : Digits[t] \in Nat
  BY JsonPathAssumption
<1>3. /\ rank \in [S -> Nat]
      /\ base \in [S -> Nat]
  BY <1>1
<1>4. before \in [S -> S]
  <2>1. \A d \in S : (IF d = <<>> THEN <<>> ELSE SubSeq(d, 1, Len(d) - 1)) \in S
    BY <1>1
  <2> HIDE DEF S
  <2> QED  BY <2>1
<1>5. step \in [S -> [Nat -> Nat]]
  <2>1. \A d \in S : \A n \in Nat : (IF d = <<>> THEN 0 ELSE n * 10 + Digits[d[Len(d)]]) \in Nat
    BY <1>1, <1>2
  <2> HIDE DEF S
  <2> QED  BY <2>1
<1>6. \A d \in S : rank[d] # 0 => rank[before[d]] < rank[d]
  BY <1>1
<1>7. \E f \in [S -> Nat] :
         \A d \in S : f[d] = IF rank[d] = 0 THEN base[d] ELSE step[d][f[before[d]]]
  <2> HIDE DEF rank, before, base, step, S
  <2>1. Recursion(S, Nat, rank, before, base, step)
    BY <1>3, <1>4, <1>5, <1>6 DEF Recursion, Descends
  <2> QED  BY <2>1, RecursionExists
<1>8. PICK f \in [S -> Nat] :
         \A d \in S : f[d] = IF rank[d] = 0 THEN base[d] ELSE step[d][f[before[d]]]
  BY <1>7
<1>9. \A d \in S : f[d] = Def(f)[d]
  BY <1>1, <1>8
<1>10. f = Def(f)
  BY <1>9
<1>11. Number = Def(Number)
  BY <1>10 DEF Number
<1>12. Number \in [S -> Nat]
  <2> DEFINE P == {d \in S : Number[d] \in Nat}
  <2>1. ASSUME NEW d \in S, rank[d] = 0 \/ before[d] \in P
        PROVE  d \in P
    <3>0. Number[d] = Def(Number)[d]
      BY <1>11
    <3>1. CASE d = <<>>
      BY <3>1, <3>0
    <3>2. CASE d # <<>>
      <4>1. before[d] = SubSeq(d, 1, Len(d) - 1) /\ before[d] \in P
        BY <1>1, <2>1, <3>2
      <4>2. Number[d] = Number[SubSeq(d, 1, Len(d) - 1)] * 10 + Digits[d[Len(d)]]
        BY <3>0, <3>2
      <4> QED  BY <1>1, <1>2, <3>2, <4>1, <4>2
    <3> QED  BY <3>1, <3>2
  <2>2. P = S
    <3> HIDE DEF rank, before, P, S
    <3>1. P \in SUBSET S
      BY DEF P
    <3>2. Descends(S, rank, before)
      BY <1>3, <1>4, <1>6 DEF Descends
    <3> QED  BY <2>1, <3>1, <3>2, RankInduction
  <2> QED  BY <1>11, <2>2
<1>13. Number[<<>>] = 0
  <2>1. <<>> \in S
    OBVIOUS
  <2>2. Number[<<>>] = Def(Number)[<<>>]
    BY <1>11
  <2> QED  BY <2>1, <2>2
<1>14. ASSUME NEW d \in S, d # <<>>
       PROVE  Number[d] = Number[SubSeq(d, 1, Len(d) - 1)] * 10 + Digits[d[Len(d)]]
  <2>1. Number[d] = Def(Number)[d]
    BY <1>11
  <2> QED  BY <1>14, <2>1
<1> QED  BY <1>12, <1>13, <1>14

\* A value, or none.
Value == Nodes \union {None}

\* The walk down the items of a value does not leave the values.
LEMMA FindingIsTyped ==
    ASSUME NEW node \in Nodes
    PROVE  /\ \A key : GetObjectItem(node, key) \in Value
           /\ \A i \in Nat : GetArrayItem(node, i) \in Value
<1>1. /\ Items[node] \in Seq([name : Path, node : Nodes])
      /\ \A k \in DOMAIN Items[node] : Items[node][k].node \in Nodes /\ k \in Nat
  <2> DEFINE Item == [name : Path, node : Nodes]
  <2>1. Items[node] \in Seq(Item)
    BY JsonPathAssumption
  <2>2. \A i \in Item : i.node \in Nodes
    OBVIOUS
  <2> HIDE DEF Item
  <2>3. \A k \in DOMAIN Items[node] : Items[node][k] \in Item /\ k \in Nat
    BY <2>1
  <2> QED  BY <2>1, <2>2, <2>3 DEF Item
<1>2. ASSUME NEW key
      PROVE  GetObjectItem(node, key) \in Value
  <2> DEFINE found == {k \in DOMAIN Items[node] : SameKey(Items[node][k].name, key)}
  <2>1. CASE found = {}
    BY <2>1 DEF GetObjectItem, Value
  <2>2. CASE found # {}
    <3>1. found \in SUBSET Nat
      BY <1>1
    <3>2. \E k \in found : \A j \in found : k <= j
      BY <2>2, <3>1, LeastOf
    <3> DEFINE first == CHOOSE k \in found : \A j \in found : k <= j
    <3>3. first \in found
      BY <3>2
    <3>4. GetObjectItem(node, key) = Items[node][first].node
      BY <2>2 DEF GetObjectItem
    <3>5. first \in DOMAIN Items[node]
      BY <3>3
    <3> HIDE DEF first, found
    <3> QED  BY <1>1, <3>4, <3>5 DEF Value
  <2> QED  BY <2>1, <2>2
<1>3. ASSUME NEW i \in Nat
      PROVE  GetArrayItem(node, i) \in Value
  <2>1. CASE i < Len(Items[node])
    <3>1. i + 1 \in DOMAIN Items[node]
      BY <1>1, <2>1
    <3> QED  BY <1>1, <2>1, <3>1 DEF GetArrayItem, Value
  <2>2. CASE ~(i < Len(Items[node]))
    BY <2>2 DEF GetArrayItem, Value
  <2> QED  BY <2>1, <2>2
<1> QED  BY <1>2, <1>3

LEMMA ByKeyIsTyped ==
    ASSUME NEW node \in Value, NEW key
    PROVE  ByKey(node, key) \in Value
BY FindingIsTyped DEF ByKey, Value

LEMMA StepIsTyped ==
    ASSUME NEW node \in Value, NEW piece \in Path
    PROVE  StepInto(node, piece) \in Value
<1>1. ByIndex(node, piece) \in Value
  <2> DEFINE ends == {k \in 3 .. Len(piece) :
                         piece[k] = "]" /\ \A i \in 2 .. k - 1 : IsDigit(piece[i])}
             end == CHOOSE k \in ends : TRUE
             digits == SubSeq(piece, 2, end - 1)
  <2>1. CASE node = None \/ ends = {} \/ Kind[node] # "array"
    BY <2>1 DEF ByIndex, Value
  <2>2. CASE ~(node = None \/ ends = {} \/ Kind[node] # "array")
    <3>1. end \in ends
      BY <2>2
    <3>2. end \in 3 .. Len(piece) /\ \A i \in 2 .. end - 1 : piece[i] \in DOMAIN Digits
      BY <3>1 DEF IsDigit
    <3>3. ByIndex(node, piece) =
             ByKey(GetArrayItem(node, Number[digits]), SubSeq(piece, end + 1, Len(piece)))
      BY <2>2 DEF ByIndex
    <3> HIDE DEF end
    <3>4. digits \in Seq(DOMAIN Digits)
      <4>1. /\ piece \in Seq(Tokens) /\ Len(piece) \in Nat
            /\ Len(digits) = end - 2
            /\ \A i \in 1 .. end - 2 : digits[i] = piece[i + 1]
        BY <3>2 DEF Path
      <4>2. /\ digits \in Seq(Tokens) /\ DOMAIN digits = 1 .. Len(digits)
        BY <3>2 DEF Path
      <4>3. \A i \in 1 .. Len(digits) : digits[i] \in DOMAIN Digits
        BY <3>2, <4>1
      <4> HIDE DEF digits
      <4> QED  BY <4>2, <4>3
    <3>5. Number[digits] \in Nat /\ node \in Nodes
      BY <2>2, <3>4, NumberIs DEF Value
    <3> HIDE DEF digits
    <3>6. GetArrayItem(node, Number[digits]) \in Value
      BY <3>5, FindingIsTyped
    <3> QED  BY <3>3, <3>6, ByKeyIsTyped
  <2> QED  BY <2>1, <2>2
<1> QED  BY <1>1, ByKeyIsTyped DEF StepInto

\* Before every position but the first there is a last place where the path is
\* cut, and only one.
LEMMA LastCutIs ==
    ASSUME NEW s, NEW i \in Nat, i > 1
    PROVE  /\ LastCut(s, i) \in 1 .. i - 1
           /\ CutAt(s, LastCut(s, i))
           /\ \A j \in LastCut(s, i) + 1 .. i - 1 : ~CutAt(s, j)
           /\ \A b \in 1 .. i - 1 :
                 CutAt(s, b) /\ (\A j \in b + 1 .. i - 1 : ~CutAt(s, j)) => LastCut(s, i) = b
<1> DEFINE T == {n \in Nat : \E b \in 1 .. i - 1 : n = i - b /\ CutAt(s, b)}
           Last(b) == CutAt(s, b) /\ \A j \in b + 1 .. i - 1 : ~CutAt(s, j)
<1>1. i - 1 \in T /\ T \in SUBSET Nat
  BY DEF CutAt
<1>2. PICK n \in T : \A m \in T : n <= m
  <2> HIDE DEF T
  <2> QED  BY <1>1, LeastOf
<1>3. PICK b \in 1 .. i - 1 : n = i - b /\ CutAt(s, b)
  BY <1>2
<1>4. ASSUME NEW j \in b + 1 .. i - 1, CutAt(s, j)
      PROVE  FALSE
  <2>1. i - j \in T /\ i - j < n
    BY <1>3, <1>4
  <2> QED  BY <1>2, <2>1
<1>5. \E c \in 1 .. i - 1 : Last(c)
  BY <1>3, <1>4
<1>6. LastCut(s, i) \in 1 .. i - 1 /\ Last(LastCut(s, i))
  BY <1>5 DEF LastCut
<1>7. ASSUME NEW c \in 1 .. i - 1, Last(c)
      PROVE  LastCut(s, i) = c
  BY <1>6, <1>7
<1> QED  BY <1>6, <1>7

\* What the parts of a path lead to, each found from the part before its last cut.
LEMMA ReachedIs ==
    ASSUME NEW r \in Value, NEW s \in Path
    PROVE  /\ Reached(r, s) \in [1 .. Len(s) + 1 -> Value]
           /\ Reached(r, s)[1] = r
           /\ \A i \in 2 .. Len(s) + 1 :
                 Reached(r, s)[i] =
                    StepInto(Reached(r, s)[LastCut(s, i)], SubSeq(s, LastCut(s, i), i - 1))
<1> DEFINE S == 1 .. Len(s) + 1
           Piece(i) == SubSeq(s, LastCut(s, i), i - 1)
           Def(f) == [i \in S |-> IF i = 1 THEN r
                                  ELSE StepInto(f[LastCut(s, i)], Piece(i))]
           rank == [i \in S |-> i - 1]
           before == [i \in S |-> IF i = 1 THEN 1 ELSE LastCut(s, i)]
           base == [i \in S |-> r]
           step == [i \in S |-> [v \in Value |-> IF i = 1 THEN r ELSE StepInto(v, Piece(i))]]
<1>1. Len(s) \in Nat /\ s \in Seq(Tokens)
  BY DEF Path
<1>2. \A i \in S : i # 1 => /\ LastCut(s, i) \in S
                            /\ LastCut(s, i) < i
                            /\ Piece(i) \in Path
  <2> SUFFICES ASSUME NEW i \in S, i # 1
               PROVE  LastCut(s, i) \in S /\ LastCut(s, i) < i /\ Piece(i) \in Path
    OBVIOUS
  <2>1. LastCut(s, i) \in 1 .. i - 1 /\ i \in Nat
    BY <1>1, LastCutIs
  <2>2. LastCut(s, i) \in 1 .. Len(s) /\ i - 1 \in 1 .. Len(s)
    BY <1>1, <2>1
  <2>3. SubSeq(s, LastCut(s, i), i - 1) \in Seq(Tokens)
    BY <1>1, <2>2
  <2> QED  BY <1>1, <2>1, <2>3 DEF Path
<1> HIDE DEF Piece
<1>3. Descends(S, rank, before)
  BY <1>1, <1>2 DEF Descends
<1>4. base \in [S -> Value]
  OBVIOUS
<1>5. step \in [S -> [Value -> Value]]
  BY <1>2, StepIsTyped
<1>6. PICK f \in [S -> Value] :
         \A i \in S : f[i] = IF rank[i] = 0 THEN base[i] ELSE step[i][f[before[i]]]
  <2> HIDE DEF S, rank, before, base, step
  <2>1. Recursion(S, Value, rank, before, base, step)
    BY <1>3, <1>4, <1>5 DEF Recursion
  <2> QED  BY <2>1, RecursionExists
<1>7. ASSUME NEW i \in S
      PROVE  f[i] = Def(f)[i]
  <2>1. CASE i = 1
    BY <1>6, <2>1
  <2>2. CASE i # 1
    <3>1. rank[i] # 0 /\ before[i] = LastCut(s, i) /\ LastCut(s, i) \in S
      BY <1>1, <1>2, <2>2
    <3>2. f[LastCut(s, i)] \in Value
      BY <1>6, <3>1
    <3>3. f[i] = step[i][f[LastCut(s, i)]]
      BY <1>6, <3>1
    <3> QED  BY <2>2, <3>2, <3>3
  <2> QED  BY <2>1, <2>2
<1>8. f = Def(f)
  BY <1>7
<1>9. Reached(r, s) = Def(Reached(r, s))
  BY <1>8 DEF Reached, Piece
<1>10. Reached(r, s)[1] = r
  BY <1>1, <1>9
<1>11. ASSUME NEW i \in 2 .. Len(s) + 1
       PROVE  Reached(r, s)[i] = StepInto(Reached(r, s)[LastCut(s, i)], Piece(i))
  BY <1>1, <1>9
<1>12. Reached(r, s) \in [S -> Value]
  <2> DEFINE P == {i \in S : Reached(r, s)[i] \in Value}
  <2>1. ASSUME NEW i \in S, rank[i] = 0 \/ before[i] \in P
        PROVE  i \in P
    <3>1. CASE i = 1
      BY <1>10, <3>1
    <3>2. CASE i # 1
      <4>1. LastCut(s, i) \in P /\ i \in 2 .. Len(s) + 1
        BY <1>1, <2>1, <3>2
      <4> QED  BY <1>2, <1>11, <3>2, <4>1, StepIsTyped
    <3> QED  BY <3>1, <3>2
  <2>2. P = S
    <3> HIDE DEF rank, before, P, S
    <3>1. P \in SUBSET S
      BY DEF P
    <3> QED  BY <1>3, <2>1, <3>1, RankInduction
  <2> QED  BY <1>9, <2>2
<1> QED  BY <1>10, <1>11, <1>12 DEF Piece

\* A part of a part of a path.
LEMMA PartOfPart ==
    ASSUME NEW s \in Path,
           NEW b \in Nat \ {0}, NEW e \in Nat, e <= Len(s) + 1, b < e
    PROVE  /\ SubSeq(s, b, e - 1) \in Path
           /\ Len(SubSeq(s, b, e - 1)) = e - b
           /\ \A k \in 1 .. e - b : SubSeq(s, b, e - 1)[k] = s[b + k - 1]
           /\ \A m, n \in Nat : 1 <= m /\ n <= e - b =>
                 SubSeq(SubSeq(s, b, e - 1), m, n) = SubSeq(s, b + m - 1, b + n - 1)
<1>1. s \in Seq(Tokens) /\ Len(s) \in Nat
  BY DEF Path
<1> DEFINE piece == SubSeq(s, b, e - 1)
<1>2. /\ piece \in Seq(Tokens)
      /\ Len(piece) = e - b
      /\ \A k \in 1 .. e - b : piece[k] = s[b + k - 1]
  BY <1>1
<1>3. ASSUME NEW m \in Nat, NEW n \in Nat, 1 <= m, n <= e - b
      PROVE  SubSeq(piece, m, n) = SubSeq(s, b + m - 1, b + n - 1)
  <2>1. CASE m > n
    <3>1. SubSeq(piece, m, n) = <<>>
      BY <1>2, <1>3, <2>1
    <3>2. SubSeq(s, b + m - 1, b + n - 1) = <<>>
      BY <1>1, <1>3, <2>1
    <3> QED  BY <3>1, <3>2
  <2>2. CASE m <= n
    <3>1. /\ SubSeq(piece, m, n) \in Seq(Tokens)
          /\ Len(SubSeq(piece, m, n)) = n - m + 1
          /\ \A k \in 1 .. n - m + 1 : SubSeq(piece, m, n)[k] = piece[m + k - 1]
      BY <1>2, <1>3, <2>2
    <3>2. /\ SubSeq(s, b + m - 1, b + n - 1) \in Seq(Tokens)
          /\ Len(SubSeq(s, b + m - 1, b + n - 1)) = n - m + 1
          /\ \A k \in 1 .. n - m + 1 :
                SubSeq(s, b + m - 1, b + n - 1)[k] = s[b + m - 1 + k - 1]
      BY <1>1, <1>3, <2>2
    <3>3. \A k \in 1 .. n - m + 1 : piece[m + k - 1] = s[b + m - 1 + k - 1]
      <4>1. ASSUME NEW k \in 1 .. n - m + 1
            PROVE  piece[m + k - 1] = s[b + m - 1 + k - 1]
        <5>1. m + k - 1 \in 1 .. e - b /\ b + (m + k - 1) - 1 = b + m - 1 + k - 1
          BY <1>3, <2>2, <4>1
        <5> QED  BY <1>2, <5>1
      <4> QED  BY <4>1
    <3> QED
      <4> DEFINE x == SubSeq(piece, m, n)
                 y == SubSeq(s, b + m - 1, b + n - 1)
      <4>1. /\ x \in Seq(Tokens) /\ y \in Seq(Tokens) /\ Len(x) = Len(y)
            /\ \A k \in 1 .. Len(x) : x[k] = y[k]
        BY <3>1, <3>2, <3>3
      <4> HIDE DEF x, y
      <4>2. x = y
        BY <4>1
      <4> QED  BY <4>2 DEF x, y
  <2> QED  BY <1>3, <2>1, <2>2
<1> QED  BY <1>1, <1>2, <1>3 DEF Path

-----------------------------------------------------------------------------
(* What is ahead of the walk.                                              *)

Plain(s, i, j) == \A k \in i .. j : s[k] \notin {".", "["}

\* With the value v at position q, what follows up to the next cut is the key of
\* a member of v.
Ahead(r, s, q, v) ==
    \A e \in q .. Len(s) + 1 :
        Plain(s, q, e - 1) => Reached(r, s)[e] = ByKey(v, SubSeq(s, q, e - 1))

\* The step of the piece that begins at b, where it is the last before e.
LEMMA PieceStep ==
    ASSUME NEW r \in Value, NEW s \in Path,
           NEW b \in Nat \ {0}, NEW e \in Nat, e <= Len(s) + 1, b < e,
           CutAt(s, b), Plain(s, b + 1, e - 1)
    PROVE  Reached(r, s)[e] = StepInto(Reached(r, s)[b], SubSeq(s, b, e - 1))
<1>1. Len(s) \in Nat /\ e \in 2 .. Len(s) + 1 /\ e > 1 /\ b \in 1 .. e - 1
  BY DEF Path
<1>2. \A j \in b + 1 .. e - 1 : ~CutAt(s, j)
  BY DEF Plain, CutAt
<1>3. LastCut(s, e) = b
  BY <1>1, <1>2, LastCutIs
<1> QED  BY <1>1, <1>3, ReachedIs

\* Up to the position of the walk, its value is what the path leads to.
LEMMA AheadHere ==
    ASSUME NEW r \in Value, NEW s \in Path, NEW q \in 1 .. Len(s) + 1, NEW v,
           Ahead(r, s, q, v)
    PROVE  Reached(r, s)[q] = v
<1>1. Len(s) \in Nat /\ s \in Seq(Tokens)
  BY DEF Path
<1>2. q \in q .. Len(s) + 1 /\ Plain(s, q, q - 1) /\ SubSeq(s, q, q - 1) = <<>>
  BY <1>1 DEF Plain
<1> QED  BY <1>2 DEF Ahead, ByKey

\* At a cut, or at the end, this is all there is to say.
LEMMA AheadAtCut ==
    ASSUME NEW r \in Value, NEW s \in Path, NEW q \in 1 .. Len(s) + 1, NEW v,
           q = Len(s) + 1 \/ s[q] \in {".", "["},
           Reached(r, s)[q] = v
    PROVE  Ahead(r, s, q, v)
<1>1. Len(s) \in Nat /\ s \in Seq(Tokens)
  BY DEF Path
<1>2. ASSUME NEW e \in q .. Len(s) + 1, Plain(s, q, e - 1)
      PROVE  Reached(r, s)[e] = ByKey(v, SubSeq(s, q, e - 1))
  <2>1. e = q
    BY <1>1, <1>2 DEF Plain
  <2>2. SubSeq(s, q, e - 1) = <<>>
    BY <1>1, <2>1
  <2> QED  BY <2>1, <2>2 DEF ByKey
<1> QED  BY <1>2 DEF Ahead

LEMMA AheadAtStart ==
    ASSUME NEW r \in Value, NEW s \in Path
    PROVE  Ahead(r, s, 1, r)
<1>1. Len(s) \in Nat /\ s \in Seq(Tokens)
  BY DEF Path
<1>2. ASSUME NEW e \in 1 .. Len(s) + 1, Plain(s, 1, e - 1)
      PROVE  Reached(r, s)[e] = ByKey(r, SubSeq(s, 1, e - 1))
  <2>1. CASE e = 1
    <3>1. SubSeq(s, 1, e - 1) = <<>>
      BY <1>1, <2>1
    <3> QED  BY <2>1, <3>1, ReachedIs DEF ByKey
  <2>2. CASE e # 1
    <3>1. e \in Nat /\ 1 < e /\ e <= Len(s) + 1 /\ CutAt(s, 1) /\ Plain(s, 2, e - 1)
      BY <1>1, <1>2, <2>2 DEF CutAt, Plain
    <3>2. Reached(r, s)[e] = StepInto(Reached(r, s)[1], SubSeq(s, 1, e - 1))
      BY <3>1, PieceStep
    <3>3. SubSeq(s, 1, e - 1)[1] = s[1]
      BY <3>1, PartOfPart
    <3>4. s[1] \notin {".", "["}
      BY <1>2, <3>1 DEF Plain
    <3> QED  BY <3>2, <3>3, <3>4, ReachedIs DEF StepInto
  <2> QED  BY <2>1, <2>2
<1> QED  BY <1>2 DEF Ahead

LEMMA AheadOfDot ==
    ASSUME NEW r \in Value, NEW s \in Path, NEW q \in 1 .. Len(s), NEW v,
           s[q] = ".", Ahead(r, s, q, v)
    PROVE  Ahead(r, s, q + 1, v)
<1>1. Len(s) \in Nat /\ s \in Seq(Tokens) /\ q \in Nat \ {0} /\ q \in 1 .. Len(s) + 1
  BY DEF Path
<1>2. ASSUME NEW e \in q + 1 .. Len(s) + 1, Plain(s, q + 1, e - 1)
      PROVE  Reached(r, s)[e] = ByKey(v, SubSeq(s, q + 1, e - 1))
  <2> DEFINE piece == SubSeq(s, q, e - 1)
  <2>1. e \in Nat /\ q < e /\ e <= Len(s) + 1 /\ CutAt(s, q)
    BY <1>1 DEF CutAt
  <2>2. Reached(r, s)[e] = StepInto(Reached(r, s)[q], piece)
    BY <1>1, <1>2, <2>1, PieceStep
  <2>3. Reached(r, s)[q] = v
    BY <1>1, AheadHere
  <2>4. piece[1] = "." /\ piece \in Seq(Tokens) /\ Len(piece) = e - q
    BY <1>1, <2>1, PartOfPart DEF Path
  <2>5. Tail(piece) = SubSeq(piece, 2, Len(piece))
    BY <2>4
  <2>6. SubSeq(piece, 2, e - q) = SubSeq(s, q + 1, e - 1)
    <3>1. SubSeq(piece, 2, e - q) = SubSeq(s, q + 2 - 1, q + (e - q) - 1)
      BY <1>1, <2>1, PartOfPart
    <3>2. q + 2 - 1 = q + 1 /\ q + (e - q) - 1 = e - 1
      BY <1>1, <2>1
    <3> QED  BY <3>1, <3>2
  <2> QED  BY <2>2, <2>3, <2>4, <2>5, <2>6 DEF StepInto
<1> QED  BY <1>2 DEF Ahead

LEMMA AheadOfKey ==
    ASSUME NEW r \in Value, NEW s \in Path,
           NEW k \in Nat \ {0}, NEW q \in 1 .. Len(s) + 1, k < q,
           NEW v \in Nodes, Ahead(r, s, k, v), Plain(s, k, q - 1),
           q = Len(s) + 1 \/ s[q] \in {".", "["}
    PROVE  Ahead(r, s, q, GetObjectItem(v, SubSeq(s, k, q - 1)))
<1>1. Len(s) \in Nat /\ q \in k .. Len(s) + 1 /\ q \in Nat /\ q <= Len(s) + 1
  BY DEF Path
<1>2. Reached(r, s)[q] = ByKey(v, SubSeq(s, k, q - 1))
  BY <1>1 DEF Ahead
<1>3. Len(SubSeq(s, k, q - 1)) = q - k
  BY <1>1, PartOfPart
<1>4. SubSeq(s, k, q - 1) # <<>>
  BY <1>1, <1>3
<1>5. v # None
  BY JsonPathAssumption
<1> QED  BY <1>2, <1>4, <1>5, AheadAtCut DEF ByKey

\* Between a bracket at b and position q there are only digits, of the number n.
InBracket(r, s, b, q, v, n) ==
    /\ b \in 1 .. q - 1
    /\ s[b] = "["
    /\ Reached(r, s)[b] = v
    /\ \A k \in b + 1 .. q - 1 : s[k] \in DOMAIN Digits
    /\ n = Number[SubSeq(s, b + 1, q - 1)]

LEMMA OneMoreDigit ==
    ASSUME NEW r \in Value, NEW s \in Path, NEW q \in 1 .. Len(s), NEW b, NEW v, NEW n,
           InBracket(r, s, b, q, v, n), IsDigit(s[q])
    PROVE  InBracket(r, s, b, q + 1, v, n * 10 + Digits[s[q]])
<1> DEFINE d == SubSeq(s, b + 1, q)
<1>1. /\ Len(s) \in Nat /\ s \in Seq(Tokens) /\ b \in Nat \ {0} /\ b < q
      /\ q \in Nat /\ q <= Len(s)
  BY DEF Path, InBracket
<1>2. \A k \in b + 1 .. q : s[k] \in DOMAIN Digits
  BY <1>1 DEF InBracket, IsDigit
<1>3. /\ d \in Seq(Tokens) /\ Len(d) = q - b
      /\ \A k \in 1 .. q - b : d[k] = s[b + k]
  BY <1>1
<1>4. ASSUME NEW k \in 1 .. Len(d)
      PROVE  d[k] \in DOMAIN Digits
  <2>1. k \in 1 .. q - b /\ b + k \in b + 1 .. q
    BY <1>1, <1>3
  <2> QED  BY <1>2, <1>3, <2>1
<1>5. SubSeq(d, 1, Len(d) - 1) = SubSeq(s, b + 1, q - 1)
  <2> DEFINE c == b + 1
             e == q + 1
             l == Len(d) - 1
  <2>1. c \in Nat \ {0} /\ e \in Nat /\ e <= Len(s) + 1 /\ c < e /\ e - 1 = q
    BY <1>1
  <2>2. /\ l \in Nat /\ l <= e - c
        /\ c + 1 - 1 = b + 1 /\ c + l - 1 = q - 1
    BY <1>1, <1>3
  <2> HIDE DEF c, e, l
  <2>3. \A i, j \in Nat : 1 <= i /\ j <= e - c =>
           SubSeq(SubSeq(s, c, e - 1), i, j) = SubSeq(s, c + i - 1, c + j - 1)
    BY <2>1, PartOfPart
  <2>4. 1 \in Nat /\ 1 <= 1
    OBVIOUS
  <2>5. SubSeq(SubSeq(s, c, e - 1), 1, l) = SubSeq(s, c + 1 - 1, c + l - 1)
    BY <2>2, <2>3, <2>4, Zenon
  <2>6. SubSeq(SubSeq(s, c, q), 1, l) = SubSeq(s, b + 1, q - 1)
    BY <2>1, <2>2, <2>5
  <2> QED  BY <2>6 DEF c, l
<1>6. d[Len(d)] = s[q] /\ Len(d) # 0
  BY <1>1, <1>3
<1> HIDE DEF d
<1>7. d \in Seq(DOMAIN Digits) /\ d # <<>>
  BY <1>3, <1>4, <1>6
<1>8. Number[d] = n * 10 + Digits[s[q]]
  BY <1>5, <1>6, <1>7, NumberIs DEF InBracket
<1>9. (q + 1) - 1 = q /\ b \in 1 .. q
  BY <1>1
<1> QED  BY <1>2, <1>8, <1>9 DEF InBracket, d

\* The piece that begins with the bracket.
LEMMA BracketPiece ==
    ASSUME NEW r \in Value, NEW s \in Path, NEW q \in 1 .. Len(s) + 1,
           NEW b, NEW v, NEW n, InBracket(r, s, b, q, v, n),
           NEW e \in q .. Len(s) + 1, Plain(s, q, e - 1)
    PROVE  /\ Reached(r, s)[e] = ByIndex(v, SubSeq(s, b, e - 1))
           /\ Len(SubSeq(s, b, e - 1)) = e - b
           /\ \A k \in 1 .. e - b : SubSeq(s, b, e - 1)[k] = s[b + k - 1]
           /\ \A k \in 2 .. q - b : SubSeq(s, b, e - 1)[k] \in DOMAIN Digits
<1> DEFINE piece == SubSeq(s, b, e - 1)
<1>1. /\ Len(s) \in Nat /\ s \in Seq(Tokens) /\ b \in Nat \ {0} /\ b < q
      /\ q \in Nat /\ e \in Nat /\ q <= e /\ e <= Len(s) + 1 /\ b < e
  BY DEF Path, InBracket
<1>2. Plain(s, b + 1, e - 1)
  <2>1. ASSUME NEW k \in b + 1 .. e - 1
        PROVE  s[k] \notin {".", "["}
    <3>1. CASE k < q
      <4>1. s[k] \in DOMAIN Digits
        BY <1>1, <3>1 DEF InBracket
      <4> QED  BY <4>1, JsonPathAssumption
    <3>2. CASE ~(k < q)
      <4>1. k \in q .. e - 1
        BY <1>1, <3>2
      <4> QED  BY <4>1 DEF Plain
    <3> QED  BY <3>1, <3>2
  <2> QED  BY <2>1 DEF Plain
<1>3. CutAt(s, b) /\ Reached(r, s)[b] = v /\ s[b] = "["
  BY DEF CutAt, InBracket
<1>4. Reached(r, s)[e] = StepInto(v, piece)
  BY <1>1, <1>2, <1>3, PieceStep
<1>5. Len(piece) = e - b /\ \A k \in 1 .. e - b : piece[k] = s[b + k - 1]
  BY <1>1, PartOfPart
<1> HIDE DEF piece
<1>6. piece[1] = "["
  BY <1>1, <1>3, <1>5
<1>7. \A k \in 2 .. q - b : piece[k] \in DOMAIN Digits
  BY <1>1, <1>5 DEF InBracket
<1>8. Reached(r, s)[e] = ByIndex(v, piece)
  BY <1>4, <1>6 DEF StepInto
<1> QED  BY <1>5, <1>7, <1>8 DEF piece

\* Digits without a closing bracket, or a bracket without digits, lead nowhere.
LEMMA AheadOfBroken ==
    ASSUME NEW r \in Value, NEW s \in Path, NEW q \in 1 .. Len(s) + 1,
           NEW b, NEW v, NEW n, InBracket(r, s, b, q, v, n),
           q <= Len(s) => ~IsDigit(s[q]),
           ~(q <= Len(s) /\ s[q] = "]" /\ b + 1 < q)
    PROVE  Ahead(r, s, q, None)
<1>1. /\ Len(s) \in Nat /\ b \in Nat \ {0} /\ b < q /\ q \in Nat /\ q <= Len(s) + 1
  BY DEF Path, InBracket
<1>2. ASSUME NEW e \in q .. Len(s) + 1, Plain(s, q, e - 1)
      PROVE  Reached(r, s)[e] = ByKey(None, SubSeq(s, q, e - 1))
  <2> DEFINE piece == SubSeq(s, b, e - 1)
             ends == {k \in 3 .. Len(piece) :
                         piece[k] = "]" /\ \A i \in 2 .. k - 1 : IsDigit(piece[i])}
  <2>1. /\ Reached(r, s)[e] = ByIndex(v, piece)
        /\ Len(piece) = e - b
        /\ \A k \in 1 .. e - b : piece[k] = s[b + k - 1]
        /\ \A k \in 2 .. q - b : piece[k] \in DOMAIN Digits
    BY <1>2, BracketPiece
  <2>2. ASSUME NEW k \in ends
        PROVE  FALSE
    <3> HIDE DEF piece
    <3>1. k \in Nat /\ 3 <= k /\ k <= e - b /\ e \in Nat /\ e <= Len(s) + 1
      BY <1>1, <2>1
    <3>2. CASE k <= q - b
      <4>1. piece[k] \in DOMAIN Digits /\ piece[k] = "]"
        BY <1>1, <2>1, <3>1, <3>2
      <4> QED  BY <4>1, JsonPathAssumption
    <3>3. CASE k = q - b + 1
      <4>1. b + k - 1 = q /\ q <= Len(s) /\ b + 1 < q
        BY <1>1, <3>1, <3>3
      <4>2. s[q] = "]"
        BY <1>1, <2>1, <3>1, <4>1
      <4> QED  BY <4>1, <4>2
    <3>4. CASE k > q - b + 1
      <4>1. q - b + 1 \in 2 .. k - 1 /\ q - b + 1 \in 1 .. e - b /\ q <= Len(s)
            /\ b + (q - b + 1) - 1 = q
        BY <1>1, <3>1, <3>4
      <4>2. IsDigit(piece[q - b + 1]) /\ piece[q - b + 1] = s[q]
        BY <2>1, <4>1
      <4> QED  BY <4>1, <4>2
    <3> QED  BY <1>1, <3>1, <3>2, <3>3, <3>4
  <2>3. ends = {}
    BY <2>2
  <2>4. ByIndex(v, piece) = None
    BY <2>3 DEF ByIndex
  <2> QED  BY <2>1, <2>4 DEF ByKey
<1> QED  BY <1>2 DEF Ahead

LEMMA AheadOfClosed ==
    ASSUME NEW r \in Value, NEW s \in Path, NEW q \in 1 .. Len(s),
           NEW b, NEW v \in Nodes, NEW n, InBracket(r, s, b, q, v, n),
           s[q] = "]", b + 1 < q
    PROVE  Ahead(r, s, q + 1, IF Kind[v] = "array" THEN GetArrayItem(v, n) ELSE None)
<1> DEFINE w == IF Kind[v] = "array" THEN GetArrayItem(v, n) ELSE None
           m == q - b + 1
<1>1. /\ Len(s) \in Nat /\ b \in Nat \ {0} /\ b < q /\ q \in Nat /\ q <= Len(s)
      /\ q \in 1 .. Len(s) + 1
  BY DEF Path, InBracket
<1>2. "]" \notin DOMAIN Digits /\ v # None
  BY JsonPathAssumption
<1>3. ASSUME NEW e \in q + 1 .. Len(s) + 1, Plain(s, q + 1, e - 1)
      PROVE  Reached(r, s)[e] = ByKey(w, SubSeq(s, q + 1, e - 1))
  <2> DEFINE piece == SubSeq(s, b, e - 1)
             ends == {k \in 3 .. Len(piece) :
                         piece[k] = "]" /\ \A i \in 2 .. k - 1 : IsDigit(piece[i])}
  <2>1. e \in q .. Len(s) + 1 /\ e \in Nat /\ q < e /\ e <= Len(s) + 1 /\ b < e
    BY <1>1, <1>3
  <2>2. Plain(s, q, e - 1)
    BY <1>1, <1>3, <2>1 DEF Plain
  <2>3. /\ Reached(r, s)[e] = ByIndex(v, piece)
        /\ Len(piece) = e - b
        /\ \A k \in 1 .. e - b : piece[k] = s[b + k - 1]
        /\ \A k \in 2 .. q - b : piece[k] \in DOMAIN Digits
    BY <1>1, <2>1, <2>2, BracketPiece
  <2>4. SubSeq(piece, 2, m - 1) = SubSeq(s, b + 1, q - 1)
    <3>1. /\ 2 \in Nat /\ m - 1 \in Nat /\ 1 <= 2 /\ m - 1 <= e - b
          /\ b + 2 - 1 = b + 1 /\ b + (m - 1) - 1 = q - 1
      BY <1>1, <2>1
    <3>2. SubSeq(piece, 2, m - 1) = SubSeq(s, b + 2 - 1, b + (m - 1) - 1)
      BY <1>1, <2>1, <3>1, PartOfPart
    <3> QED  BY <3>1, <3>2
  <2>5. SubSeq(piece, m + 1, Len(piece)) = SubSeq(s, q + 1, e - 1)
    <3>1. /\ m + 1 \in Nat /\ e - b \in Nat /\ 1 <= m + 1 /\ e - b <= e - b
          /\ b + (m + 1) - 1 = q + 1 /\ b + (e - b) - 1 = e - 1
      BY <1>1, <2>1
    <3>2. SubSeq(piece, m + 1, e - b) = SubSeq(s, b + (m + 1) - 1, b + (e - b) - 1)
      BY <1>1, <2>1, <3>1, PartOfPart
    <3> QED  BY <2>3, <3>1, <3>2
  <2> HIDE DEF piece
  <2>6. /\ m \in 3 .. Len(piece) /\ m \in 1 .. e - b /\ b + m - 1 = q
        /\ \A k \in 2 .. m - 1 : k \in 2 .. q - b
    BY <1>1, <2>1, <2>3
  <2>7. piece[m] = "]" /\ \A k \in 2 .. m - 1 : piece[k] \in DOMAIN Digits
    BY <2>3, <2>6
  <2>8. ends = {m}
    <3> HIDE DEF m
    <3>1. m \in ends
      BY <2>6, <2>7 DEF IsDigit
    <3>2. ASSUME NEW k \in ends
          PROVE  k = m
      <4>1. k \in Nat /\ m \in Nat /\ 3 <= k /\ 3 <= m
        BY <2>6
      <4>2. CASE k < m
        <5>1. k \in 2 .. m - 1 /\ piece[k] = "]"
          BY <4>1, <4>2
        <5> QED  BY <1>2, <2>7, <5>1
      <4>3. CASE k > m
        <5>1. m \in 2 .. k - 1
          BY <4>1, <4>3
        <5>2. piece[m] \in DOMAIN Digits
          BY <5>1 DEF IsDigit
        <5> QED  BY <1>2, <2>7, <5>2
      <4> QED  BY <4>1, <4>2, <4>3
    <3> HIDE DEF ends
    <3> QED  BY <3>1, <3>2
  <2>9. (CHOOSE k \in ends : TRUE) = m
    <3> HIDE DEF ends, m
    <3> QED  BY <2>8
  <2> HIDE DEF m
  <2>10. CASE Kind[v] = "array"
    <3>1. ByIndex(v, piece) =
             ByKey(GetArrayItem(v, Number[SubSeq(piece, 2, m - 1)]),
                   SubSeq(piece, m + 1, Len(piece)))
      BY <1>2, <2>8, <2>9, <2>10 DEF ByIndex
    <3> QED  BY <2>3, <2>4, <2>5, <2>10, <3>1 DEF InBracket
  <2>11. CASE Kind[v] # "array"
    <3>1. ByIndex(v, piece) = None
      BY <2>11 DEF ByIndex
    <3> QED  BY <2>3, <2>11, <3>1 DEF ByKey
  <2> QED  BY <2>10, <2>11
<1> QED  BY <1>3 DEF Ahead

\* Where there is no value any more, there is none in the end.
LEMMA NothingStaysNothing ==
    ASSUME NEW r \in Value, NEW s \in Path, NEW q \in 1 .. Len(s) + 1,
           Ahead(r, s, q, None)
    PROVE  Reached(r, s)[Len(s) + 1] = None
<1>1. Len(s) \in Nat /\ q \in Nat \ {0} /\ q <= Len(s) + 1
  BY DEF Path
<1> DEFINE T == {i \in q .. Len(s) + 1 :
                    (i = Len(s) + 1 \/ CutAt(s, i)) /\ Reached(r, s)[i] # None}
<1> SUFFICES ASSUME Reached(r, s)[Len(s) + 1] # None PROVE FALSE
  OBVIOUS
<1>2. Len(s) + 1 \in T /\ T \in SUBSET Nat
  BY <1>1
<1>3. PICK i \in T : \A j \in T : i <= j
  <2> HIDE DEF T
  <2> QED  BY <1>2, LeastOf
<1>4. i \in Nat /\ q <= i /\ i <= Len(s) + 1 /\ Reached(r, s)[i] # None
  BY <1>1, <1>3
<1>5. CASE Plain(s, q, i - 1)
  BY <1>1, <1>4, <1>5 DEF Ahead, ByKey
<1>6. CASE ~Plain(s, q, i - 1)
  <2>1. PICK j \in q .. i - 1 : CutAt(s, j)
    BY <1>6 DEF Plain, CutAt
  <2>2. i > 1 /\ i \in 2 .. Len(s) + 1 /\ j \in Nat
    BY <1>1, <1>4, <2>1
  <2> DEFINE b == LastCut(s, i)
  <2>3. /\ b \in 1 .. i - 1 /\ CutAt(s, b)
        /\ \A k \in b + 1 .. i - 1 : ~CutAt(s, k)
    BY <1>4, <2>2, LastCutIs
  <2>4. Reached(r, s)[i] = StepInto(Reached(r, s)[b], SubSeq(s, b, i - 1))
    BY <2>2, ReachedIs
  <2> HIDE DEF b
  <2>5. b \in q .. Len(s) + 1 /\ b < i
    BY <1>1, <1>4, <2>1, <2>2, <2>3
  <2>6. b \notin T
    BY <1>3, <1>4, <2>5
  <2>7. Reached(r, s)[b] = None
    BY <2>3, <2>5, <2>6
  <2> QED  BY <1>4, <2>4, <2>7 DEF StepInto, ByKey, ByIndex
<1> QED  BY <1>5, <1>6

-----------------------------------------------------------------------------
(* The walk finds what the path means.                                     *)

KeyInv ==
    /\ current # None
    /\ keyStart \in Nat \ {0} /\ keyStart <= p
    /\ Ahead(root, path, keyStart, current)
    /\ Plain(path, keyStart, p - 1)
    /\ keyStart = p => Char \notin {".", "[", "NUL"}

DigitsInv ==
    /\ current # None
    /\ \E b : /\ InBracket(root, path, b, p, current, index)
              /\ p = b + 1 => IsDigit(Char)

\* Wherever the walk is, its value and what is left of the path say together
\* what the path leads to.
PlaceInv ==
    /\ root \in Value /\ current \in Value /\ index \in Nat
    /\ at \in {"walk", "key", "brackets", "digits", "done"}
    /\ at \in {"walk", "brackets"} => Ahead(root, path, p, current)
    /\ at = "key" => KeyInv
    /\ at = "digits" => DigitsInv

\* The paths tried before mean nothing.
SearchInv == at # "done" => \A k \in 1 .. tried - 1 : Meaning(root, request[k]) = None

WalkInv == PositionInv /\ PlaceInv /\ SearchInv /\ WalkFollowsPath

\* What is read is a character of the path, or the NUL at its end.
LEMMA CharIs ==
    ASSUME PositionInv
    PROVE  /\ path \in Path /\ Len(path) \in Nat
           /\ p \in 1 .. Len(path) + 1
           /\ Char # "NUL" => p \in 1 .. Len(path) /\ Char = path[p]
           /\ Char = "NUL" => p = Len(path) + 1
<1>1. path \in Path /\ Len(path) \in Nat /\ path \in Seq(Tokens)
  BY PathHasLength DEF PositionInv, Path
<1>2. p \in 1 .. Len(path) + 1
  BY <1>1 DEF PositionInv, ReadsWithinPath
<1>3. CASE p <= Len(path)
  <2>1. Char = path[p] /\ path[p] \in Tokens
    BY <1>1, <1>2, <1>3 DEF Char, CharAt
  <2>2. Char # "NUL"
    BY <2>1, JsonPathAssumption
  <2> QED  BY <1>1, <1>2, <1>3, <2>1, <2>2
<1>4. CASE ~(p <= Len(path))
  BY <1>1, <1>2, <1>4 DEF Char, CharAt
<1> QED  BY <1>1, <1>3, <1>4

LEMMA WalkSteps ==
    ASSUME WalkInv, SkipDot \/ LeaveBrackets
    PROVE  PlaceInv'
<1>1. path' = path
  BY DEF SkipDot, LeaveBrackets, path
<1>2. CASE SkipDot
  <2>1. p \in 1 .. Len(path) /\ path[p] = "." /\ path \in Path
    BY <1>2, CharIs DEF SkipDot, WalkInv
  <2>2. Ahead(root, path, p + 1, current)
    BY <1>2, <2>1, AheadOfDot DEF SkipDot, Walking, WalkInv, PlaceInv
  <2> QED  BY <1>1, <1>2, <2>2 DEF SkipDot, Walking, WalkInv, PlaceInv
<1>3. CASE LeaveBrackets
  BY <1>1, <1>3 DEF LeaveBrackets, WalkInv, PlaceInv
<1> QED  BY <1>2, <1>3

LEMMA KeySteps ==
    ASSUME WalkInv, BeginKey \/ ReadKey \/ TakeMember
    PROVE  PlaceInv'
<1>1. /\ path' = path /\ path \in Path /\ Len(path) \in Nat /\ p \in Nat
      /\ p \in 1 .. Len(path) + 1
  BY CharIs DEF BeginKey, ReadKey, TakeMember, path, WalkInv
<1>2. CASE BeginKey
  <2>1. /\ at' = "key" /\ keyStart' = p /\ p' = p /\ current' = current
        /\ current # None /\ Char \notin {".", "[", "NUL"} /\ Char' = Char
    BY <1>1, <1>2 DEF BeginKey, Walking, Char, CharAt
  <2>2. Ahead(root, path, p, current) /\ Plain(path, p, p - 1)
    BY <1>1, <1>2 DEF BeginKey, Walking, WalkInv, PlaceInv, Plain
  <2>3. KeyInv'
    BY <1>1, <1>2, <2>1, <2>2 DEF BeginKey, KeyInv
  <2> QED  BY <1>2, <2>1, <2>3 DEF BeginKey, WalkInv, PlaceInv
<1>3. CASE ReadKey
  <2>1. /\ KeyInv /\ at' = "key" /\ p' = p + 1
        /\ UNCHANGED <<root, keyStart, current, index>>
    BY <1>3 DEF ReadKey, WalkInv, PlaceInv
  <2>2. p \in 1 .. Len(path) /\ path[p] \notin {".", "["}
    BY <1>3, CharIs DEF ReadKey, WalkInv
  <2>3. Plain(path, keyStart, p)
    BY <1>1, <2>1, <2>2 DEF KeyInv, Plain
  <2>4. (p + 1) - 1 = p /\ keyStart <= p + 1 /\ keyStart # p + 1
    BY <1>1, <2>1 DEF KeyInv
  <2>5. KeyInv'
    BY <1>1, <2>1, <2>3, <2>4 DEF KeyInv
  <2> QED  BY <2>1, <2>5 DEF WalkInv, PlaceInv
<1>4. CASE TakeMember
  <2> DEFINE key == SubSeq(path, keyStart, p - 1)
  <2>1. /\ KeyInv /\ at' = "brackets" /\ p' = p /\ current' = GetObjectItem(current, key)
        /\ Char \in {".", "[", "NUL"} /\ UNCHANGED <<root, index>>
    BY <1>4 DEF TakeMember, WalkInv, PlaceInv
  <2>2. current \in Nodes /\ root \in Value /\ keyStart < p /\ keyStart \in Nat \ {0}
    BY <1>1, <2>1 DEF WalkInv, PlaceInv, Value, KeyInv
  <2>3. p = Len(path) + 1 \/ path[p] \in {".", "["}
    BY <2>1, CharIs DEF WalkInv
  <2>4. Ahead(root, path, p, GetObjectItem(current, key))
    BY <1>1, <2>1, <2>2, <2>3, AheadOfKey DEF KeyInv
  <2>5. GetObjectItem(current, key) \in Value
    BY <2>2, FindingIsTyped
  <2> QED  BY <1>1, <2>1, <2>4, <2>5 DEF WalkInv, PlaceInv
<1> QED  BY <1>2, <1>3, <1>4

LEMMA BracketSteps ==
    ASSUME WalkInv, OpenBracket \/ ReadDigit \/ CloseBracket
    PROVE  PlaceInv'
<1>1. /\ path' = path /\ path \in Path /\ Len(path) \in Nat /\ p \in Nat
      /\ p \in 1 .. Len(path) + 1 /\ root' = root /\ root \in Value /\ index \in Nat
      /\ current \in Value
  BY CharIs DEF OpenBracket, ReadDigit, CloseBracket, path, WalkInv, PlaceInv
<1>2. \A t \in DOMAIN Digits : Digits[t] \in Nat /\ t # "NUL"
  BY JsonPathAssumption DEF Tokens
<1>3. CASE OpenBracket
  <2>1. /\ p \in 1 .. Len(path) /\ path[p] = "[" /\ p' = p + 1
        /\ Ahead(root, path, p, current) /\ current # None
    BY <1>3, CharIs DEF OpenBracket, Walking, WalkInv, PlaceInv
  <2>2. p + 1 \in 1 .. Len(path) + 1 /\ p \in 1 .. (p + 1) - 1
    BY <1>1, <2>1
  <2>3. InBracket(root, path, p, p + 1, current, 0)
    <3>1. Reached(root, path)[p] = current
      BY <1>1, <2>1, AheadHere
    <3>2. SubSeq(path, p + 1, (p + 1) - 1) = <<>>
      BY <1>1, <2>1 DEF Path
    <3>3. 0 = Number[SubSeq(path, p + 1, (p + 1) - 1)]
      BY <3>2, NumberIs
    <3>4. \A k \in p + 1 .. (p + 1) - 1 : path[k] \in DOMAIN Digits
      BY <1>1
    <3> QED  BY <2>1, <2>2, <3>1, <3>3, <3>4 DEF InBracket
  <2>4. CASE IsDigit(CharAt(p + 1))
    <3>1. at' = "digits" /\ index' = 0 /\ current' = current
      BY <1>3, <2>4 DEF OpenBracket
    <3>2. IsDigit(Char)'
      BY <1>1, <2>1, <2>4 DEF Char, CharAt, IsDigit
    <3>3. DigitsInv'
      BY <1>1, <2>1, <2>3, <3>1, <3>2 DEF DigitsInv
    <3> QED  BY <1>1, <3>1, <3>3 DEF PlaceInv
  <2>5. CASE ~IsDigit(CharAt(p + 1))
    <3>1. at' = "brackets" /\ current' = None /\ index' = index
      BY <1>3, <2>5 DEF OpenBracket
    <3>2. p + 1 <= Len(path) => ~IsDigit(path[p + 1])
      BY <2>5 DEF CharAt
    <3>3. Ahead(root, path, p + 1, None)
      <4>1. ~(p + 1 < p + 1)
        BY <1>1
      <4> QED  BY <1>1, <2>2, <2>3, <3>2, <4>1, AheadOfBroken
    <3> QED  BY <1>1, <2>1, <3>1, <3>3 DEF PlaceInv, Value
  <2> QED  BY <2>4, <2>5
<1>4. CASE ReadDigit
  <2>1. /\ DigitsInv /\ IsDigit(Char) /\ at' = "digits" /\ p' = p + 1
        /\ index' = index * 10 + Digits[Char] /\ current' = current
    BY <1>4 DEF ReadDigit, WalkInv, PlaceInv
  <2>2. PICK b : InBracket(root, path, b, p, current, index)
    BY <2>1 DEF DigitsInv
  <2>3. p \in 1 .. Len(path) /\ Char = path[p]
    BY <1>2, <2>1, CharIs DEF IsDigit, WalkInv
  <2>4. InBracket(root, path, b, p + 1, current, index * 10 + Digits[Char])
    BY <1>1, <2>1, <2>2, <2>3, OneMoreDigit
  <2>5. p + 1 # b + 1 /\ index' \in Nat
    BY <1>1, <1>2, <2>1, <2>2 DEF InBracket, IsDigit
  <2>6. DigitsInv'
    <3>1. InBracket(root', path', b, p', current', index')
      BY <1>1, <2>1, <2>4
    <3> QED  BY <2>1, <2>5, <3>1 DEF DigitsInv
  <2> QED  BY <1>1, <2>1, <2>5, <2>6 DEF PlaceInv
<1>5. CASE CloseBracket
  <2>1. DigitsInv /\ ~IsDigit(Char) /\ at' = "brackets" /\ index' = index
    BY <1>5 DEF CloseBracket, WalkInv, PlaceInv
  <2>2. PICK b : /\ InBracket(root, path, b, p, current, index)
                 /\ p = b + 1 => IsDigit(Char)
    BY <2>1 DEF DigitsInv
  <2>3. b + 1 < p /\ current \in Nodes
    BY <1>1, <2>1, <2>2 DEF InBracket, DigitsInv, Value
  <2>4. CASE Char = "]"
    <3> DEFINE item == IF Kind[current] = "array" THEN GetArrayItem(current, index) ELSE None
    <3>1. p' = p + 1 /\ current' = item
      BY <1>5, <2>4 DEF CloseBracket
    <3>2. p \in 1 .. Len(path) /\ path[p] = "]"
      BY <2>4, CharIs DEF WalkInv
    <3>3. Ahead(root, path, p + 1, item)
      BY <1>1, <2>2, <2>3, <3>2, AheadOfClosed
    <3>4. item \in Value
      BY <1>1, <2>3, FindingIsTyped DEF Value
    <3> QED  BY <1>1, <2>1, <3>1, <3>3, <3>4 DEF PlaceInv
  <2>5. CASE Char # "]"
    <3>1. p' = p /\ current' = None
      BY <1>5, <2>5 DEF CloseBracket
    <3>2. p <= Len(path) => ~IsDigit(path[p]) /\ path[p] # "]"
      BY <1>1, <2>1, <2>5 DEF Char, CharAt
    <3>3. Ahead(root, path, p, None)
      BY <1>1, <2>2, <3>2, AheadOfBroken
    <3> QED  BY <1>1, <2>1, <3>1, <3>3 DEF PlaceInv, Value
  <2> QED  BY <2>4, <2>5
<1> QED  BY <1>3, <1>4, <1>5

\* At the end of the walk its value is what the path leads to.
LEMMA FinishedMeans ==
    ASSUME WalkInv, Finished
    PROVE  Meaning(root, path) = IF Found THEN current ELSE None
<1>1. /\ path \in Path /\ p \in 1 .. Len(path) + 1 /\ root \in Value
      /\ Ahead(root, path, p, current)
  BY CharIs DEF WalkInv, PlaceInv, Finished
<1>2. Reached(root, path)[Len(path) + 1] = current
  <2>1. CASE current = None
    BY <1>1, <2>1, NothingStaysNothing
  <2>2. CASE Char = "NUL"
    <3>1. p = Len(path) + 1
      BY <2>2, CharIs DEF WalkInv
    <3> QED  BY <1>1, <3>1, AheadHere
  <2> QED  BY <2>1, <2>2 DEF Finished
<1> QED  BY <1>2 DEF Meaning, Found

LEMMA ReturnKeeps ==
    ASSUME WalkInv, Return
    PROVE  PlaceInv' /\ SearchInv' /\ WalkFollowsPath'
<1>1. /\ Meaning(root, path) = IF Found THEN current ELSE None
      /\ result' = IF Found THEN current ELSE None
      /\ Found \/ tried = Len(request)
      /\ at = "walk" /\ at' = "done"
      /\ UNCHANGED <<root, request, tried, p, keyStart, index, current>>
  BY FinishedMeans DEF Return, Finished
<1>2. /\ request \in Seq(Path) /\ DOMAIN request = 1 .. Len(request)
      /\ Len(request) \in Nat /\ tried \in 1 .. Len(request) /\ path = request[tried]
      /\ \A k \in 1 .. tried - 1 : Meaning(root, request[k]) = None
  <2>1. request \in Seq(Path)
    BY JsonPathAssumption DEF WalkInv, PositionInv
  <2> QED  BY <1>1, <2>1 DEF WalkInv, PositionInv, SearchInv, path
<1> DEFINE meant == {k \in DOMAIN request : Meaning(root, request[k]) # None}
           first == CHOOSE k \in meant : \A j \in meant : k <= j
<1>3. CASE Found
  <2>1. tried \in meant /\ current # None
    BY <1>1, <1>2, <1>3 DEF Found
  <2>2. \A k \in meant : tried <= k /\ k \in Nat
    <3>1. ASSUME NEW k \in meant
          PROVE  tried <= k /\ k \in Nat
      <4>1. k \in 1 .. Len(request) /\ k \notin 1 .. tried - 1
        BY <1>2
      <4> QED  BY <1>2, <4>1
    <3> QED  BY <3>1
  <2> HIDE DEF meant
  <2>3. first \in meant /\ \A j \in meant : first <= j
    BY <2>1, <2>2
  <2>4. first = tried
    <3> HIDE DEF first
    <3> QED  BY <1>2, <2>1, <2>2, <2>3
  <2>5. result' = Meaning(root, request[first]) /\ meant # {}
    BY <1>1, <1>2, <1>3, <2>1, <2>4
  <2> HIDE DEF first
  <2>6. WalkFollowsPath'
    BY <1>1, <2>5 DEF WalkFollowsPath, meant, first
  <2> QED  BY <1>1, <2>6 DEF WalkInv, PlaceInv, SearchInv
<1>4. CASE ~Found
  <2>1. meant = {}
    <3>1. ASSUME NEW k \in meant
          PROVE  FALSE
      <4>1. k \in 1 .. Len(request) /\ k \notin 1 .. tried - 1 /\ tried = Len(request)
        BY <1>1, <1>2, <1>4
      <4>2. k = tried
        BY <1>2, <4>1
      <4> QED  BY <1>1, <1>2, <1>4, <4>2
    <3> QED  BY <3>1
  <2>2. result' = None
    BY <1>1, <1>4
  <2>3. WalkFollowsPath'
    BY <1>1, <2>1, <2>2 DEF WalkFollowsPath
  <2> QED  BY <1>1, <2>3 DEF WalkInv, PlaceInv, SearchInv
<1> QED  BY <1>3, <1>4

LEMMA TryNextKeeps ==
    ASSUME WalkInv, TryNext, PositionInv'
    PROVE  PlaceInv' /\ SearchInv' /\ WalkFollowsPath'
<1>1. /\ Meaning(root, request[tried]) = None
      /\ at = "walk" /\ at' = "walk" /\ tried' = tried + 1 /\ p' = 1 /\ current' = root
      /\ UNCHANGED <<root, request, index>>
  BY FinishedMeans DEF TryNext, Finished, path
<1>2. path' \in Path
  <2>1. request' \in Seq(Path) /\ tried' \in 1 .. Len(request')
    BY JsonPathAssumption DEF PositionInv
  <2> QED  BY <2>1 DEF path
<1>3. Ahead(root, path', 1, root)
  BY <1>2, AheadAtStart DEF WalkInv, PlaceInv
<1>4. PlaceInv'
  BY <1>1, <1>3 DEF WalkInv, PlaceInv
<1>5. \A k \in 1 .. tried : Meaning(root, request[k]) = None
  <2>1. ASSUME NEW k \in 1 .. tried
        PROVE  Meaning(root, request[k]) = None
    <3>1. tried \in Nat
      BY DEF WalkInv, PositionInv
    <3>2. k = tried \/ k \in 1 .. tried - 1
      BY <3>1
    <3> QED  BY <1>1, <3>2 DEF WalkInv, SearchInv
  <2> QED  BY <2>1
<1>6. (tried + 1) - 1 = tried
  BY DEF WalkInv, PositionInv
<1>7. SearchInv'
  BY <1>1, <1>5, <1>6 DEF SearchInv
<1>8. WalkFollowsPath'
  BY <1>1 DEF WalkFollowsPath
<1> QED  BY <1>4, <1>7, <1>8

LEMMA WalkInvariance == Spec => []WalkInv
<1>1. Init => WalkInv
  <2> SUFFICES ASSUME Init PROVE WalkInv
    OBVIOUS
  <2>1. PositionInv
    BY PositionInit
  <2>2. root \in Value
    BY JsonPathAssumption DEF Init, Value
  <2>3. path \in Path
    BY <2>1, CharIs
  <2>4. Ahead(root, path, 1, root)
    BY <2>2, <2>3, AheadAtStart
  <2>5. PlaceInv
    BY <2>2, <2>4 DEF Init, PlaceInv
  <2>6. SearchInv /\ WalkFollowsPath
    BY DEF Init, SearchInv, WalkFollowsPath
  <2> QED  BY <2>1, <2>5, <2>6 DEF WalkInv
<1>2. ASSUME WalkInv, [Next]_vars
      PROVE  WalkInv'
  <2>1. PositionInv'
    BY <1>2, PositionNext DEF WalkInv
  <2>2. CASE SkipDot \/ LeaveBrackets \/ BeginKey \/ ReadKey \/ TakeMember
             \/ OpenBracket \/ ReadDigit \/ CloseBracket
    <3>1. PlaceInv'
      BY <1>2, <2>2, WalkSteps, KeySteps, BracketSteps
    <3>2. /\ UNCHANGED <<root, request, tried>>
          /\ at # "done" /\ at' # "done"
      BY <2>2 DEF SkipDot, LeaveBrackets, BeginKey, ReadKey, TakeMember, OpenBracket,
         ReadDigit, CloseBracket, Walking
    <3>3. SearchInv' /\ WalkFollowsPath'
      BY <1>2, <3>2 DEF WalkInv, SearchInv, WalkFollowsPath
    <3> QED  BY <2>1, <3>1, <3>3 DEF WalkInv
  <2>3. CASE Return
    BY <1>2, <2>1, <2>3, ReturnKeeps DEF WalkInv
  <2>4. CASE TryNext
    BY <1>2, <2>1, <2>4, TryNextKeeps DEF WalkInv
  <2>5. CASE UNCHANGED vars
    <3>1. path' = path /\ Char' = Char
      BY <2>5 DEF vars, path, Char, CharAt
    <3>2. PlaceInv'
      BY <1>2, <2>5, <3>1 DEF vars, WalkInv, PlaceInv, KeyInv, DigitsInv
    <3>3. SearchInv' /\ WalkFollowsPath'
      BY <1>2, <2>5 DEF vars, WalkInv, SearchInv, WalkFollowsPath
    <3> QED  BY <2>1, <3>2, <3>3 DEF WalkInv
  <2> QED  BY <1>2, <2>2, <2>3, <2>4, <2>5 DEF Next
<1> QED  BY <1>1, <1>2, PTL DEF Spec

\* For paths of any length and documents of any shape, what a caller gets is what
\* the first of its paths that means a string means (utils.c:152-238,
\* network.c:568-575).
THEOREM WalkFindsTheMeaning == Spec => []WalkFollowsPath
BY WalkInvariance, PTL DEF WalkInv
=============================================================================
