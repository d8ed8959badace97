------------------------------ MODULE JsonPath -------------------------------
(***************************************************************************)
(* extract_json_string (src/core/utils.c): a path such as data.urls[0] is  *)
(* walked over a JSON document, character by character, and what it leads  *)
(* to is returned if it is a string.  Its callers take a URL out of an     *)
(* answer, or the text of an error, for which they try three paths         *)
(* (src/network/network.c).                                                *)
(*                                                                         *)
(* A path is a sequence of tokens: a dot, a bracket, a digit, or a part of *)
(* a key.  The index has no upper bound here; in the code it is an int,    *)
(* which nine digits do not overflow.                                      *)
(***************************************************************************)
EXTENDS Naturals, Sequences

CONSTANTS
    Keys,       \* tokens that only occur in keys
    Lower,      \* each token in lower case
    Digits,     \* the digits: a function from tokens to their values
    Nodes,      \* the values of the documents
    Roots,      \* those that are documents
    Kind,       \* what each is: "object", "array", "string" or "scalar"
    Items,      \* its children in order, each with its name (<<>> in an array)
    Requests,   \* what callers ask for: each a sequence of paths to try
    None        \* no value: NULL

Tokens == Keys \union DOMAIN Digits \union {".", "[", "]"}

Path == Seq(Tokens)

ASSUME JsonPathAssumption ==
    /\ "NUL" \notin Tokens
    /\ Digits \in [DOMAIN Digits -> 0 .. 9]
    /\ DOMAIN Digits \intersect {".", "[", "]"} = {}
    /\ Lower \in [Tokens -> Tokens]
    /\ Roots \subseteq Nodes
    /\ None \notin Nodes
    /\ Kind \in [Nodes -> {"object", "array", "string", "scalar"}]
    /\ Items \in [Nodes -> Seq([name : Path, node : Nodes])]
    /\ Requests \subseteq Seq(Path) \ {<<>>}

VARIABLES
    root,       \* the document, None if it cannot be parsed
    request,    \* the paths the caller tries until one leads to a string
    tried,      \* how many it has begun
    at,         \* where in the loops of extract_json_string it is
    p,          \* the position it reads
    keyStart,   \* key_start
    index,      \* index
    current,    \* current
    result      \* what the caller has in the end

vars == <<root, request, tried, at, p, keyStart, index, current, result>>

TypeOK ==
    /\ root \in Roots \union {None}
    /\ request \in Requests
    /\ tried \in 1 .. Len(request)
    /\ at \in {"walk", "key", "brackets", "digits", "done"}
    /\ p \in Nat \ {0}
    /\ keyStart \in 1 .. p
    /\ index \in Nat
    /\ current \in Nodes \union {None}
    /\ result \in Nodes \union {None}

path == request[tried]

\* What a read at position i finds: the NUL after the last character too.
CharAt(i) == IF i <= Len(path) THEN path[i] ELSE "NUL"

Char == CharAt(p)

IsDigit(c) == c \in DOMAIN Digits

-----------------------------------------------------------------------------
(* cJSON.                                                                  *)

SameKey(name, key) ==
    /\ Len(name) = Len(key)
    /\ \A i \in DOMAIN key : Lower[name[i]] = Lower[key[i]]

\* cJSON_GetObjectItem: the first child of that name.
GetObjectItem(node, key) ==
    LET found == {k \in DOMAIN Items[node] : SameKey(Items[node][k].name, key)}
    IN  IF found = {}
        THEN None
        ELSE Items[node][CHOOSE k \in found : \A j \in found : k <= j].node

\* cJSON_GetArrayItem, where there is one.
GetArrayItem(node, i) ==
    IF i < Len(Items[node]) THEN Items[node][i + 1].node ELSE None

-----------------------------------------------------------------------------

Init ==
    /\ root \in Roots \union {None}
    /\ request \in Requests
    /\ tried = 1
    /\ at = "walk"
    /\ p = 1
    /\ keyStart = 1
    /\ index = 0
    /\ current = root
    /\ result = None

Walking == at = "walk" /\ current # None /\ Char # "NUL"

SkipDot ==
    /\ Walking
    /\ Char = "."
    /\ p' = p + 1
    /\ UNCHANGED <<root, request, tried, at, keyStart, index, current, result>>

BeginKey ==
    /\ Walking
    /\ Char \notin {".", "["}
    /\ keyStart' = p
    /\ at' = "key"
    /\ UNCHANGED <<root, request, tried, p, index, current, result>>

ReadKey ==
    /\ at = "key"
    /\ Char \notin {".", "[", "NUL"}
    /\ p' = p + 1
    /\ UNCHANGED <<root, request, tried, at, keyStart, index, current, result>>

\* Mutant of TakeMember: the last character of the key is left out.
TakeMemberOneShort ==
    /\ at = "key"
    /\ Char \in {".", "[", "NUL"}
    /\ current' = GetObjectItem(current, SubSeq(path, keyStart, p - 2))
    /\ at' = "brackets"
    /\ UNCHANGED <<root, request, tried, p, keyStart, index, result>>

TakeMember ==
    /\ at = "key"
    /\ Char \in {".", "[", "NUL"}
    /\ current' = GetObjectItem(current, SubSeq(path, keyStart, p - 1))
    /\ at' = "brackets"
    /\ UNCHANGED <<root, request, tried, p, keyStart, index, result>>

\* A path may begin with a bracket: the document is an array then.
OpenBracket ==
    /\ Walking \/ (at = "brackets" /\ current # None)
    /\ Char = "["
    /\ p' = p + 1
    /\ IF IsDigit(CharAt(p + 1))
       THEN at' = "digits" /\ index' = 0 /\ UNCHANGED current
       ELSE at' = "brackets" /\ current' = None /\ UNCHANGED index
    /\ UNCHANGED <<root, request, tried, keyStart, result>>

ReadDigit ==
    /\ at = "digits"
    /\ IsDigit(Char)
    /\ index' = index * 10 + Digits[Char]
    /\ p' = p + 1
    /\ UNCHANGED <<root, request, tried, at, keyStart, current, result>>

\* Mutant of CloseBracket: nobody looks at whether there is a bracket.
CloseAnything ==
    /\ at = "digits"
    /\ ~IsDigit(Char)
    /\ at' = "brackets"
    /\ p' = p + 1
    /\ current' = IF Kind[current] = "array" THEN GetArrayItem(current, index) ELSE None
    /\ UNCHANGED <<root, request, tried, keyStart, index, result>>

CloseBracket ==
    /\ at = "digits"
    /\ ~IsDigit(Char)
    /\ at' = "brackets"
    /\ IF Char = "]"
       THEN /\ p' = p + 1
            /\ current' = IF Kind[current] = "array"
                          THEN GetArrayItem(current, index)
                          ELSE None
       ELSE current' = None /\ UNCHANGED p
    /\ UNCHANGED <<root, request, tried, keyStart, index, result>>

LeaveBrackets ==
    /\ at = "brackets"
    /\ current = None \/ Char # "["
    /\ at' = "walk"
    /\ UNCHANGED <<root, request, tried, p, keyStart, index, current, result>>

Finished == at = "walk" /\ (current = None \/ Char = "NUL")

Found == current # None /\ Kind[current] = "string"

Return ==
    /\ Finished
    /\ Found \/ tried = Len(request)
    /\ result' = IF Found THEN current ELSE None
    /\ at' = "done"
    /\ UNCHANGED <<root, request, tried, p, keyStart, index, current>>

TryNext ==
    /\ Finished
    /\ ~Found
    /\ tried < Len(request)
    /\ tried' = tried + 1
    /\ p' = 1
    /\ keyStart' = 1
    /\ current' = root
    /\ UNCHANGED <<root, request, at, index, result>>

Next ==
    \/ SkipDot
    \/ BeginKey
    \/ ReadKey
    \/ TakeMember
    \/ OpenBracket
    \/ ReadDigit
    \/ CloseBracket
    \/ LeaveBrackets
    \/ Return
    \/ TryNext

Spec == Init /\ [][Next]_vars

-----------------------------------------------------------------------------
(* What a path means: it is cut before each dot and each opening bracket,  *)
(* and each piece is a step from a value to one inside it.                 *)

CutAt(s, i) == i = 1 \/ s[i] \in {".", "["}

LastCut(s, i) ==
    CHOOSE b \in 1 .. i - 1 : CutAt(s, b) /\ \A j \in b + 1 .. i - 1 : ~CutAt(s, j)

ByKey(node, key) ==
    IF node = None \/ key = <<>> THEN node ELSE GetObjectItem(node, key)

Number[d \in Seq(DOMAIN Digits)] ==
    IF d = <<>>
    THEN 0
    ELSE Number[SubSeq(d, 1, Len(d) - 1)] * 10 + Digits[d[Len(d)]]

\* The piece is a bracket with a number in it, and what follows it is a key.
ByIndex(node, piece) ==
    LET ends == {k \in 3 .. Len(piece) :
                    piece[k] = "]" /\ \A i \in 2 .. k - 1 : IsDigit(piece[i])}
    IN  IF node = None \/ ends = {} \/ Kind[node] # "array"
        THEN None
        ELSE LET end == CHOOSE k \in ends : TRUE
             IN  ByKey(GetArrayItem(node, Number[SubSeq(piece, 2, end - 1)]),
                       SubSeq(piece, end + 1, Len(piece)))

StepInto(node, piece) ==
    CASE piece[1] = "[" -> ByIndex(node, piece)
      [] piece[1] = "." -> ByKey(node, Tail(piece))
      [] OTHER -> ByKey(node, piece)

\* What the part of a path before position i leads to, from the document r.
Reached(r, s) ==
    LET reached[i \in 1 .. Len(s) + 1] ==
            IF i = 1
            THEN r
            ELSE StepInto(reached[LastCut(s, i)], SubSeq(s, LastCut(s, i), i - 1))
    IN  reached

Meaning(r, s) ==
    LET end == Reached(r, s)[Len(s) + 1]
    IN  IF end # None /\ Kind[end] = "string" THEN end ELSE None

-----------------------------------------------------------------------------
(* Properties.                                                             *)

\* No path, however its dots, brackets and digits are placed, makes the walk
\* read past the NUL that ends it (utils.c:155-225).
ReadsWithinPath == p <= Len(path) + 1

\* What a caller gets is what the first of its paths that means a string means,
\* whatever the path and the document (utils.c:152-238, network.c:568-575).
WalkFollowsPath ==
    at = "done" =>
        LET meant == {k \in DOMAIN request : Meaning(root, request[k]) # None}
        IN  result = IF meant = {}
                     THEN None
                     ELSE Meaning(root, request[CHOOSE k \in meant : \A j \in meant : k <= j])
=============================================================================
