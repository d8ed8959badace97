--------------------------- MODULE HostLifeProofs ----------------------------
(***************************************************************************)
(* UploadsFollowTheAnswers and EditorsKeepHostsUsable for any number of    *)
(* values entered.                                                         *)
(***************************************************************************)
EXTENDS HostLife, TLAPS

-----------------------------------------------------------------------------
(* The inductive invariant.                                                *)

\* What became of a text that was entered: it is as it was, or parse_host_config
\* has dropped it, or a dialog has cut it.
Descends(v, entered) ==
    \/ v = entered
    \/ v = Null /\ entered.size \in {"empty", "long"}
    \/ v = Sized("cut") /\ entered.size = "wide"

Agrees(h, entered) ==
    /\ \/ h.auth_type = entered.auth_type
       \/ h.auth_type = "null" /\ entered.auth_type \in {"empty", "long"}
    /\ \A f \in TextFields : Descends(h.text[f], entered.text[f])

\* Nobody enters a text that is cut.
Enterable(h) == \A f \in TextFields : h.text[f].size # "cut"

AgreeInv ==
    /\ file # NoHost => Agrees(file, asked) /\ Enterable(asked)
    /\ session # "none" =>
          /\ memory \in Host /\ typed \in Host /\ file # NoHost
          /\ Agrees(memory, typed) /\ Enterable(typed)

\* An upload can use it.
Sound(h) ==
    /\ h.text["api_endpoint"].size = "fits"
    /\ h.text["file_form_field"].size = "fits"
    /\ h.auth_type \in {"none", "bearer", "header"}

PlainInv ==
    plain => /\ file # NoHost => Sound(file)
             /\ session # "none" => Sound(memory)

LInv ==
    /\ TypeOK
    /\ AgreeInv
    /\ UploadsFollowTheAnswers
    /\ PlainInv
    /\ EditorsKeepHostsUsable

-----------------------------------------------------------------------------
(* Texts and hosts.                                                        *)

LEMMA TextTypes ==
    /\ \A s \in {"null", "empty", "wide", "long", "cut"} :
          Sized(s) \in Text /\ Sized(s).size = s
    /\ \A n \in 0 .. MaxEntries : Fits(n) \in Text /\ Fits(n).size = "fits"
    /\ Null \in Text /\ Null.size = "null"
BY DEF Text, Sized, Fits, Null

\* Only one text has the size "null".
LEMMA NullIsOne ==
    ASSUME NEW v \in Text
    PROVE  v = Null <=> v.size = "null"
BY DEF Text, Sized, Null

LEMMA ParsedType ==
    ASSUME NEW h \in Host
    PROVE  /\ Parsed(h) \in Host
           /\ Parsed(h).auth_type =
                  IF h.auth_type \in {"empty", "long"} THEN "null" ELSE h.auth_type
           /\ \A f \in TextFields :
                  Parsed(h).text[f] =
                      IF h.text[f].size \in {"empty", "long"} THEN Null ELSE h.text[f]
BY TextTypes DEF Parsed, Host, AuthTypes

\* Loading the host agrees with what was entered, as the file did.
LEMMA ParsedAgrees ==
    ASSUME NEW h \in Host, NEW e \in Host, Agrees(h, e)
    PROVE  Agrees(Parsed(h), e)
<1>1. ASSUME NEW f \in TextFields
      PROVE  Descends(Parsed(h).text[f], e.text[f])
  <2>1. Descends(h.text[f], e.text[f])
    BY DEF Agrees
  <2> QED  BY <2>1, TextTypes, ParsedType DEF Descends
<1> QED  BY <1>1, ParsedType DEF Agrees

LEMMA ParsedSound ==
    ASSUME NEW h \in Host, Sound(h)
    PROVE  Sound(Parsed(h))
BY ParsedType DEF Sound, TextFields

\* What is entered agrees with itself.
LEMMA SetText ==
    ASSUME NEW h \in Host, NEW f \in TextFields, NEW v \in Text
    PROVE  /\ [h EXCEPT !.text[f] = v] \in Host
           /\ [h EXCEPT !.text[f] = v].auth_type = h.auth_type
           /\ \A g \in TextFields :
                 [h EXCEPT !.text[f] = v].text[g] = IF g = f THEN v ELSE h.text[g]
BY DEF Host

LEMMA SetAuth ==
    ASSUME NEW h \in Host, NEW a \in AuthTypes
    PROVE  /\ [h EXCEPT !.auth_type = a] \in Host
           /\ [h EXCEPT !.auth_type = a].auth_type = a
           /\ [h EXCEPT !.auth_type = a].text = h.text
BY DEF Host

LEMMA AddedType ==
    ASSUME NEW h \in Host, Enterable(h)
    PROVE  /\ Added(h) \in Host
           /\ Agrees(Added(h), Added(h))
           /\ Enterable(Added(h))
           /\ Sound(h) => Sound(Added(h))
<1>1. CASE h.auth_type = "none"
  <2> DEFINE g == [h EXCEPT !.text["api_key_name"] = Null]
             k == [g EXCEPT !.text["api_key"] = Null]
  <2>1. "api_key_name" \in TextFields /\ "api_key" \in TextFields /\ Null \in Text
        /\ Null.size = "null"
    BY TextTypes DEF TextFields
  <2>2. /\ g \in Host /\ g.auth_type = "none"
        /\ \A f \in TextFields : g.text[f] = IF f = "api_key_name" THEN Null ELSE h.text[f]
    BY <1>1, <2>1, SetText
  <2> HIDE DEF g
  <2>3. /\ k \in Host /\ k.auth_type = "none"
        /\ \A f \in TextFields :
              k.text[f] = IF f \in {"api_key_name", "api_key"} THEN Null ELSE h.text[f]
    BY <2>1, <2>2, SetText
  <2>4. Added(h) = k
    BY <1>1 DEF Added, g
  <2> HIDE DEF k
  <2> QED  BY <2>1, <2>3, <2>4 DEF Enterable, Agrees, Descends, Sound, TextFields
<1>2. CASE h.auth_type # "none"
  BY <1>2 DEF Added, Enterable, Agrees, Descends
<1> QED  BY <1>1, <1>2

LEMMA AnswersAreTexts ==
    ASSUME NEW f \in TextFields, TypeOK
    PROVE  /\ Answers(f) \subseteq Text
           /\ AnyText(f) \subseteq Text
           /\ \A v \in Answers(f) \union AnyText(f) : v.size # "cut"
           /\ f = "api_endpoint" => Answers(f) = {Fits(entries)}
BY TextTypes DEF Answers, AnyText, TypeOK

-----------------------------------------------------------------------------
(* The steps.                                                              *)

LEMMA LInit == Init => LInv
<1> SUFFICES ASSUME Init
             PROVE  LInv
  OBVIOUS
<1> USE DEF Init
<1>1. /\ Nothing \in [kind : {NoOutcome, "undefined", "error", "sent"},
                      host : Host \union {NoHost}]
      /\ Nothing.kind = NoOutcome /\ NoOutcome # "undefined"
  BY DEF Nothing, NoOutcome
<1>2. TypeOK
  <2>1. outcome \in [kind : {NoOutcome, "undefined", "error", "sent"},
                     host : Host \union {NoHost}]
    BY <1>1
  <2>2. 0 \in 0 .. MaxEntries
    BY HostLifeAssumption
  <2>3. /\ plain \in BOOLEAN /\ modified \in BOOLEAN
        /\ session \in {"none", "line", "tui"}
        /\ origin \in {"nothing", "prompts", "preset", "import", "edited"}
    OBVIOUS
  <2>4. NoHost \in Host \union {NoHost}
    OBVIOUS
  <2> QED  BY <2>1, <2>2, <2>3, <2>4, Zenon DEF TypeOK
<1>3. AgreeInv /\ PlainInv
  BY DEF AgreeInv, PlainInv
<1>4. UploadsFollowTheAnswers /\ EditorsKeepHostsUsable
  BY <1>1 DEF UploadsFollowTheAnswers, EditorsKeepHostsUsable
<1> QED  BY <1>2, <1>3, <1>4 DEF LInv

LEMMA NothingHolds ==
    ASSUME outcome' = Nothing
    PROVE  /\ UploadsFollowTheAnswers' /\ EditorsKeepHostsUsable'
           /\ outcome' \in [kind : {NoOutcome, "undefined", "error", "sent"},
                            host : Host \union {NoHost}]
BY DEF Nothing, NoOutcome, UploadsFollowTheAnswers, EditorsKeepHostsUsable

\* Whatever adds the host, it is in the file as it was entered.
LEMMA AddKeeps ==
    ASSUME LInv, CanAdd, NEW h \in Host, Enterable(h),
           NEW by \in {"prompts", "preset", "import"}, Add(h, by),
           by # "import" => /\ h.text["api_endpoint"].size # "null"
                            /\ h.text["file_form_field"].size # "null"
                            /\ h.auth_type \in {"none", "bearer", "header", "param"}
    PROVE  LInv'
<1> USE DEF LInv, Add, CanAdd
<1>1. TypeOK'
  BY AddedType, NothingHolds, NoHostAssumption DEF TypeOK
<1>2. AgreeInv'
  BY AddedType DEF AgreeInv
<1>3. PlainInv'
  <2>1. ASSUME plain'
        PROVE  Sound(h)
    BY <2>1 DEF AllFit, Sound, TextFields
  <2> QED  BY <2>1, AddedType DEF PlainInv
<1> QED  BY <1>1, <1>2, <1>3, NothingHolds

LEMMA AddHostKeeps ==
    ASSUME LInv, AddByPrompts \/ AddPreset \/ ImportHost
    PROVE  LInv'
<1>1. CanAdd /\ TypeOK /\ entries \in 0 .. MaxEntries
  BY DEF AddByPrompts, AddPreset, ImportHost, LInv, TypeOK
<1>2. /\ "api_endpoint" \in TextFields /\ "file_form_field" \in TextFields
      /\ Fits(entries) \in Text /\ Fits(entries).size = "fits"
      /\ Sized("long") \in Text /\ Sized("long").size = "long"
  BY <1>1, TextTypes DEF TextFields
<1>3. CASE AddByPrompts
  <2>1. PICK auth \in {"none", "bearer", "header", "param"},
             text \in [TextFields -> {Fits(entries), Sized("long")}] :
                Add([auth_type |-> auth, text |-> text], "prompts")
    BY <1>3 DEF AddByPrompts
  <2> DEFINE h == [auth_type |-> auth, text |-> text]
  <2>2. /\ h \in Host /\ Enterable(h) /\ h.auth_type = auth
        /\ \A f \in TextFields : h.text[f].size # "null"
    BY <1>2 DEF Host, AuthTypes, Enterable
  <2> HIDE DEF h
  <2>3. Add(h, "prompts")
    BY <2>1 DEF h
  <2> QED  BY <1>1, <1>2, <2>2, <2>3, AddKeeps
<1>4. CASE AddPreset
  <2>1. PICK auth \in {"param", "bearer", "none"} :
            Add([auth_type |-> auth, text |-> [f \in TextFields |-> Fits(entries)]], "preset")
    BY <1>4 DEF AddPreset
  <2> DEFINE h == [auth_type |-> auth, text |-> [f \in TextFields |-> Fits(entries)]]
  <2>2. /\ h \in Host /\ Enterable(h) /\ h.auth_type = auth
        /\ \A f \in TextFields : h.text[f].size # "null"
    BY <1>2 DEF Host, AuthTypes, Enterable
  <2> HIDE DEF h
  <2>3. Add(h, "preset")
    BY <2>1 DEF h
  <2> QED  BY <1>1, <1>2, <2>2, <2>3, AddKeeps
<1>5. CASE ImportHost
  <2>1. PICK auth \in {"none", "bearer", "header"},
             text \in [TextFields -> UNION {AnyText(f) : f \in TextFields}] :
                /\ \A f \in TextFields : text[f] \in AnyText(f)
                /\ Add([auth_type |-> auth, text |-> text], "import")
    BY <1>5 DEF ImportHost
  <2> DEFINE h == [auth_type |-> auth, text |-> text]
  <2>2. \A f \in TextFields : text[f] \in Text /\ text[f].size # "cut"
    BY <1>1, <2>1, AnswersAreTexts
  <2>3. h \in Host /\ Enterable(h)
    <3>1. text \in [TextFields -> Text]
      BY <2>1, <2>2
    <3> QED  BY <2>2, <3>1 DEF Host, AuthTypes, Enterable
  <2> HIDE DEF h
  <2>4. Add(h, "import")
    BY <2>1 DEF h
  <2> QED  BY <1>1, <2>3, <2>4, AddKeeps
<1> QED  BY <1>3, <1>4, <1>5

LEMMA OpenKeeps ==
    ASSUME LInv, OpenEditor
    PROVE  LInv'
<1> USE DEF LInv, OpenEditor
<1>1. /\ file \in Host /\ asked \in Host /\ Parsed(file) \in Host /\ Parsed(file) # NoHost
      /\ Agrees(Parsed(file), asked)
      /\ plain => Sound(Parsed(file))
  BY ParsedType, ParsedAgrees, ParsedSound, NoHostAssumption DEF TypeOK, AgreeInv, PlainInv
<1>2. TypeOK'
  BY <1>1 DEF TypeOK
<1>3. AgreeInv'
  BY <1>1 DEF AgreeInv
<1>4. PlainInv'
  BY <1>1 DEF PlainInv
<1>5. UploadsFollowTheAnswers' /\ EditorsKeepHostsUsable'
  BY DEF UploadsFollowTheAnswers, EditorsKeepHostsUsable
<1> QED  BY <1>2, <1>3, <1>4, <1>5

LEMMA EnterTextKeeps ==
    ASSUME LInv, EnterText
    PROVE  LInv'
<1> USE DEF LInv
<1>1. PICK f \in TextFields :
          \E v \in {Fits(entries')} \union (Answers(f) \ {Fits(entries)}) :
             /\ memory' = [memory EXCEPT !.text[f] = v]
             /\ typed' = [typed EXCEPT !.text[f] = v]
             /\ plain' = (plain /\ v.size = "fits")
  BY DEF EnterText
<1>2. PICK v \in {Fits(entries')} \union (Answers(f) \ {Fits(entries)}) :
          /\ memory' = [memory EXCEPT !.text[f] = v]
          /\ typed' = [typed EXCEPT !.text[f] = v]
          /\ plain' = (plain /\ v.size = "fits")
  BY <1>1
<1>3. /\ memory \in Host /\ typed \in Host /\ file # NoHost /\ session # "none"
      /\ UNCHANGED <<file, session, asked, origin, outcome>> /\ modified' = TRUE
      /\ entries \in 0 .. MaxEntries /\ entries' = entries + 1 /\ entries < MaxEntries
  BY DEF EnterText, CanEnter, AgreeInv, TypeOK
<1>4. entries' \in 0 .. MaxEntries
  BY <1>3, HostLifeAssumption
<1>5. v \in Text /\ v.size # "cut"
  BY <1>4, TextTypes, AnswersAreTexts
<1>6. /\ memory' \in Host /\ memory'.auth_type = memory.auth_type
      /\ \A g \in TextFields : memory'.text[g] = IF g = f THEN v ELSE memory.text[g]
  BY <1>2, <1>3, <1>5, SetText
<1>7. /\ typed' \in Host /\ typed'.auth_type = typed.auth_type
      /\ \A g \in TextFields : typed'.text[g] = IF g = f THEN v ELSE typed.text[g]
  BY <1>2, <1>3, <1>5, SetText
<1>8. plain \in BOOLEAN
  BY DEF TypeOK
<1>9. plain' \in BOOLEAN /\ (plain' => plain /\ v.size = "fits")
  BY <1>2, <1>8, Zenon
<1>10. TypeOK'
  BY <1>3, <1>4, <1>6, <1>7, <1>9, NoHostAssumption DEF TypeOK
<1>11. AgreeInv'
  BY <1>3, <1>5, <1>6, <1>7 DEF AgreeInv, Agrees, Enterable, Descends
<1>12. PlainInv'
  <2>1. ASSUME plain'
        PROVE  Sound(memory')
    <3>1. Sound(memory) /\ v.size = "fits"
      BY <1>3, <1>9, <2>1 DEF PlainInv
    <3> QED  BY <1>6, <3>1 DEF Sound, TextFields
  <2>2. ASSUME plain'
        PROVE  Sound(file')
    BY <1>3, <1>9, <2>2 DEF PlainInv
  <2> QED  BY <2>1, <2>2 DEF PlainInv
<1>13. UploadsFollowTheAnswers' /\ EditorsKeepHostsUsable'
  BY <1>3, <1>9 DEF UploadsFollowTheAnswers, EditorsKeepHostsUsable
<1> QED  BY <1>10, <1>11, <1>12, <1>13

LEMMA EnterAuthKeeps ==
    ASSUME LInv, EnterAuth
    PROVE  LInv'
<1> USE DEF LInv
<1>1. PICK auth \in {"none", "bearer", "header"} :
          /\ memory' = [memory EXCEPT !.auth_type = auth]
          /\ typed' = [typed EXCEPT !.auth_type = auth]
  BY DEF EnterAuth
<1>2. /\ memory \in Host /\ typed \in Host /\ file # NoHost /\ session # "none"
      /\ UNCHANGED <<file, session, asked, plain, origin, outcome>> /\ modified' = TRUE
      /\ auth \in AuthTypes
      /\ entries \in 0 .. MaxEntries /\ entries' = entries + 1 /\ entries < MaxEntries
  BY DEF EnterAuth, CanEnter, AgreeInv, TypeOK, AuthTypes
<1>3. /\ memory' \in Host /\ memory'.auth_type = auth /\ memory'.text = memory.text
      /\ typed' \in Host /\ typed'.auth_type = auth /\ typed'.text = typed.text
  BY <1>1, <1>2, SetAuth
<1>4. TypeOK'
  BY <1>2, <1>3, HostLifeAssumption, NoHostAssumption DEF TypeOK
<1>5. AgreeInv'
  BY <1>2, <1>3 DEF AgreeInv, Agrees, Enterable
<1>6. PlainInv'
  BY <1>2, <1>3 DEF PlainInv, Sound
<1>7. UploadsFollowTheAnswers' /\ EditorsKeepHostsUsable'
  BY <1>2 DEF UploadsFollowTheAnswers, EditorsKeepHostsUsable
<1> QED  BY <1>4, <1>5, <1>6, <1>7

LEMMA KeepTextKeeps ==
    ASSUME LInv, KeepText
    PROVE  LInv'
<1> USE DEF LInv
<1>1. /\ memory \in Host /\ typed \in Host /\ file # NoHost /\ session # "none"
      /\ UNCHANGED <<file, session, typed, asked, plain, origin, entries, outcome>>
      /\ modified' = TRUE
  BY DEF KeepText, AgreeInv, TypeOK
<1>2. Sized("cut") \in Text /\ Sized("cut").size = "cut"
  BY TextTypes
<1>3. /\ memory' \in Host /\ memory'.auth_type = memory.auth_type
      /\ \A g \in TextFields :
            \/ memory'.text[g] = memory.text[g]
            \/ memory.text[g].size = "wide" /\ memory'.text[g] = Sized("cut")
  <2>1. CASE memory' = memory
    BY <1>1, <2>1
  <2>2. CASE memory' # memory
    <3>1. PICK f \in TextFields :
            /\ memory.text[f].size = "wide"
            /\ memory' = [memory EXCEPT !.text[f] = Sized("cut")]
      BY <2>2 DEF KeepText
    <3> QED  BY <1>1, <1>2, <3>1, SetText
  <2> QED  BY <2>1, <2>2
<1>4. TypeOK'
  BY <1>1, <1>3, NoHostAssumption DEF TypeOK
<1>5. AgreeInv'
  <2>1. ASSUME NEW g \in TextFields
        PROVE  Descends(memory'.text[g], typed.text[g])
    <3>1. Descends(memory.text[g], typed.text[g])
      BY <1>1 DEF AgreeInv, Agrees
    <3> QED  BY <1>2, <1>3, <3>1, TextTypes DEF Descends
  <2> QED  BY <1>1, <1>3, <2>1 DEF AgreeInv, Agrees
<1>6. PlainInv'
  BY <1>1, <1>3 DEF PlainInv, Sound, TextFields
<1>7. UploadsFollowTheAnswers' /\ EditorsKeepHostsUsable'
  BY <1>1 DEF UploadsFollowTheAnswers, EditorsKeepHostsUsable
<1> QED  BY <1>4, <1>5, <1>6, <1>7

LEMMA EndKeeps ==
    ASSUME LInv, CloseEditor \/ LoseEdits
    PROVE  LInv'
<1> USE DEF LInv, CloseEditor, LoseEdits
<1>1. session # "none" /\ memory \in Host /\ typed \in Host
      /\ memory # NoHost /\ typed # NoHost /\ file # NoHost
  BY NoHostAssumption DEF AgreeInv
<1>2. CASE CloseEditor /\ modified
  <2>1. TypeOK'
    BY <1>1, <1>2, NothingHolds DEF TypeOK
  <2>2. AgreeInv' /\ PlainInv'
    BY <1>1, <1>2 DEF AgreeInv, PlainInv
  <2> QED  BY <1>2, <2>1, <2>2, NothingHolds
<1>3. CASE LoseEdits \/ (CloseEditor /\ ~modified)
  <2>1. TypeOK'
    BY <1>3 DEF TypeOK
  <2>2. AgreeInv' /\ PlainInv'
    BY <1>3 DEF AgreeInv, PlainInv
  <2>3. UploadsFollowTheAnswers' /\ EditorsKeepHostsUsable'
    BY <1>3 DEF UploadsFollowTheAnswers, EditorsKeepHostsUsable
  <2> QED  BY <2>1, <2>2, <2>3
<1> QED  BY <1>2, <1>3

LEMMA ConfigSetKeeps ==
    ASSUME LInv, ConfigSet
    PROVE  LInv'
<1> USE DEF LInv
<1>1. /\ session = "none" /\ file \in Host /\ asked \in Host /\ plain' = FALSE
      /\ UNCHANGED <<session, memory, modified, typed>> /\ outcome' = Nothing
      /\ origin' = "edited"
      /\ entries \in 0 .. MaxEntries /\ entries' = entries + 1 /\ entries < MaxEntries
  BY DEF ConfigSet, TypeOK
<1>2. entries' \in 0 .. MaxEntries
  BY <1>1, HostLifeAssumption
<1>3. /\ Parsed(file) \in Host /\ Agrees(Parsed(file), asked) /\ Enterable(asked)
  BY <1>1, ParsedType, ParsedAgrees, NoHostAssumption DEF AgreeInv
<1>4. file' \in Host /\ asked' \in Host /\ Agrees(file', asked') /\ Enterable(asked')
  <2>1. ASSUME NEW f \in TextFields,
               \E v \in {Fits(entries')} \union (AnyText(f) \ {Fits(entries)}) :
                  /\ file' = [Parsed(file) EXCEPT !.text[f] = v]
                  /\ asked' = [asked EXCEPT !.text[f] = v]
        PROVE  file' \in Host /\ asked' \in Host /\ Agrees(file', asked') /\ Enterable(asked')
    <3>1. PICK v \in {Fits(entries')} \union (AnyText(f) \ {Fits(entries)}) :
                  /\ file' = [Parsed(file) EXCEPT !.text[f] = v]
                  /\ asked' = [asked EXCEPT !.text[f] = v]
      BY <2>1
    <3>2. v \in Text /\ v.size # "cut"
      BY <1>2, TextTypes, AnswersAreTexts
    <3>3. /\ file' \in Host /\ file'.auth_type = Parsed(file).auth_type
          /\ \A g \in TextFields :
                file'.text[g] = IF g = f THEN v ELSE Parsed(file).text[g]
      BY <1>3, <3>1, <3>2, SetText
    <3>4. /\ asked' \in Host /\ asked'.auth_type = asked.auth_type
          /\ \A g \in TextFields : asked'.text[g] = IF g = f THEN v ELSE asked.text[g]
      BY <1>1, <3>1, <3>2, SetText
    <3> QED  BY <1>3, <3>2, <3>3, <3>4 DEF Agrees, Enterable, Descends
  <2>2. ASSUME NEW auth \in AuthTypes,
               file' = [Parsed(file) EXCEPT !.auth_type = auth],
               asked' = [asked EXCEPT !.auth_type = auth]
        PROVE  file' \in Host /\ asked' \in Host /\ Agrees(file', asked') /\ Enterable(asked')
    <3>1. file' \in Host /\ file'.auth_type = auth /\ file'.text = Parsed(file).text
      BY <1>3, <2>2, SetAuth
    <3>2. asked' \in Host /\ asked'.auth_type = auth /\ asked'.text = asked.text
      BY <1>1, <2>2, SetAuth
    <3> QED  BY <1>3, <3>1, <3>2 DEF Agrees, Enterable
  <2> QED  BY <2>1, <2>2 DEF ConfigSet
<1>5. TypeOK'
  BY <1>1, <1>2, <1>4, NothingHolds, NoHostAssumption DEF TypeOK
<1>6. AgreeInv' /\ PlainInv'
  BY <1>1, <1>4 DEF AgreeInv, PlainInv
<1> QED  BY <1>1, <1>5, <1>6, NothingHolds

LEMMA FileKeeps ==
    ASSUME LInv, SaveOther \/ RemoveHost
    PROVE  LInv'
<1> USE DEF LInv
<1>1. CASE SaveOther
  <2>1. /\ session = "none" /\ file \in Host /\ file' = Parsed(file)
        /\ UNCHANGED <<session, memory, modified, typed, asked, plain, origin, entries, outcome>>
    BY <1>1 DEF SaveOther, TypeOK
  <2>2. /\ file' \in Host /\ Agrees(file', asked) /\ Enterable(asked) /\ asked \in Host
        /\ plain => Sound(file')
    BY <2>1, ParsedType, ParsedAgrees, ParsedSound, NoHostAssumption
       DEF AgreeInv, PlainInv, TypeOK
  <2>3. TypeOK'
    BY <2>1, <2>2, NoHostAssumption DEF TypeOK
  <2>4. AgreeInv' /\ PlainInv'
    BY <2>1, <2>2 DEF AgreeInv, PlainInv
  <2>5. UploadsFollowTheAnswers' /\ EditorsKeepHostsUsable'
    BY <2>1 DEF UploadsFollowTheAnswers, EditorsKeepHostsUsable
  <2> QED  BY <2>3, <2>4, <2>5
<1>2. CASE RemoveHost
  <2> USE DEF RemoveHost
  <2>1. TypeOK'
    BY <1>2, NothingHolds DEF TypeOK
  <2>2. AgreeInv' /\ PlainInv'
    BY <1>2 DEF AgreeInv, PlainInv
  <2> QED  BY <1>2, <2>1, <2>2, NothingHolds
<1> QED  BY <1>1, <1>2

\* What an upload reads of a text is there exactly if the text entered can be
\* used.
LEMMA ReadText ==
    ASSUME NEW h \in Host, NEW e \in Host, Agrees(h, e), Enterable(e), NEW f \in TextFields
    PROVE  /\ Parsed(h).text[f] # Null <=> IsUsable(e.text[f])
           /\ IsUsable(e.text[f]) =>
                 \/ Parsed(h).text[f] = e.text[f]
                 \/ e.text[f].size = "wide" /\ Parsed(h).text[f].size = "cut"
<1>1. /\ Descends(Parsed(h).text[f], e.text[f])
      /\ Parsed(h).text[f] \in Text /\ e.text[f] \in Text
      /\ Parsed(h).text[f].size \notin {"empty", "long"}
      /\ e.text[f].size \in {"null", "empty", "wide", "long", "fits"}
  <2>1. Parsed(h) \in Host /\ Agrees(Parsed(h), e)
    BY ParsedType, ParsedAgrees
  <2>2. /\ Parsed(h).text[f] \in Text /\ e.text[f] \in Text /\ h.text[f] \in Text
        /\ e.text[f].size # "cut"
    BY <2>1 DEF Host, Enterable
  <2>3. Parsed(h).text[f].size \notin {"empty", "long"}
    BY ParsedType, TextTypes
  <2>4. e.text[f].size \in {"null", "empty", "wide", "long", "fits"}
    BY <2>2 DEF Text
  <2> QED  BY <2>1, <2>2, <2>3, <2>4 DEF Agrees
<1>2. Sized("cut").size = "cut" /\ Null.size = "null"
  BY TextTypes
<1>3. Parsed(h).text[f] # Null <=> Parsed(h).text[f].size # "null"
  BY <1>1, NullIsOne
<1> QED  BY <1>1, <1>2, <1>3 DEF Descends, IsUsable

LEMMA UploadKeeps ==
    ASSUME LInv, Upload
    PROVE  LInv'
<1> USE DEF LInv
<1> DEFINE h == Parsed(file)
<1>1. /\ session = "none" /\ file # NoHost
      /\ UNCHANGED <<file, session, memory, modified, typed, asked, plain, origin, entries>>
      /\ outcome' = CASE Rejected(h) -> [kind |-> "undefined", host |-> NoHost]
                      [] ~Rejected(h) /\ LacksKey(h) -> [kind |-> "error", host |-> NoHost]
                      [] OTHER -> [kind |-> "sent", host |-> h]
  BY DEF Upload
<1>2. file \in Host /\ asked \in Host /\ Agrees(file, asked) /\ Enterable(asked)
  BY <1>1, NoHostAssumption DEF TypeOK, AgreeInv
<1>3. /\ h \in Host /\ Agrees(h, asked)
      /\ plain => Sound(h)
      /\ h.auth_type \notin {"empty", "long"}
  BY <1>1, <1>2, ParsedType, ParsedAgrees, ParsedSound DEF PlainInv
<1>4. \A f \in TextFields :
         /\ h.text[f] # Null <=> IsUsable(asked.text[f])
         /\ IsUsable(asked.text[f]) =>
               \/ h.text[f] = asked.text[f]
               \/ asked.text[f].size = "wide" /\ h.text[f].size = "cut"
  BY <1>2, ReadText
<1> HIDE DEF h
<1>5. /\ h.auth_type \in {"none", "bearer", "header"} <=>
            asked.auth_type \in {"none", "bearer", "header"}
      /\ h.auth_type \in {"none", "bearer", "header"} => h.auth_type = asked.auth_type
  BY <1>3 DEF Agrees
<1>6. Expected(asked) = IF Rejected(h) THEN "undefined"
                        ELSE IF LacksKey(h) THEN "error" ELSE "sent"
  BY <1>4, <1>5 DEF Expected, Rejected, LacksKey, TextFields
<1>7. /\ outcome' \in [kind : {NoOutcome, "undefined", "error", "sent"},
                       host : Host \union {NoHost}]
      /\ outcome'.kind = Expected(asked)
      /\ outcome'.kind = "undefined" <=> Rejected(h)
      /\ outcome'.kind = "sent" =>
            outcome'.host = h /\ ~Rejected(h) /\ ~LacksKey(h)
  <2>1. CASE Rejected(h)
    BY <1>1, <1>6, <2>1
  <2>2. CASE ~Rejected(h) /\ LacksKey(h)
    BY <1>1, <1>6, <2>2
  <2>3. CASE ~Rejected(h) /\ ~LacksKey(h)
    <3>1. outcome' = [kind |-> "sent", host |-> h]
      BY <1>1, <2>3
    <3> QED  BY <1>3, <1>6, <2>3, <3>1
  <2> QED  BY <2>1, <2>2, <2>3
<1>8. TypeOK'
  BY <1>1, <1>7 DEF TypeOK
<1>9. UploadsFollowTheAnswers'
  <2>1. ASSUME outcome'.kind = "sent"
        PROVE  /\ h.auth_type = asked.auth_type
               /\ \A f \in Needed(asked) : f \in TextFields /\ IsUsable(asked.text[f])
    <3>1. ~Rejected(h) /\ ~LacksKey(h)
      BY <1>7, <2>1
    <3>2. h.auth_type = asked.auth_type
      BY <1>5, <3>1 DEF Rejected
    <3> QED  BY <1>4, <3>1, <3>2 DEF Rejected, LacksKey, Needed, TextFields
  <2> QED  BY <1>1, <1>4, <1>7, <2>1 DEF UploadsFollowTheAnswers
<1>10. EditorsKeepHostsUsable'
  <2>1. ASSUME plain
        PROVE  ~Rejected(h)
    <3>1. Null.size = "null" /\ Sound(h)
      BY <1>3, <2>1, TextTypes
    <3> QED  BY <3>1 DEF Sound, Rejected
  <2> QED  BY <1>1, <1>7, <2>1 DEF EditorsKeepHostsUsable
<1>11. AgreeInv' /\ PlainInv'
  BY <1>1 DEF AgreeInv, PlainInv
<1> QED  BY <1>8, <1>9, <1>10, <1>11

-----------------------------------------------------------------------------
(* The theorems.                                                           *)

LEMMA LifeInvariance == Spec => []LInv
<1>1. ASSUME LInv, [Next]_vars
      PROVE  LInv'
  <2>1. CASE UNCHANGED vars
    BY <1>1, <2>1 DEF vars, LInv, TypeOK, AgreeInv, PlainInv, UploadsFollowTheAnswers,
       EditorsKeepHostsUsable
  <2> QED
    BY <1>1, <2>1, AddHostKeeps, OpenKeeps, EnterTextKeeps, EnterAuthKeeps,
       KeepTextKeeps, EndKeeps, ConfigSetKeeps, FileKeeps, UploadKeeps DEF Next
<1> QED  BY <1>1, LInit, PTL DEF Spec

\* The host in the file, in an editor and in a request is always a host, and an
\* editor holds one exactly while it is open.
THEOREM LifeTypeCorrect == Spec => []TypeOK
BY LifeInvariance, PTL DEF LInv

\* However often the host is edited, saved and loaded, an upload does what the
\* values last entered and saved say, and sends no others, but for an endpoint
\* a dialog has cut (config.c:38-171, network.c:340-498).
THEOREM UploadsDoAsAsked == Spec => []UploadsFollowTheAnswers
BY LifeInvariance, PTL DEF LInv

\* No upload can use a host that was given these values.
CannotBeUsed(h) ==
    \/ h.auth_type \notin {"none", "bearer", "header"}
    \/ ~IsUsable(h.text["api_endpoint"])
    \/ ~IsUsable(h.text["file_form_field"])

\* An upload returns without an answer (network.c:322-363) only for a host whose
\* last values are the reason: a type that uploads do not know, as the answer 4
\* of add-host, the preset imgbb and config set give it (hosts.c:168, 185-188),
\* or an endpoint or a form field that is empty or too long.  The two editors,
\* given values that fit, never make such a host of one that had none of these.
THEOREM HostsStayUsable ==
    Spec => /\ []EditorsKeepHostsUsable
            /\ [](outcome.kind = "undefined" => CannotBeUsed(asked))
<1>1. LInv => (outcome.kind = "undefined" => CannotBeUsed(asked))
  BY DEF LInv, UploadsFollowTheAnswers, Expected, CannotBeUsed, NoOutcome
<1>2. LInv => EditorsKeepHostsUsable
  BY DEF LInv
<1> QED  BY <1>1, <1>2, LifeInvariance, PTL
=============================================================================
