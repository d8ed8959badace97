------------------------------ MODULE HostLife -------------------------------
(***************************************************************************)
(* One host from the command that adds it to the upload that uses it: what *)
(* add-host, add-preset and import-host write (src/network/hosts.c), what  *)
(* the two editors (hosts.c, src/cli/tui.c) and "config set"               *)
(* (src/core/config.c) change, what config_load makes of it, and whether   *)
(* network_upload_file (src/network/network.c) can use it.                 *)
(*                                                                         *)
(* Each command is a process of its own: it loads the file, and what it    *)
(* does not save is gone.  A command whose save fails changes nothing, and *)
(* is left out.  ConfigStore is about the file, its other hosts and        *)
(* commands that run at once; here there is one host and one command at a  *)
(* time, and the host has fields.                                          *)
(***************************************************************************)
EXTENDS Naturals

CONSTANTS
    MaxEntries, \* bound: values entered after the host was added
    NoHost      \* no host

ASSUME HostLifeAssumption == MaxEntries \in Nat

\* A text: NULL, "", one that fits everywhere, one that is longer than the 511
\* characters of a dialog of the text window, one over the limit
\* parse_host_config has for its field, and what a dialog has cut to 511.
\* Those that fit are told apart by when they were entered.
Text ==
    [size : {"null", "empty", "wide", "long", "cut"}, entry : {0}]
        \union [size : {"fits"}, entry : 0 .. MaxEntries]

Sized(s) == [size |-> s, entry |-> 0]

Null == Sized("null")

Fits(n) == [size |-> "fits", entry |-> n]

\* Of auth_type, "other" is any text the program has no name for.
AuthTypes == {"null", "empty", "none", "bearer", "header", "param", "other", "long"}

TextFields == {"api_endpoint", "api_key_name", "api_key", "file_form_field",
               "response_url_json_path"}

\* host_config_t as far as an upload reads it.
Host == [auth_type : AuthTypes, text : [TextFields -> Text]]

ASSUME NoHostAssumption == NoHost \notin Host

VARIABLES
    file,     \* the host as the file has it
    session,  \* the editor that is open: "none", "line" or "tui"
    memory,   \* the host as the editor has it
    modified, \* modified
    typed,    \* history: each value as it was entered, in memory ...
    asked,    \* history: ... and in the file
    plain,    \* history: only questions answered with values that fit
    origin,   \* history: what added the host, unless it was edited since
    entries,  \* values entered since then
    outcome   \* what the last upload did, if the host is as it was then

vars == <<file, session, memory, modified, typed, asked, plain, origin, entries, outcome>>

NoOutcome == "none"

Nothing == [kind |-> NoOutcome, host |-> NoHost]

TypeOK ==
    /\ file \in Host \union {NoHost}
    /\ session \in {"none", "line", "tui"}
    /\ memory \in Host \union {NoHost}
    /\ (memory = NoHost) <=> (session = "none")
    /\ modified \in BOOLEAN
    /\ typed \in Host \union {NoHost}
    /\ asked \in Host \union {NoHost}
    /\ (asked = NoHost) <=> (file = NoHost)
    /\ plain \in BOOLEAN
    /\ origin \in {"nothing", "prompts", "preset", "import", "edited"}
    /\ entries \in 0 .. MaxEntries
    /\ outcome \in [kind : {NoOutcome, "undefined", "error", "sent"},
                    host : Host \union {NoHost}]

Init ==
    /\ file = NoHost
    /\ session = "none"
    /\ memory = NoHost
    /\ modified = FALSE
    /\ typed = NoHost
    /\ asked = NoHost
    /\ plain = TRUE
    /\ origin = "nothing"
    /\ entries = 0
    /\ outcome = Nothing

-----------------------------------------------------------------------------
(* The file.                                                               *)

\* parse_host_config takes no value that is empty or over its limit.
Parsed(h) ==
    [auth_type |-> IF h.auth_type \in {"empty", "long"} THEN "null" ELSE h.auth_type,
     text |-> [f \in TextFields |->
                 IF h.text[f].size \in {"empty", "long"} THEN Null ELSE h.text[f]]]

\* hosts_add stores neither key nor name where they are not used.
Added(h) ==
    IF h.auth_type = "none"
    THEN [h EXCEPT !.text["api_key_name"] = Null, !.text["api_key"] = Null]
    ELSE h

-----------------------------------------------------------------------------
(* Adding the host.                                                        *)

\* What can be typed at a prompt: 510 characters at most, which is over some
\* limits, but neither nothing nor too long for api_endpoint and api_key.
Answers(f) ==
    {Fits(entries)} \union
        IF f \in {"api_endpoint", "api_key"} THEN {} ELSE {Sized("long")}

\* What an argument, or a string of an imported file, can be.
AnyText(f) ==
    {Fits(entries)} \union
        {Sized(s) : s \in {"empty", "long"} \union
                          IF f = "api_endpoint" THEN {"wide"} ELSE {}}

AllFit(h) == \A f \in TextFields : h.text[f].size \in {"null", "fits"}

CanAdd == session = "none" /\ file = NoHost

Add(h, by) ==
    /\ file' = Added(h)
    /\ asked' = Added(h)
    /\ origin' = by
    /\ plain' = (by # "import" /\ AllFit(h) /\ h.auth_type # "param")
    /\ outcome' = Nothing
    /\ UNCHANGED <<session, memory, modified, typed, entries>>

\* The questions of add-host, which the first start asks too.
AddByPrompts ==
    /\ CanAdd
    /\ \E auth \in {"none", "bearer", "header", "param"} :
       \E text \in [TextFields -> {Fits(entries), Sized("long")}] :
        /\ \A f \in TextFields : text[f] \in Answers(f)
        /\ Add([auth_type |-> auth, text |-> text], "prompts")

\* imgbb, imgur, and the two that need no key.
AddPreset ==
    /\ CanAdd
    /\ \E auth \in {"param", "bearer", "none"} :
        Add([auth_type |-> auth, text |-> [f \in TextFields |-> Fits(entries)]], "preset")

\* RequestURL, FileFormName and URL are whatever strings the file has, or the
\* last two are absent and have a default.  An Authorization header that begins
\* with "Bearer " makes a bearer of the rest, another one, or the first header
\* there is, a header of that name.
ImportHost ==
    /\ CanAdd
    /\ \E auth \in {"none", "bearer", "header"} :
       \E text \in [TextFields -> UNION {AnyText(f) : f \in TextFields}] :
        /\ \A f \in TextFields : text[f] \in AnyText(f)
        /\ auth = "bearer" => text["api_key_name"] = Fits(entries)
        /\ Add([auth_type |-> auth, text |-> text], "import")

-----------------------------------------------------------------------------
(* Changing it.                                                            *)

OpenEditor ==
    /\ session = "none"
    /\ file # NoHost
    /\ session' \in {"line", "tui"}
    /\ memory' = Parsed(file)
    /\ typed' = asked
    /\ modified' = FALSE
    /\ UNCHANGED <<file, asked, plain, origin, entries, outcome>>

CanEnter == session # "none" /\ entries < MaxEntries

EnterText ==
    /\ CanEnter
    /\ entries' = entries + 1
    /\ \E f \in TextFields : \E v \in {Fits(entries')} \union (Answers(f) \ {Fits(entries)}) :
          /\ memory' = [memory EXCEPT !.text[f] = v]
          /\ typed' = [typed EXCEPT !.text[f] = v]
          /\ plain' = (plain /\ v.size = "fits")
    /\ modified' = TRUE
    /\ UNCHANGED <<file, session, asked, origin, outcome>>

\* Mutant of EnterAuth: the type that add-host offers too is let through.
EnterAuthOfAddHost ==
    /\ CanEnter
    /\ entries' = entries + 1
    /\ \E auth \in {"none", "bearer", "header", "param"} :
          /\ memory' = [memory EXCEPT !.auth_type = auth]
          /\ typed' = [typed EXCEPT !.auth_type = auth]
    /\ modified' = TRUE
    /\ UNCHANGED <<file, session, asked, plain, origin, outcome>>

\* Any other type is refused.
EnterAuth ==
    /\ CanEnter
    /\ entries' = entries + 1
    /\ \E auth \in {"none", "bearer", "header"} :
          /\ memory' = [memory EXCEPT !.auth_type = auth]
          /\ typed' = [typed EXCEPT !.auth_type = auth]
    /\ modified' = TRUE
    /\ UNCHANGED <<file, session, asked, plain, origin, outcome>>

\* A dialog of the text window that is left empty enters the value it showed,
\* as far as its buffer holds it.
KeepText ==
    /\ session = "tui"
    /\ \/ /\ memory.auth_type \in {"none", "bearer", "header"}
          /\ UNCHANGED memory
       \/ \E f \in TextFields \ {"api_key"} :
            /\ memory.text[f] # Null
            /\ memory' = IF memory.text[f].size = "wide"
                         THEN [memory EXCEPT !.text[f] = Sized("cut")]
                         ELSE memory
    /\ modified' = TRUE
    /\ UNCHANGED <<file, session, typed, asked, plain, origin, entries, outcome>>

\* The editor saves what was modified.
CloseEditor ==
    /\ session # "none"
    /\ IF modified
       THEN file' = memory /\ asked' = typed /\ origin' = "edited" /\ outcome' = Nothing
       ELSE UNCHANGED <<file, asked, origin, outcome>>
    /\ session' = "none"
    /\ memory' = NoHost
    /\ typed' = NoHost
    /\ modified' = FALSE
    /\ UNCHANGED <<plain, entries>>

\* Its process ends without a save: killed, or left after a save that failed.
\* A process that goes on after a failed save still has the edits in
\* current_config, and a later save stores them: its editor counts as open.
LoseEdits ==
    /\ session # "none"
    /\ session' = "none"
    /\ memory' = NoHost
    /\ typed' = NoHost
    /\ modified' = FALSE
    /\ UNCHANGED <<file, asked, plain, origin, entries, outcome>>

\* "config set hosts.<name>.<property>" takes any text, for any property except
\* api_key.
ConfigSet ==
    /\ session = "none"
    /\ file # NoHost
    /\ entries < MaxEntries
    /\ entries' = entries + 1
    /\ \/ \E f \in TextFields \ {"api_key"} :
          \E v \in {Fits(entries')} \union (AnyText(f) \ {Fits(entries)}) :
             /\ file' = [Parsed(file) EXCEPT !.text[f] = v]
             /\ asked' = [asked EXCEPT !.text[f] = v]
       \/ \E auth \in AuthTypes \ {"null"} :
             /\ file' = [Parsed(file) EXCEPT !.auth_type = auth]
             /\ asked' = [asked EXCEPT !.auth_type = auth]
    /\ plain' = FALSE
    /\ origin' = "edited"
    /\ outcome' = Nothing
    /\ UNCHANGED <<session, memory, modified, typed>>

\* A command that changes something else loads and saves this host with it.
SaveOther ==
    /\ session = "none"
    /\ file # NoHost
    /\ file' = Parsed(file)
    /\ UNCHANGED <<session, memory, modified, typed, asked, plain, origin, entries, outcome>>

RemoveHost ==
    /\ session = "none"
    /\ file # NoHost
    /\ file' = NoHost
    /\ asked' = NoHost
    /\ plain' = TRUE
    /\ origin' = "nothing"
    /\ outcome' = Nothing
    /\ UNCHANGED <<session, memory, modified, typed, entries>>

-----------------------------------------------------------------------------
(* Using it.                                                               *)

\* network_upload_file returns before it has set success.
Rejected(h) ==
    \/ Null \in {h.text["api_endpoint"], h.text["file_form_field"]}
    \/ h.auth_type \notin {"none", "bearer", "header"}

\* Mutant of LacksKey: a host without a key is not asked for its name.
LacksKeyOnly(h) == h.auth_type # "none" /\ h.text["api_key"] = Null

LacksKey(h) ==
    /\ h.auth_type # "none"
    /\ Null \in {h.text["api_key"], h.text["api_key_name"]}

Upload ==
    /\ session = "none"
    /\ file # NoHost
    /\ LET h == Parsed(file)
       IN  outcome' =
             CASE Rejected(h) -> [kind |-> "undefined", host |-> NoHost]
               [] ~Rejected(h) /\ LacksKey(h) -> [kind |-> "error", host |-> NoHost]
               [] OTHER -> [kind |-> "sent", host |-> h]
    /\ UNCHANGED <<file, session, memory, modified, typed, asked, plain, origin, entries>>

Next ==
    \/ AddByPrompts
    \/ AddPreset
    \/ ImportHost
    \/ OpenEditor
    \/ EnterText
    \/ EnterAuth
    \/ KeepText
    \/ CloseEditor
    \/ LoseEdits
    \/ ConfigSet
    \/ SaveOther
    \/ RemoveHost
    \/ Upload

Spec == Init /\ [][Next]_vars

-----------------------------------------------------------------------------
(* Properties.                                                             *)

IsUsable(v) == v.size \in {"fits", "wide"}

Expected(h) ==
    IF /\ IsUsable(h.text["api_endpoint"])
       /\ IsUsable(h.text["file_form_field"])
       /\ h.auth_type \in {"none", "bearer", "header"}
    THEN IF \/ h.auth_type = "none"
            \/ IsUsable(h.text["api_key"]) /\ IsUsable(h.text["api_key_name"])
         THEN "sent"
         ELSE "error"
    ELSE "undefined"

\* What an upload puts into its requests, and the path it reads the answer with.
Needed(h) ==
    {"api_endpoint", "file_form_field"}
        \union (IF h.auth_type = "none" THEN {} ELSE {"api_key", "api_key_name"})
        \union (IF IsUsable(h.text["response_url_json_path"])
                THEN {"response_url_json_path"} ELSE {})

\* An upload does what the values last entered and saved say, whoever entered
\* them, and sends those values and no others, in particular no request without
\* the key the host was given, although commands that read and write the host
\* in between drop values (config.c:38-171, hosts.c:359-672, tui.c:293-443,
\* config.c:808-885, network.c:340-498).  Only an endpoint of more than 511
\* characters is not safe: a dialog of the text window cuts it.
UploadsFollowTheAnswers ==
    outcome.kind # NoOutcome =>
        /\ outcome.kind = Expected(asked)
        /\ outcome.kind = "sent" =>
              /\ outcome.host.auth_type = asked.auth_type
              /\ \A f \in Needed(asked) :
                    \/ outcome.host.text[f] = asked.text[f]
                    \/ asked.text[f].size = "wide" /\ outcome.host.text[f].size = "cut"

\* A host that was added with a supported authentication type and only edited
\* in the editors, all with values within the limits, is never one whose upload
\* returns without an answer (network.c:322-363): what those commands accept is
\* what uploads accept.
EditorsKeepHostsUsable == plain => outcome.kind # "undefined"

\* add-preset ends with "Use 'hostman upload <file>' to upload files." and so a
\* preset is a host that uploads accept (hosts.c:1051-1052).
PresetsCanUpload == origin = "preset" => outcome.kind # "undefined"
=============================================================================
