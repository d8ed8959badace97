----------------------------- MODULE ConfigStore -----------------------------
(***************************************************************************)
(* Several hostman processes over one config.json (src/core/config.c, its  *)
(* callers in src/main.c, src/cli/cli.c, src/network/hosts.c and           *)
(* src/cli/tui.c).                                                         *)
(*                                                                         *)
(* A process loads the file once, keeps the copy in current_config for as  *)
(* long as it runs, changes that copy and writes all of it back.  Nothing  *)
(* locks the file, and config_save truncates it before it writes, so that  *)
(* the steps of two processes, a crash or a full disk may come between.    *)
(*                                                                         *)
(* Start .. Stat .. one command, or the loop of an editor, or the setup    *)
(* wizard .. Exit.  A command that saves goes through "save" (before       *)
(* fopen) and "open" (truncated, not yet written).                         *)
(***************************************************************************)
EXTENDS HostConfig

CONSTANTS
    Procs,      \* the processes
    Faults,     \* which of FaultKinds may happen
    NoConfig,   \* current_config == NULL
    Absent,     \* there is no config.json
    Torn        \* config.json is empty or cut short: not JSON

FaultKinds == {"open", "write", "flush", "crash"}

ASSUME StoreAssumption ==
    /\ Faults \subseteq FaultKinds
    /\ NoConfig \notin Config
    /\ Absent \notin Config
    /\ Torn \notin Config
    /\ Absent # Torn

VARIABLES
    file,      \* the content of config.json
    mem,       \* current_config of each process
    buf,       \* the configuration a process is saving
    pc,        \* where each process is
    mode,      \* whether it runs one command or an editor's loop
    op,        \* what the configuration being saved was changed by
    result,    \* what the last operation of the process reported
    promised,  \* history: names reported as added, not asked to be removed
    spoiled    \* history: a save was cut off, and no save was complete since

vars == <<file, mem, buf, pc, mode, op, result, promised, spoiled>>

local == <<mode, op, result, promised, spoiled>>

Steps == {"off", "stat", "wizard", "setup", "ready", "list", "menu", "ask",
          "save", "open", "done", "hung", "segv"}

TypeOK ==
    /\ file \in Config \union {Absent, Torn}
    /\ mem \in [Procs -> Config \union {NoConfig}]
    /\ buf \in [Procs -> Config \union {NoConfig}]
    /\ pc \in [Procs -> Steps]
    /\ mode \in [Procs -> {"command", "editor"}]
    /\ op \in [Procs -> {"none", "wizard", "add", "change"}]
    /\ result \in [Procs -> {"none", "ok", "failed"}]
    /\ promised \subseteq Names
    /\ spoiled \in BOOLEAN

Init ==
    /\ file = Absent
    /\ mem = [p \in Procs |-> NoConfig]
    /\ buf = [p \in Procs |-> NoConfig]
    /\ pc = [p \in Procs |-> "off"]
    /\ mode = [p \in Procs |-> "command"]
    /\ op = [p \in Procs |-> "none"]
    /\ result = [p \in Procs |-> "none"]
    /\ promised = {}
    /\ spoiled = FALSE

-----------------------------------------------------------------------------
(* Loading.                                                                *)

ReadFile == IF file \in Config THEN ParseConfig(file) ELSE NoConfig

\* config_load: the copy already loaded, else what the file holds now.
Loaded(p) == IF mem[p] # NoConfig THEN mem[p] ELSE ReadFile

\* Mutant of LoadedOrFresh: what the file holds is not looked at.
AlwaysFresh(p) == FreshConfig

\* The setters go on from a fresh configuration when nothing loads.
LoadedOrFresh(p) == IF Loaded(p) = NoConfig THEN FreshConfig ELSE Loaded(p)

-----------------------------------------------------------------------------
(* The life of a process.                                                  *)

\* logging_init loads the configuration while it holds the log's mutex.  A
\* file that does not parse is reported through log_error, which takes the
\* same mutex again: the process never gets past this point.
Start(p) ==
    /\ pc[p] = "off"
    /\ mem' = [mem EXCEPT ![p] = ReadFile]
    /\ pc' = [pc EXCEPT ![p] = IF file = Torn THEN "hung" ELSE "stat"]
    /\ UNCHANGED <<file, buf, local>>

\* main takes a missing file for a first run.
Stat(p) ==
    /\ pc[p] = "stat"
    /\ pc' = [pc EXCEPT ![p] = IF file = Absent THEN "wizard" ELSE "ready"]
    /\ UNCHANGED <<file, mem, buf, local>>

\* "hostman config" with no key opens an editor, which loops.
OpenEditor(p) ==
    /\ pc[p] = "ready"
    /\ pc' = [pc EXCEPT ![p] = "list"]
    /\ mode' = [mode EXCEPT ![p] = "editor"]
    /\ UNCHANGED <<file, mem, buf, op, result, promised, spoiled>>

\* Each turn of the editor's loop, and the command list-hosts, print the name
\* of every slot without the test for NULL the other loops make.
ShowHosts(p) ==
    LET c == Loaded(p)
    IN  /\ pc[p] \in {"list", "ready"}
        /\ mem' = [mem EXCEPT ![p] = c]
        /\ pc' = [pc EXCEPT ![p] =
                    IF c # NoConfig /\ ~Listable(c) THEN "segv"
                    ELSE IF c # NoConfig /\ pc[p] = "list" THEN "menu"
                    ELSE "done"]
        /\ UNCHANGED <<file, buf, local>>

\* Leaving the editor, or the wizard's questions about the first host.
Quit(p) ==
    /\ pc[p] \in {"menu", "setup"}
    /\ pc' = [pc EXCEPT ![p] = "done"]
    /\ UNCHANGED <<file, mem, buf, local>>

\* The process is gone, with everything it had in memory.
Gone(p) ==
    /\ pc' = [pc EXCEPT ![p] = "off"]
    /\ mem' = [mem EXCEPT ![p] = NoConfig]
    /\ buf' = [buf EXCEPT ![p] = NoConfig]
    /\ mode' = [mode EXCEPT ![p] = "command"]
    /\ op' = [op EXCEPT ![p] = "none"]
    /\ result' = [result EXCEPT ![p] = "none"]
    /\ UNCHANGED <<file, promised>>

Exit(p) == pc[p] \in {"done", "segv"} /\ Gone(p) /\ UNCHANGED spoiled

\* The user interrupts a process that hangs.
Kill(p) == pc[p] = "hung" /\ Gone(p) /\ UNCHANGED spoiled

Crash(p) ==
    /\ "crash" \in Faults
    /\ pc[p] \notin {"off", "done", "segv", "hung"}
    /\ Gone(p)
    /\ spoiled' = (spoiled \/ (pc[p] = "open" /\ file = Torn))

-----------------------------------------------------------------------------
(* The operations.  Each one loads, changes the copy in place, and hands it *)
(* to config_save; or it fails and leaves the copy alone.                  *)

Accepts(p) == pc[p] \in {"ready", "menu"}

\* Mutant of AfterOp: the editor asks for the next change of the copy it has,
\* without loading and listing the hosts again.
AfterOpMenu(p) == IF mode[p] = "editor" THEN "menu" ELSE "done"

AfterOp(p) == IF mode[p] = "editor" THEN "list" ELSE "done"

Report(p, r) ==
    /\ pc' = [pc EXCEPT ![p] = AfterOp(p)]
    /\ result' = [result EXCEPT ![p] = r]

BeginSave(p, c, kind) ==
    /\ pc' = [pc EXCEPT ![p] = "save"]
    /\ buf' = [buf EXCEPT ![p] = c]
    /\ op' = [op EXCEPT ![p] = kind]
    /\ UNCHANGED <<file, mode, result, spoiled>>

\* The copy is the configuration itself when one was loaded: changed in place,
\* it stays changed if saving fails.  A fresh configuration is not the copy.
ChangeAndSave(p, c, kind) ==
    /\ BeginSave(p, c, kind)
    /\ mem' = [mem EXCEPT ![p] = IF Loaded(p) = NoConfig THEN NoConfig ELSE c]

Refuse(p) ==
    /\ Report(p, "failed")
    /\ mem' = [mem EXCEPT ![p] = Loaded(p)]
    /\ UNCHANGED <<file, buf, mode, op, promised, spoiled>>

\* The wizard writes a configuration without hosts, over whatever has come to
\* be there since main looked.
WizardSave(p) ==
    /\ pc[p] = "wizard"
    /\ BeginSave(p, FreshConfig, "wizard")
    /\ UNCHANGED <<mem, promised>>

\* Mutant of HostAdd: the name is not looked for first.
HostAddUnchecked(p, n, v) ==
    LET c == LoadedOrFresh(p)
    IN  /\ Accepts(p) \/ pc[p] = "setup"
        /\ ChangeAndSave(p, AddHost(c, [name |-> n, endpoint |-> v]), "add")
        /\ UNCHANGED promised

\* add-host, add-preset and import-host, and the editors.  Only an imported file
\* may bring the name "": the prompts ask again.
HostAdd(p, n, v) ==
    LET c == LoadedOrFresh(p)
    IN  /\ Accepts(p) \/ pc[p] = "setup"
        /\ n = EmptyName => pc[p] = "ready"
        /\ IF n \in NamesOf(c)
           THEN Refuse(p)
           ELSE /\ ChangeAndSave(p, AddHost(c, [name |-> n, endpoint |-> v]), "add")
                /\ UNCHANGED promised

HostRemove(p, n) ==
    LET c == Loaded(p)
    IN  /\ Accepts(p)
        /\ IF c = NoConfig \/ n \notin NamesOf(LoadedOrFresh(p))
           THEN Refuse(p)
           ELSE /\ ChangeAndSave(p, RemoveHost(c, n), "change")
                /\ promised' = promised \ {n}

\* set-default-host, and "config set default_host".
HostSetDefault(p, n) ==
    LET c == LoadedOrFresh(p)
    IN  /\ Accepts(p)
        /\ IF n \notin NamesOf(c)
           THEN Refuse(p)
           ELSE /\ ChangeAndSave(p, SetDefaultHost(c, n), "change")
                /\ UNCHANGED promised

\* "config set hosts.<name>.<property>", and the host editors.
HostEdit(p, n, v) ==
    LET c == LoadedOrFresh(p)
    IN  /\ Accepts(p)
        /\ IF n \notin NamesOf(c)
           THEN Refuse(p)
           ELSE /\ ChangeAndSave(p, SetEndpoint(c, n, v), "change")
                /\ UNCHANGED promised

\* "config set log_level", and the editors.
SetLogLevel(p, v) ==
    /\ Accepts(p)
    /\ ChangeAndSave(p, SetLevel(LoadedOrFresh(p), v), "change")
    /\ UNCHANGED promised

\* An unknown key, an unknown level, a version below 1: config_set_value
\* finds nothing changed.
SetInvalid(p) == Accepts(p) /\ Refuse(p)

\* "config set copy_to_clipboard": a value that changes nothing is a failure.
SetCopyToClipboard(p, v) ==
    LET c == LoadedOrFresh(p)
    IN  /\ pc[p] = "ready"
        /\ IF v = c.copy_to_clipboard
           THEN Refuse(p)
           ELSE /\ ChangeAndSave(p, SetClipboard(c, v), "change")
                /\ UNCHANGED promised

\* After a host was added as the only one, or without a default: "Set this
\* host as the default?".
AnswerYes(p) ==
    /\ pc[p] = "ask"
    /\ LET added == mem[p].hosts[Len(mem[p].hosts)]
       IN  ChangeAndSave(p, SetDefaultHost(mem[p], added.name), "change")
    /\ UNCHANGED promised

AnswerNo(p) ==
    /\ pc[p] = "ask"
    /\ pc' = [pc EXCEPT ![p] = AfterOp(p)]
    /\ UNCHANGED <<file, mem, buf, local>>

-----------------------------------------------------------------------------
(* config_save.                                                            *)

\* fopen(path, "w") empties the file before anything is written.
OpenFile(p) ==
    /\ pc[p] = "save"
    /\ file' = Torn
    /\ pc' = [pc EXCEPT ![p] = "open"]
    /\ UNCHANGED <<mem, buf, local>>

\* config_save returned true: the saved configuration is the copy from now on,
\* except that the wizard frees it.
Saved(p) ==
    /\ op' = [op EXCEPT ![p] = "none"]
    /\ buf' = [buf EXCEPT ![p] = NoConfig]
    /\ result' = [result EXCEPT ![p] = "ok"]
    /\ mem' = [mem EXCEPT ![p] = IF op[p] = "wizard" THEN NoConfig ELSE buf[p]]
    /\ pc' = [pc EXCEPT ![p] =
                IF op[p] = "wizard" THEN "setup"
                ELSE IF /\ op[p] = "add"
                        /\ \/ buf[p].default_host = NoName
                           \/ Len(buf[p].hosts) = 1
                     THEN "ask"
                     ELSE AfterOp(p)]
    /\ promised' = IF op[p] = "add"
                   THEN promised \union {buf[p].hosts[Len(buf[p].hosts)].name}
                   ELSE promised
    /\ UNCHANGED mode

\* Mutant of WriteFile: nothing is put into the opened file.
WriteNothing(p) ==
    /\ pc[p] = "open"
    /\ Saved(p)
    /\ UNCHANGED <<file, spoiled>>

\* fputs fills stdio's buffer and fclose flushes it: one write(2), and one step,
\* as long as the text fits the buffer.  A longer text would take several, and
\* those of two processes could mix.
WriteFile(p) ==
    /\ pc[p] = "open"
    /\ file' = ConfigToJson(buf[p])
    /\ spoiled' = FALSE
    /\ Saved(p)

\* The text is still in stdio's buffer when fclose finds the disk full, and
\* nobody looks at what fclose returns.
FlushLost(p) ==
    /\ "flush" \in Faults
    /\ pc[p] = "open"
    /\ file' \in {file, Torn}
    /\ spoiled' = (spoiled \/ file' = Torn)
    /\ Saved(p)

\* config_save returned false: hosts_add frees the host it was adding, which
\* the copy still points to.
NotSaved(p) ==
    /\ Report(p, "failed")
    /\ op' = [op EXCEPT ![p] = "none"]
    /\ buf' = [buf EXCEPT ![p] = NoConfig]
    /\ mem' = [mem EXCEPT ![p] =
                IF op[p] = "add" /\ @ # NoConfig THEN FreeLastHost(@) ELSE @]
    /\ UNCHANGED <<mode, promised>>

OpenFails(p) ==
    /\ "open" \in Faults
    /\ pc[p] = "save"
    /\ NotSaved(p)
    /\ UNCHANGED <<file, spoiled>>

WriteFails(p) ==
    /\ "write" \in Faults
    /\ pc[p] = "open"
    /\ file' \in {file, Torn}
    /\ spoiled' = (spoiled \/ file' = Torn)
    /\ NotSaved(p)

-----------------------------------------------------------------------------

Change(p) ==
    \/ WizardSave(p)
    \/ \E n \in Names, v \in Values : HostAdd(p, n, v)
    \/ \E n \in Names : HostRemove(p, n)
    \/ \E n \in Names : HostSetDefault(p, n)
    \/ \E n \in Names, v \in Values : HostEdit(p, n, v)
    \/ \E v \in Levels : SetLogLevel(p, v)
    \/ \E v \in BOOLEAN : SetCopyToClipboard(p, v)
    \/ SetInvalid(p)
    \/ AnswerYes(p)
    \/ AnswerNo(p)

Save(p) ==
    \/ OpenFile(p)
    \/ WriteFile(p)
    \/ FlushLost(p)
    \/ OpenFails(p)
    \/ WriteFails(p)

Life(p) ==
    \/ Start(p)
    \/ Stat(p)
    \/ OpenEditor(p)
    \/ ShowHosts(p)
    \/ Quit(p)
    \/ Exit(p)
    \/ Kill(p)
    \/ Crash(p)

Next == \E p \in Procs : Life(p) \/ Change(p) \/ Save(p)

Spec == Init /\ [][Next]_vars

\* A process that runs goes on: the system schedules it, and config_save never
\* waits.  Nobody has to start a process, answer a prompt or pick a command.
Fairness ==
    \A p \in Procs : /\ WF_vars(Save(p))
                     /\ WF_vars(Stat(p))

FairSpec == Spec /\ Fairness

-----------------------------------------------------------------------------
(* Properties.                                                             *)

\* Every configuration there is: in the file, in a copy, on its way to the file.
Snapshots ==
    {c \in {file} \union {mem[p] : p \in Procs} \union {buf[p] : p \in Procs} :
        c \in Config}

\* Whatever the processes do to one another, default_host names a host of the
\* same configuration, and is there as soon as there is a host: in the file, in
\* every loaded copy and in everything about to be saved (config.c:936-939 and
\* 1020-1029).  A copy that points to a freed host is left out.
DefaultIsAHost ==
    \A c \in Snapshots : Intact(c) => DefaultExists(c) /\ DefaultChosen(c)

\* No configuration has two hosts of one name (config.c:919-926): the loops
\* that search by name would reach the first of them only.
HostNamesAreUnique == \A c \in Snapshots : NamesUnique(c)

\* config.json is only cut short while a process is between fopen and fclose of
\* config_save (config.c:517-542), or where a crash or a failed write has cut a
\* save off: no save of one process leaves it so because another one saves too.
TornHasAWriter == file = Torn => spoiled \/ \E p \in Procs : pc[p] = "open"

\* Unless a save is cut off, a file cut short is whole again in the end, however
\* many saves mix: whoever truncated it gets to write it (config.c:517-542).
TornHeals == file = Torn ~> file # Torn \/ spoiled

\* One process at a time: between two operations the cached copy is what loading
\* the file again would give, so that using it (config.c:397-400) is right.
CopyIsCurrent ==
    \A p \in Procs :
        /\ mem[p] # NoConfig
        /\ pc[p] \in {"ready", "list", "menu", "ask", "done"}
        => mem[p] = ReadFile

\* A host reported as added (hosts.c:349) and not removed since by anybody is
\* in the file whenever the file can be read.
AddedHostsAreStored == file \in Config => promised \subseteq NamesOf(file)

\* After a failed save of a new host the copy points to the host hosts_add has
\* freed (hosts.c:446-468).  That damage stays where it is: such a copy is never
\* searched, changed or saved again, because the process ends or its editor goes
\* to the list first (hosts.c:674-711), and nothing freed is in the file or
\* on its way there, where every process would find it.
FreedHostStaysAside ==
    /\ file \in Config => Intact(file)
    /\ \A p \in Procs :
          /\ buf[p] \in Config => Intact(buf[p])
          /\ mem[p] \in Config /\ ~Intact(mem[p])
                => pc[p] \in {"list", "done", "segv"}

\* A start that cannot parse the file waits for its own mutex (logging.c:117,
\* config.c:463).  It is only met while another process is in its config_save, or
\* after a save was cut off: one complete save, by anybody, ends it.
HangsOnlyOnACutSave ==
    [][\A p \in Procs :
          pc[p] # "hung" /\ pc'[p] = "hung"
              => spoiled \/ \E q \in Procs \ {p} : pc[q] = "open"]_vars

\* Truncating the file is the step at which a save takes effect: from there on
\* no other content can come back, if nothing else writes and nothing fails.
StoredConfig ==
    LET writing == {p \in Procs : pc[p] = "open"}
    IN  IF writing = {} THEN file
        ELSE ConfigToJson(buf[CHOOSE p \in writing : TRUE])

Register == INSTANCE ConfigRegister WITH cfg <- StoredConfig

\* One process at a time, nothing failing: each command changes config.json as
\* one atomic operation on it would, although it reads the file at start-up,
\* changes a copy and truncates and writes the file (config.c:394-1034).
ImplementsRegister == Register!Spec
=============================================================================
