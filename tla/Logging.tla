------------------------------- MODULE Logging -------------------------------
(***************************************************************************)
(* The log (src/core/logging.c) in the order in which main (src/main.c)    *)
(* brings the program up, uses it and takes it down.                       *)
(*                                                                         *)
(* One thread runs, but log_message and logging_init call one another and  *)
(* both take log_mutex, which is not recursive: calls is the stack of      *)
(* their calls, and a call that waits for the mutex the thread holds       *)
(* already waits forever.                                                  *)
(***************************************************************************)
EXTENDS Naturals, Sequences, FiniteSets

CONSTANTS
    MaxMessages     \* bound: messages that the command logs

ASSUME LoggingAssumption == MaxMessages \in Nat

DEBUG == 0
INFO == 1
WARN == 2
ERROR == 3
Levels == DEBUG .. ERROR

\* What config_load finds: no file, a file it cannot use, or a configuration,
\* of which log_level and log_file count.  log_file is the path of the default
\* log, another path, or "".
ConfigFile ==
    {c \in [status : {"absent", "bad", "usable"}, level : Levels,
            file : {"default", "own", "empty"}] :
        c.status # "usable" => c.level = INFO /\ c.file = "default"}

VARIABLES
    config,     \* what there is to load
    cache,      \* the cache directory: there, to be made, or out of reach
                \* because its parent is missing or nothing may be made
    ownOpens,   \* whether the other path can be opened
    main,       \* where main is
    up,         \* what it has brought up and not taken down
    calls,      \* the calls of logging.c it is in, the innermost last
    held,       \* log_mutex
    log_file,
    current_log_level,
    sent,       \* history: the levels of the messages log_message was given
    lines       \* history: the levels of the lines in the log

vars == <<config, cache, ownOpens, main, up, calls, held, log_file,
          current_log_level, sent, lines>>

place == <<config, ownOpens>>

world == <<place, cache, main, up>>

Labels == {"initLock", "initLoad", "initOwn", "initDefault", "initUnlock", "initDone",
           "msg", "msgLock", "msgFile", "msgWrite", "cleanup"}

Frame == [at : Labels, level : Levels]

TypeOK ==
    /\ config \in ConfigFile
    /\ cache \in {"there", "makeable", "orphan", "denied"}
    /\ ownOpens \in BOOLEAN
    /\ main \in {"start", "stat", "wizard", "network", "networkDown", "db", "dbDown",
                 "parse", "command", "over", "returned", "exited"}
    /\ up \subseteq {"encryption", "network", "db"}
    /\ calls \in Seq(Frame)
    /\ held \in BOOLEAN
    /\ log_file \in {"none", "default", "own"}
    /\ current_log_level \in Levels
    /\ sent \in Seq(Levels)
    /\ lines \in Seq(Levels)

Init ==
    /\ config \in ConfigFile
    /\ cache \in {"there", "makeable", "orphan", "denied"}
    /\ ownOpens \in BOOLEAN
    /\ main = "start"
    /\ up = {}
    /\ calls = <<>>
    /\ held = FALSE
    /\ log_file = "none"
    /\ current_log_level = INFO
    /\ sent = <<>>
    /\ lines = <<>>

-----------------------------------------------------------------------------
(* The stack of calls.                                                     *)

Top == calls[Len(calls)]

At(l) == calls # <<>> /\ Top.at = l

Below == SubSeq(calls, 1, Len(calls) - 1)

Call(l, v) == [at |-> l, level |-> v]

\* The innermost call goes on at l, after what it calls first, if anything.
Goto(l, called) == calls' = Append(Below, Call(l, Top.level)) \o called

Return == calls' = Below

-----------------------------------------------------------------------------
(* logging_init.                                                           *)

\* A log that is open is closed first.
InitLock ==
    /\ At("initLock")
    /\ ~held
    /\ held' = TRUE
    /\ log_file' = "none"
    /\ Goto("initLoad", <<>>)
    /\ UNCHANGED <<world, current_log_level, sent, lines>>

\* Mutant of InitLoad: the names of the levels are one off.
InitLoadLevelAbove ==
    /\ At("initLoad")
    /\ config.status = "usable"
    /\ current_log_level' = config.level + 1
    /\ Goto("initOwn", <<>>)
    /\ UNCHANGED <<world, held, log_file, sent, lines>>

\* config_load logs an error if there is a file but no configuration in it.
InitLoad ==
    /\ At("initLoad")
    /\ \/ /\ config.status = "usable"
          /\ current_log_level' = config.level
          /\ Goto("initOwn", <<>>)
       \/ /\ config.status = "absent"
          /\ Goto("initDefault", <<>>)
          /\ UNCHANGED current_log_level
       \/ /\ config.status = "bad"
          /\ Goto("initDefault", <<Call("msg", ERROR)>>)
          /\ UNCHANGED current_log_level
    /\ UNCHANGED <<world, held, log_file, sent, lines>>

\* mkdir_recursive makes the parents that are missing.
InitOwn ==
    /\ At("initOwn")
    /\ \/ /\ config.file = "own"
          /\ log_file' = IF ownOpens THEN "own" ELSE "none"
          /\ UNCHANGED cache
       \/ /\ config.file = "default"
          /\ cache' = IF cache = "denied" THEN cache ELSE "there"
          /\ log_file' = IF cache = "denied" THEN "none" ELSE "default"
       \/ /\ config.file = "empty"
          /\ log_file' = "none"
          /\ UNCHANGED cache
    /\ Goto("initDefault", <<>>)
    /\ UNCHANGED <<place, main, up, held, current_log_level, sent, lines>>

\* A plain mkdir, which needs the parent of the cache directory.
InitDefault ==
    /\ At("initDefault")
    /\ cache' = IF log_file = "none" /\ cache = "makeable" THEN "there" ELSE cache
    /\ log_file' = IF log_file = "none" /\ cache' = "there" THEN "default" ELSE log_file
    /\ Goto("initUnlock", <<>>)
    /\ UNCHANGED <<place, main, up, held, current_log_level, sent, lines>>

\* Mutant of InitUnlock: the line is logged before the mutex is given back.
InitLogThenUnlock ==
    /\ At("initUnlock")
    /\ Goto("initDone", <<Call("msg", INFO)>>)
    /\ UNCHANGED <<world, held, log_file, current_log_level, sent, lines>>

\* The mutex is given back before the line that says what the level is.
InitUnlock ==
    /\ At("initUnlock")
    /\ held' = FALSE
    /\ Goto("initDone", <<Call("msg", INFO)>>)
    /\ UNCHANGED <<world, log_file, current_log_level, sent, lines>>

InitDone ==
    /\ At("initDone")
    /\ Return
    /\ UNCHANGED <<world, held, log_file, current_log_level, sent, lines>>

-----------------------------------------------------------------------------
(* log_message.                                                            *)

\* Mutant of Filter: levels above the current one are left out as well.
FilterAbove ==
    /\ At("msg")
    /\ sent' = Append(sent, Top.level)
    /\ IF Top.level # current_log_level THEN Return ELSE Goto("msgLock", <<>>)
    /\ UNCHANGED <<world, held, log_file, current_log_level, lines>>

\* A message below the level ends here, before the mutex.
Filter ==
    /\ At("msg")
    /\ sent' = Append(sent, Top.level)
    /\ IF Top.level < current_log_level THEN Return ELSE Goto("msgLock", <<>>)
    /\ UNCHANGED <<world, held, log_file, current_log_level, lines>>

MsgLock ==
    /\ At("msgLock")
    /\ ~held
    /\ held' = TRUE
    /\ Goto("msgFile", <<>>)
    /\ UNCHANGED <<world, log_file, current_log_level, sent, lines>>

\* Without a log, logging_init is called with the mutex held.
MsgFile ==
    /\ At("msgFile")
    /\ Goto("msgWrite",
            IF log_file = "none" THEN <<Call("initLock", Top.level)>> ELSE <<>>)
    /\ UNCHANGED <<world, held, log_file, current_log_level, sent, lines>>

\* Mutant of MsgWrite: the mutex is kept when an error is printed.
MsgWriteKeepingMutex ==
    /\ At("msgWrite")
    /\ lines' = IF log_file = "none" THEN lines ELSE Append(lines, Top.level)
    /\ held' = (Top.level = ERROR)
    /\ Return
    /\ UNCHANGED <<world, log_file, current_log_level, sent>>

MsgWrite ==
    /\ At("msgWrite")
    /\ lines' = IF log_file = "none" THEN lines ELSE Append(lines, Top.level)
    /\ held' = FALSE
    /\ Return
    /\ UNCHANGED <<world, log_file, current_log_level, sent>>

-----------------------------------------------------------------------------
(* logging_cleanup.                                                        *)

Cleanup ==
    /\ At("cleanup")
    /\ ~held
    /\ log_file' = "none"
    /\ Return
    /\ UNCHANGED <<world, held, current_log_level, sent, lines>>

-----------------------------------------------------------------------------
(* main.                                                                   *)

\* main runs while it is in no call of logging.c; it goes on at m, after the
\* messages of the given levels.
MainAt(m) == calls = <<>> /\ main = m

MainTo(m, called) == main' = m /\ calls' = called

Still == UNCHANGED <<place, held, log_file, current_log_level, sent, lines>>

\* "hostman --version".
Version ==
    /\ MainAt("start")
    /\ MainTo("returned", <<>>)
    /\ Still /\ UNCHANGED <<cache, up>>

Start ==
    /\ MainAt("start")
    /\ MainTo("stat", <<Call("initLock", INFO)>>)
    /\ Still /\ UNCHANGED <<cache, up>>

\* A missing config.json is a first run.  encryption_init never fails.
Stat ==
    /\ MainAt("stat")
    /\ \/ /\ config.status = "absent"
          /\ MainTo("wizard", <<Call("msg", INFO)>>)
          /\ UNCHANGED up
       \/ /\ config.status # "absent"
          /\ up' = up \union {"encryption"}
          /\ MainTo("network", <<>>)
    /\ Still /\ UNCHANGED cache

\* run_setup_wizard, which may log an error, and whose result main returns at
\* once: the log stays open.
Wizard ==
    /\ MainAt("wizard")
    /\ cache' = IF cache = "makeable" THEN "there" ELSE cache
    /\ \E called \in {<<>>, <<Call("msg", ERROR)>>} : MainTo("returned", called)
    /\ Still /\ UNCHANGED up

\* network_init says whether there is HTTP/2, and may then fail, which main
\* logs: the innermost call, the last one, runs first.
Network ==
    /\ MainAt("network")
    /\ \E l \in {INFO, WARN} :
          \/ /\ up' = up \union {"network"}
             /\ MainTo("db", <<Call("msg", l)>>)
          \/ /\ MainTo("networkDown", <<Call("msg", ERROR), Call("msg", l)>>)
             /\ UNCHANGED up
    /\ Still /\ UNCHANGED cache

\* encryption_cleanup and logging_cleanup.
NetworkDown ==
    /\ MainAt("networkDown")
    /\ up' = up \ {"encryption"}
    /\ MainTo("returned", <<Call("cleanup", INFO)>>)
    /\ Still /\ UNCHANGED cache

\* What the migration logs: nothing, that it cannot look for the column, or that
\* the column is not there and whether it could be added.
Migrated ==
    {<<>>, <<Call("msg", ERROR)>>} \union
    {<<Call("msg", l), Call("msg", INFO)>> : l \in {INFO, WARN}}

\* db_init makes the cache directory with a plain mkdir.
DbUp ==
    /\ MainAt("db")
    /\ cache \in {"there", "makeable"}
    /\ cache' = "there"
    /\ up' = up \union {"db"}
    /\ \E called \in Migrated : MainTo("parse", called)
    /\ Still

\* It logs why, and main logs that it failed.
DbFails ==
    /\ MainAt("db")
    /\ MainTo("dbDown", <<Call("msg", ERROR), Call("msg", ERROR)>>)
    /\ Still /\ UNCHANGED <<cache, up>>

\* Mutant of DbDown: network_cleanup is left out.
DbDownNetworkUp ==
    /\ MainAt("dbDown")
    /\ up' = up \ {"encryption"}
    /\ MainTo("returned", <<Call("cleanup", INFO), Call("cleanup", INFO)>>)
    /\ Still /\ UNCHANGED cache

\* network_cleanup, encryption_cleanup, and logging_cleanup twice.
DbDown ==
    /\ MainAt("dbDown")
    /\ up' = up \ {"network", "encryption"}
    /\ MainTo("returned", <<Call("cleanup", INFO), Call("cleanup", INFO)>>)
    /\ Still /\ UNCHANGED cache

\* parse_args reads the options.
ParseArgs ==
    /\ MainAt("parse")
    /\ MainTo("command", <<>>)
    /\ Still /\ UNCHANGED <<cache, up>>

\* The help of a command, which an unknown option gets as well, ends the process
\* there and then: exit closes its files and takes nothing down.
ParseExits ==
    /\ MainAt("parse")
    /\ MainTo("exited", <<>>)
    /\ Still /\ UNCHANGED <<cache, up>>

\* A message of the command, or of what looks for its files.
Message ==
    /\ MainAt("command")
    /\ Len(sent) < MaxMessages
    /\ \E l \in Levels : MainTo("command", <<Call("msg", l)>>)
    /\ Still /\ UNCHANGED <<cache, up>>

\* execute_command returns.
CommandEnds ==
    /\ MainAt("command")
    /\ MainTo("over", <<>>)
    /\ Still /\ UNCHANGED <<cache, up>>

\* encryption_cleanup, network_cleanup, db_close and logging_cleanup.
TakeDown ==
    /\ MainAt("over")
    /\ up' = up \ {"encryption", "network", "db"}
    /\ MainTo("returned", <<Call("cleanup", INFO)>>)
    /\ Still /\ UNCHANGED cache

-----------------------------------------------------------------------------

InLogging ==
    \/ InitLock \/ InitLoad \/ InitOwn \/ InitDefault \/ InitUnlock \/ InitDone
    \/ Filter \/ MsgLock \/ MsgFile \/ MsgWrite
    \/ Cleanup

\* The steps of main that wait for nobody.
OnItsOwn ==
    \/ Start \/ Stat
    \/ Network \/ NetworkDown
    \/ DbUp \/ DbFails \/ DbDown
    \/ TakeDown

InMain ==
    \/ OnItsOwn
    \/ Version \/ Wizard
    \/ ParseArgs \/ ParseExits
    \/ Message \/ CommandEnds

Next == InLogging \/ InMain

Spec == Init /\ [][Next]_vars

\* One thread, which the system schedules.  The others are not fair: the wizard
\* asks, parse_args may read file names from a user, and the command may ask too,
\* or wait for a host without a limit (cli.c:1936-1952).
FairSpec == Spec /\ WF_vars(InLogging \/ OnItsOwn)

-----------------------------------------------------------------------------
(* Properties.                                                             *)

Configured == config.status = "usable"

\* Whether logging_init finds a log it can open.
CanLog ==
    \/ config.status = "absent" /\ cache \in {"there", "makeable"}
    \/ /\ Configured
       /\ \/ config.file = "own" /\ ownOpens
          \/ config.file = "default" /\ cache # "denied"
          \/ cache \in {"there", "makeable"}

Stuck == (At("initLock") \/ At("msgLock") \/ At("cleanup")) /\ held

\* The mutex is free whenever no call of logging.c is going on: every way out of
\* these functions gives it back (logging.c:109-180, 200-257).
MutexIsFree == calls = <<>> => ~held

\* The program waits for its own mutex only if config.json is there and cannot
\* be used, or no log can be opened (logging.c:117, 202).
StuckOnlyWithoutLog == Stuck => config.status = "bad" \/ ~CanLog

\* The messages sent so far that the level lets through.
Wanted == {i \in DOMAIN sent : sent[i] >= current_log_level}

\* Between two messages, the log holds every message sent so far whose level is
\* at least the configured one, in order, and no other (logging.c:195, 240-251):
\* the line of a message is the one that as many messages lead to.  Nothing is
\* dropped for want of a log.  For a log_file that is "", see
\* EmptyFileDisablesLogging.
LinesAreComplete ==
    calls = <<>> /\ config.file # "empty" =>
        /\ Len(lines) = Cardinality(Wanted)
        /\ \A i \in Wanted : lines[Cardinality({j \in Wanted : j <= i})] = sent[i]

\* When main returns it has taken down all it had brought up, whichever step had
\* failed, and closed the log, but for the first run's, which stays open
\* (main.c:21-77).  When parse_args ends the process (cli.c:542, 570, 613, 736,
\* 990), all that was brought up still is.
TakenDown ==
    calls = <<>> =>
        /\ main = "returned" =>
              /\ up = {}
              /\ config.status # "absent" => log_file = "none"
        /\ main = "exited" => up = {"encryption", "network", "db"}

\* Where main waits for its user, for a host or for nothing any more.
Waits ==
    /\ calls = <<>>
    /\ main \in {"wizard", "parse", "command", "returned", "exited"}

\* Where a log can be opened, nothing that main does on its own keeps it from
\* getting there: not the start, no message of the command, not what it takes
\* down when the command is over (main.c:27-77, logging.c:107-271).
MainGoesOn == (main # "start" /\ CanLog) ~> Waits

\* The first run gets to the setup wizard (man/hostman-config.5:10).
FirstRunStarts == config.status = "absent" => ~Stuck

\* "If empty or absent, logging is disabled" (man/hostman-config.5:56).
EmptyFileDisablesLogging == Configured /\ config.file = "empty" => lines = <<>>
=============================================================================
