----------------------------- MODULE CommandLine -----------------------------
(***************************************************************************)
(* From argv to the exit code: parse_args, which also collects the files   *)
(* of an upload, execute_command as far as it depends on them, and         *)
(* free_command_args (src/cli/cli.c, src/main.c).                          *)
(*                                                                         *)
(* parse_args is written as what it returns; it has no effects but those   *)
(* of a clipboard upload, which reads the clipboard and may leave an image *)
(* in a temporary file.                                                    *)
(***************************************************************************)
EXTENDS Clipboard, SequencesExt

CONSTANTS
    Argvs,      \* argument lists, without the name of the program
    Commands,   \* the commands there are, of those of the program
    Numbers     \* words that are numbers: a function to what atoi makes of them

-----------------------------------------------------------------------------
(* Words.                                                                  *)

Globals == {"--json", "--quiet", "-q", "--verbose", "--no-color"}

\* The options of the commands that use getopt_long: with an argument, without.
WithArgument ==
    [c \in {"upload", "list-uploads", "list-hosts", "delete-upload", "delete-file"} |->
        CASE c = "upload" -> {"--host", "--directory", "--throttle"}
          [] c = "list-uploads" -> {"--host", "--page", "--limit"}
          [] OTHER -> {}]

Flags ==
    [c \in DOMAIN WithArgument |->
        IF c = "upload"
        THEN {"--continue-on-error", "--no-clipboard", "--insecure", "--clipboard"}
        ELSE {}]

\* Commands that want a word, commands that want none.
Worded == {"import-host", "add-preset", "remove-host", "set-default-host"}
Wordless == {"add-host", "list-presets"}

ProgramCommands == DOMAIN WithArgument \union Worded \union Wordless \union {"config", "help"}

NoWord == "(null)"

ASSUME CommandLineAssumption ==
    /\ Commands \subseteq ProgramCommands
    /\ Argvs \subseteq Seq(STRING)
    /\ \A argv \in Argvs : NoWord \notin Range(argv)

AllOptions == UNION {WithArgument[c] \union Flags[c] : c \in DOMAIN WithArgument}

\* Words that begin with a dash.
Dashed == Globals \union AllOptions \union {"--", "--help", "--unknown"}

Atoi(word) == IF word \in DOMAIN Numbers THEN Numbers[word] ELSE 0

-----------------------------------------------------------------------------
(* parse_args.                                                             *)

Output == [mode |-> "normal", color |-> TRUE, notify |-> TRUE]

\* What a global option does, wherever it is seen.
WithGlobal(out, word) ==
    CASE word = "--json" -> [out EXCEPT !.mode = "json", !.color = FALSE]
      [] word \in {"--quiet", "-q"} -> [out EXCEPT !.mode = "quiet", !.notify = FALSE]
      [] word = "--verbose" -> [out EXCEPT !.mode = "verbose"]
      [] word = "--no-color" -> [out EXCEPT !.color = FALSE]
      [] OTHER -> out

\* What they do one after the other.
OutputAfter(out, words) ==
    LET after[s \in Seq(STRING)] ==
            IF s = <<>> THEN out ELSE WithGlobal(after[Front(s)], Last(s))
    IN  after[words]

\* The place of the command: the first word without a dash.
CommandAt(argv) ==
    LET words == {k \in DOMAIN argv : argv[k] \notin Dashed}
    IN  IF words = {} THEN 0 ELSE CHOOSE k \in words : \A j \in words : k <= j

After(argv, k) == SubSeq(argv, k + 1, Len(argv))

\* One word for getopt_long, which takes options and other words in any order.
\* help stands for '?': --help, an option it does not know, or an argument that
\* is missing in the end; each prints the help and leaves the program.
Scan(c, seen, word) ==
    CASE seen.help -> seen
      [] ~seen.help /\ seen.wants # NoWord ->
            [seen EXCEPT !.value[seen.wants] = word, !.wants = NoWord]
      [] ~seen.help /\ seen.wants = NoWord /\ (seen.ended \/ word \notin Dashed) ->
            [seen EXCEPT !.words = Append(@, word)]
      [] OTHER ->
            CASE word = "--" -> [seen EXCEPT !.ended = TRUE]
              [] word \in WithArgument[c] -> [seen EXCEPT !.wants = word]
              [] word \in Flags[c] -> [seen EXCEPT !.flags = @ \union {word}]
              [] word \in Globals -> [seen EXCEPT !.out = WithGlobal(@, word)]
              [] OTHER -> [seen EXCEPT !.help = TRUE]

\* The words one after the other.
Scanned(c, out, words) ==
    LET start == [out |-> out, flags |-> {}, words |-> <<>>, wants |-> NoWord,
                  value |-> [o \in WithArgument[c] |-> NoWord],
                  ended |-> FALSE, help |-> FALSE]
        seen[s \in Seq(STRING)] ==
            IF s = <<>> THEN start ELSE Scan(c, seen[Front(s)], Last(s))
    IN  seen[words]

GetOpt(c, out, words) ==
    LET end == Scanned(c, out, words)
    IN  [end EXCEPT !.help = @ \/ end.wants # NoWord]

\* What parse_args returns: a command, or "unknown"; over is whether it leaves
\* the program instead, with exit code 0.
Args(type, over, out, flags, value, words) ==
    [type |-> type, over |-> over, out |-> out, flags |-> flags, value |-> value,
     words |-> words]

Simple(type, out, words) == Args(type, FALSE, out, {}, <<>>, words)

\* At least one, as --page and --limit are.
AtLeastOne(word) == IF word = NoWord \/ Atoi(word) >= 1 THEN word ELSE "1"

ParseOptions(c, out, words) ==
    LET got == GetOpt(c, out, words)
        id == IF got.words = <<>> THEN 0 ELSE Atoi(got.words[1])
        type == IF c \in {"delete-upload", "delete-file"} /\ id <= 0 THEN "unknown" ELSE c
        value == IF c = "list-uploads"
                 THEN [o \in DOMAIN got.value |->
                         IF o = "--host" THEN got.value[o] ELSE AtLeastOne(got.value[o])]
                 ELSE got.value
    IN  Args(type, got.help, got.out, got.flags, value, got.words)

ParseConfig(out, words) ==
    IF \/ words = <<>>
       \/ words[1] = "get" /\ Len(words) >= 2
       \/ words[1] = "set" /\ Len(words) >= 3
    THEN Simple("config", out, words)
    ELSE Simple("unknown", out, <<>>)

\* The words of a list that are in W, in their order.
Only(words, W) ==
    LET only[s \in Seq(STRING)] ==
            IF s = <<>> THEN <<>>
            ELSE IF Last(s) \in W THEN Append(only[Front(s)], Last(s)) ELSE only[Front(s)]
    IN  only[words]

\* Mutant of OtherWords: global options are looked for before the command only.
AllWords(words) == words

OtherWords(words) == Only(words, STRING \ Globals)

Parse(argv) ==
    LET out == OutputAfter(Output, argv)
        k == CommandAt(argv)
        rest == After(argv, k)
        words == OtherWords(rest)
    IN  CASE k = 0 -> Simple("unknown", out, <<>>)
          [] k # 0 /\ argv[k] \notin Commands -> Simple("unknown", out, <<>>)
          [] OTHER ->
               LET c == argv[k]
               IN  CASE c \in DOMAIN WithArgument -> ParseOptions(c, out, rest)
                     [] c \in Worded /\ words # <<>> -> Simple(c, out, <<words[1]>>)
                     [] c \in Worded /\ words = <<>> -> Simple("unknown", out, <<>>)
                     [] c \in Wordless -> Simple(c, out, <<>>)
                     [] c = "config" -> ParseConfig(out, words)
                     [] c = "help" ->
                          Simple(c, out, IF rest = <<>> THEN <<"general">> ELSE <<rest[1]>>)

-----------------------------------------------------------------------------
(* The program.                                                            *)

CopiedFile == "copied file"
TempFile == "temporary file"

Unread == [session |-> "other", display |-> FALSE, waylandDisplay |-> FALSE,
           installed |-> {}]

VARIABLES
    argv,       \* argv
    env,        \* where the clipboard is, Unread before anyone looks
    copied,     \* what it holds
    at,         \* where main is
    args,       \* args
    files,      \* args.file_paths
    clipboard_temp_file,  \* whether args.clipboard_temp_file is set
    temp,       \* the temporary file: "none", "empty", "cut" or "whole"
    sent,       \* history: what the upload found of it
    exit        \* the exit code

vars == <<argv, env, copied, at, args, files, clipboard_temp_file, temp, sent, exit>>

FromClipboard == args.type = "upload" /\ "--clipboard" \in args.flags

Init ==
    /\ argv \in Argvs
    /\ env = Unread
    /\ copied = [text |-> "none", image |-> FALSE]
    /\ at = "parse"
    /\ args = Simple("unknown", Output, <<>>)
    /\ files = <<>>
    /\ clipboard_temp_file = FALSE
    /\ temp = "none"
    /\ sent = "none"
    /\ exit = "none"

world == <<argv, env, copied>>
paths == <<files, clipboard_temp_file>>

Refuse ==
    /\ args' = [args EXCEPT !.type = "unknown"]
    /\ at' = "execute"

ParseArgs ==
    /\ at = "parse"
    /\ args' = Parse(argv)
    /\ at' = CASE args'.over -> "over"
               [] ~args'.over /\ args'.type = "upload" -> "files"
               [] OTHER -> "execute"
    /\ exit' = IF args'.over THEN "success" ELSE "none"
    /\ UNCHANGED <<world, paths, temp, sent>>

Collecting == at = "files"

\* The clipboard instead of files: nothing else may be named.
RefuseBoth ==
    /\ Collecting
    /\ FromClipboard
    /\ args.value["--directory"] # NoWord \/ args.words # <<>>
    /\ Refuse
    /\ UNCHANGED <<world, paths, temp, sent, exit>>

LookAtClipboard ==
    /\ Collecting
    /\ FromClipboard
    /\ args.value["--directory"] = NoWord
    /\ args.words = <<>>
    /\ env' \in Environment
    /\ copied' \in Copied
    /\ at' = "clipboard"
    /\ UNCHANGED <<argv, args, paths, temp, sent, exit>>

TakeCopiedFile ==
    /\ at = "clipboard"
    /\ HasFile(env, copied)
    /\ files' = <<CopiedFile>>
    /\ at' = "execute"
    /\ UNCHANGED <<world, args, clipboard_temp_file, temp, sent, exit>>

\* The cache directory and the file can be made.
CreateTemp ==
    /\ at = "clipboard"
    /\ ~HasFile(env, copied)
    /\ HasImage(env, copied)
    /\ temp' = "empty"
    /\ at' = "write"
    /\ UNCHANGED <<world, args, paths, sent, exit>>

\* Nothing is found, or one of them cannot be made.
NoImage ==
    /\ at = "clipboard"
    /\ ~HasFile(env, copied)
    /\ Refuse
    /\ UNCHANGED <<world, paths, temp, sent, exit>>

\* All of the image was written; what fclose could not flush is lost unnoticed.
WriteTemp ==
    /\ at = "write"
    /\ temp' \in {"whole", "cut"}
    /\ files' = <<TempFile>>
    /\ clipboard_temp_file' = TRUE
    /\ at' = "execute"
    /\ UNCHANGED <<world, args, sent, exit>>

\* Mutant of WriteTempFails: what was written so far stays.
WriteTempFailsAndStays ==
    /\ at = "write"
    /\ temp' = "cut"
    /\ Refuse
    /\ UNCHANGED <<world, paths, sent, exit>>

WriteTempFails ==
    /\ at = "write"
    /\ temp' = "none"
    /\ Refuse
    /\ UNCHANGED <<world, paths, sent, exit>>

\* The regular files of a directory, if there are any; words are not looked at.
TakeDirectory ==
    /\ Collecting
    /\ ~FromClipboard
    /\ args.value["--directory"] # NoWord
    /\ \/ files' = <<"file in it">> /\ at' = "execute" /\ UNCHANGED args
       \/ Refuse /\ UNCHANGED files
    /\ UNCHANGED <<world, clipboard_temp_file, temp, sent, exit>>

TakeWords ==
    /\ Collecting
    /\ ~FromClipboard
    /\ args.value["--directory"] = NoWord
    /\ args.words # <<>>
    /\ files' = args.words
    /\ at' = "execute"
    /\ UNCHANGED <<world, args, clipboard_temp_file, temp, sent, exit>>

\* Without words the lines of the standard input are the files, unless it is a
\* terminal or there are none.
TakeStdin ==
    /\ Collecting
    /\ ~FromClipboard
    /\ args.value["--directory"] = NoWord
    /\ args.words = <<>>
    /\ \/ files' = <<"line">> /\ at' = "execute" /\ UNCHANGED args
       \/ Refuse /\ UNCHANGED files
    /\ UNCHANGED <<world, clipboard_temp_file, temp, sent, exit>>

\* execute_command; an upload reads its files.
Execute ==
    /\ at = "execute"
    /\ exit' \in IF args.type = "unknown" THEN {"failure"} ELSE {"success", "failure"}
    /\ sent' = IF args.type = "upload" /\ clipboard_temp_file THEN temp ELSE "none"
    /\ at' = "cleanup"
    /\ UNCHANGED <<world, args, paths, temp>>

\* free_command_args removes the temporary file the arguments name.
Cleanup ==
    /\ at = "cleanup"
    /\ temp' = IF clipboard_temp_file THEN "none" ELSE temp
    /\ at' = "over"
    /\ UNCHANGED <<world, args, paths, sent, exit>>

\* Nothing removes it then.
Kill ==
    /\ at \notin {"over", "killed"}
    /\ at' = "killed"
    /\ UNCHANGED <<world, args, paths, temp, sent, exit>>

Next ==
    \/ ParseArgs
    \/ RefuseBoth
    \/ LookAtClipboard
    \/ TakeCopiedFile
    \/ CreateTemp
    \/ NoImage
    \/ WriteTemp
    \/ WriteTempFails
    \/ TakeDirectory
    \/ TakeWords
    \/ TakeStdin
    \/ Execute
    \/ Cleanup
    \/ Kill

Spec == Init /\ [][Next]_vars

-----------------------------------------------------------------------------
(* Properties.                                                             *)

\* Global options that are neither an option's argument nor after "--".
GlobalsAreOptions ==
    \A k \in DOMAIN argv :
        argv[k] \in Globals =>
            /\ k > 1 => argv[k - 1] \notin AllOptions \ UNION {Flags[c] : c \in DOMAIN Flags}
            /\ \A j \in 1 .. k : argv[j] # "--"

GlobalsFirst == Only(argv, Globals) \o Only(argv, STRING \ Globals)

\* Nobody looks at what arguments say that lead to a help text and out.
SameMeaning(a, b) == a = b \/ (a.over /\ b.over)

\* Global options mean the same wherever they are, before the command, behind
\* it or between its words (cli.c:471-511, and the loops over is_global_option
\* and calls of getopt_long of each command, cli.c:541-1167).  Only help does
\* not look for them.
GlobalOptionsCanBeAnywhere ==
    at = "over" /\ GlobalsAreOptions /\ Parse(argv).type # "help" =>
        SameMeaning(Parse(GlobalsFirst), Parse(argv))

\* The image of a clipboard upload is in its file when the upload reads it, and
\* the file is gone in the end, however parsing and the upload went
\* (utils.c:883-904, cli.c:2123-2132), if nobody interrupts the program.
TempFileLives ==
    /\ at = "execute" /\ clipboard_temp_file => temp \in {"whole", "cut"}
    /\ sent # "empty"
    /\ at = "over" => temp = "none"

\* A file that was copied is what a clipboard upload sends if an installed
\* program reaches the clipboard, whichever others are there too and do not
\* (utils.c:461-513, 745-793).  XDG_SESSION_TYPE says wayland only where there
\* is a Wayland display.
CopiedFileIsUploaded ==
    /\ at = "execute"
    /\ \E tool \in env.installed : Reaches(tool, env)
    /\ env.session = "wayland" => env.waylandDisplay
    /\ copied.text \in {"uri", "uris", "path"}
    => files = <<CopiedFile>>
=============================================================================
