---------------------------- MODULE MCCommandLine ----------------------------
(***************************************************************************)
(* CommandLine for TLC: for one command of each kind, every list of at     *)
(* most MaxWords words, one more for config, that its options, the global  *)
(* options and the words it looks for allow.                               *)
(***************************************************************************)
EXTENDS CommandLine

CONSTANTS
    MaxWords    \* bound: words behind the name of the program

MCCommands == ProgramCommands

MCNumbers == ("7" :> 7) @@ ("0" :> 0)

Words(c) ==
    {"--json", "--quiet", "name", c} \union
        CASE c = "upload" -> {"--host", "--directory", "--clipboard", "--"}
          [] c = "list-uploads" -> {"--page", "0", "--no-color"}
          [] c = "delete-upload" -> {"7", "--help"}
          [] c = "list-hosts" -> {"--verbose", "--unknown"}
          [] c = "remove-host" -> {"-q", "--help"}
          [] c = "config" -> {"get", "set"}
          [] OTHER -> {}

Lists(set, n) == UNION {[1 .. k -> set] : k \in 0 .. n}

Length(c) == IF c = "config" THEN MaxWords + 1 ELSE MaxWords

MCArgvs == UNION {Lists(Words(c), Length(c)) :
                     c \in {"upload", "list-uploads", "delete-upload", "list-hosts",
                            "remove-host", "add-host", "config", "help"}}
=============================================================================
