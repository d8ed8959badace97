------------------------------ MODULE Clipboard ------------------------------
(***************************************************************************)
(* Which program the clipboard is read with, and what is made of what it   *)
(* holds (src/core/utils.c).  There are no steps here: CommandLine takes   *)
(* them.                                                                   *)
(***************************************************************************)
EXTENDS Naturals, Sequences

NoTool == "none"

Readers == {"wl-paste", "xclip", "xsel", "pbpaste"}

\* XDG_SESSION_TYPE, whether DISPLAY and WAYLAND_DISPLAY are set, and which
\* programs the directories of PATH have.
Environment ==
    [session : {"x11", "wayland", "other"}, display : BOOLEAN,
     waylandDisplay : BOOLEAN, installed : SUBSET Readers]

\* What was copied: the URI of a file, one with the host name localhost, one of
\* several files, the path of a file, or other words; and an image or none.
Copied ==
    [text : {"none", "uri", "localhost", "uris", "path", "words"}, image : BOOLEAN]

\* find_command_in_path, for one after the other.
FirstInstalled(order, env) ==
    LET found == {k \in DOMAIN order : order[k] \in env.installed}
    IN  IF found = {}
        THEN NoTool
        ELSE order[CHOOSE k \in found : \A j \in found : k <= j]

AnyReader == <<"wl-paste", "xclip", "xsel", "pbpaste">>

\* Mutant of PreferredReaders: what is installed decides, not the session.
NoPreferredReaders(env) == <<>>

PreferredReaders(env) ==
    IF env.session = "wayland"
    THEN <<"wl-paste">>
    ELSE (IF env.display THEN <<"xclip", "xsel">> ELSE <<>>)
            \o (IF env.waylandDisplay THEN <<"wl-paste">> ELSE <<>>)

\* detect_clipboard_reader
Reader(env) == FirstInstalled(PreferredReaders(env) \o AnyReader, env)

\* A program finds the clipboard if its display is there.
Reaches(tool, env) ==
    CASE tool = "wl-paste" -> env.waylandDisplay
      [] tool \in {"xclip", "xsel"} -> env.display
      [] OTHER -> FALSE

\* run_command_capture succeeds if the clipboard has what is asked for.
\* get_clipboard_text asks for text/uri-list, then for text/plain.
HasText(env, copied) == Reaches(Reader(env), env) /\ copied.text # "none"

\* read_clipboard_file_path takes the first line.  It cannot decode the URI of a
\* file on localhost: the slash before the path is taken for the end of the name.
HasFile(env, copied) ==
    HasText(env, copied) /\ copied.text \in {"uri", "uris", "path"}

\* read_clipboard_to_temp_file asks for the types of images one after the
\* other; xsel and pbpaste have no way to ask.
HasImage(env, copied) ==
    /\ Reaches(Reader(env), env)
    /\ Reader(env) \in {"wl-paste", "xclip"}
    /\ copied.image
=============================================================================
