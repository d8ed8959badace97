---------------------------- MODULE BatchReport -----------------------------
(***************************************************************************)
(* What the upload command promises of a list of files: each is settled    *)
(* once, in the order given, as uploaded or as failed; a failure is the    *)
(* last one unless the command was told to continue; and the exit code     *)
(* tells whether all of them were uploaded.                                *)
(***************************************************************************)
EXTENDS Naturals, Sequences

VARIABLES
    fileCount,  \* how many files there are
    settled,    \* what has become of the files so far
    keepGoing,  \* --continue-on-error
    exit        \* "none" until the command ends

batchVars == <<fileCount, settled, keepGoing, exit>>

Init ==
    /\ fileCount \in Nat \ {0}
    /\ settled = <<>>
    /\ keepGoing \in BOOLEAN
    /\ exit = "none"

SomeFailed == \E k \in DOMAIN settled : settled[k] = "failed"

Stopped == Len(settled) = fileCount \/ (SomeFailed /\ ~keepGoing)

Settle ==
    /\ exit = "none"
    /\ ~Stopped
    /\ \E r \in {"uploaded", "failed"} : settled' = Append(settled, r)
    /\ UNCHANGED <<fileCount, keepGoing, exit>>

Finish ==
    /\ exit = "none"
    /\ Stopped
    /\ exit' = IF SomeFailed THEN "failure" ELSE "success"
    /\ UNCHANGED <<fileCount, settled, keepGoing>>

\* There is no configuration, or no host to upload to.
Refuse ==
    /\ exit = "none"
    /\ settled = <<>>
    /\ exit' = "failure"
    /\ UNCHANGED <<fileCount, settled, keepGoing>>

Next == Settle \/ Finish \/ Refuse

Spec == Init /\ [][Next]_batchVars
=============================================================================
