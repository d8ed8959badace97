------------------------------- MODULE Upload -------------------------------
(***************************************************************************)
(* The command "upload" (src/cli/cli.c, CMD_UPLOAD): a list of files, one  *)
(* call of network_upload_file for each, a row of the history for each     *)
(* success, the clipboard and the exit code.                               *)
(***************************************************************************)
EXTENDS Transfer

CONSTANTS
    MaxFiles,   \* bound: files in the list
    Faults      \* "busy": the database is locked;
                \* "kill": the process is interrupted

ASSUME UploadAssumption ==
    /\ MaxFiles \in Nat \ {0}
    /\ Uploads = 1 .. MaxFiles
    /\ Faults \subseteq {"busy", "kill"}

VARIABLES
    step,       \* where the command is
    fileCount,  \* args->file_count
    index,      \* the file it is at
    present,    \* the files that exist
    options,    \* continue_on_error, whether URLs go to the clipboard, and
                \* whether there is one, which takes them
    urls,       \* success_urls, each with the file it is for
    failed,     \* failed_files
    history,    \* the URLs in the uploads table
    clipboard,  \* what copy_to_clipboard has left there
    exit        \* the exit code

commandVars == <<step, fileCount, index, present, options, urls, failed, history,
                 clipboard, exit>>

vars == <<transferVars, commandVars>>

Options == [keepGoing : BOOLEAN, clip : BOOLEAN, canCopy : BOOLEAN]

Url == Copy \union {Garbled}

TypeOK ==
    /\ TransferTypeOK
    /\ step \in {"start", "file", "network", "record", "summary", "over",
                 "undefined", "killed"}
    /\ fileCount \in Uploads
    /\ index \in 1 .. fileCount + 1
    /\ present \subseteq Uploads
    /\ options \in Options
    /\ urls \in Seq([file : Uploads, url : Url])
    /\ failed \in Seq(Uploads)
    /\ history \subseteq Url
    /\ clipboard \in Seq(Url)
    /\ exit \in {"none", "success", "failure"}

Init ==
    /\ TransferInit
    /\ step = "start"
    /\ fileCount \in Uploads
    /\ index = 1
    /\ present \in SUBSET Uploads
    /\ options \in Options
    /\ urls = <<>>
    /\ failed = <<>>
    /\ history = {}
    /\ clipboard = <<>>
    /\ exit = "none"

IsBatch == fileCount > 1

-----------------------------------------------------------------------------

\* The configuration and the host are there, or they are not.
Resolve ==
    /\ step = "start"
    /\ \/ step' = "file" /\ UNCHANGED exit
       \/ step' = "over" /\ exit' = "failure"
    /\ UNCHANGED <<transferVars, fileCount, index, present, options, urls, failed,
                   history, clipboard>>

\* Mutant of GoOn: the loop runs one file too far.
GoOnOneMore ==
    /\ step' = IF index <= fileCount THEN "file" ELSE "summary"
    /\ index' = index + 1

\* To the file after this one, or out of the loop.
GoOn ==
    /\ step' = IF index < fileCount THEN "file" ELSE "summary"
    /\ index' = index + 1

\* Mutant of CountFailure: --continue-on-error is not looked at.
CountAndGoOn ==
    /\ failed' = Append(failed, index)
    /\ GoOn

\* Mutant of CountFailure: the file that failed is tried again.
CountAndRepeat ==
    /\ failed' = Append(failed, index)
    /\ IF options.keepGoing
       THEN step' = "file" /\ UNCHANGED index
       ELSE step' = "summary" /\ UNCHANGED index

CountFailure ==
    /\ failed' = Append(failed, index)
    /\ IF options.keepGoing
       THEN GoOn
       ELSE step' = "summary" /\ UNCHANGED index

FileMissing ==
    /\ step = "file"
    /\ index \notin present
    /\ CountFailure
    /\ UNCHANGED <<transferVars, fileCount, present, options, urls, history, clipboard, exit>>

UploadFile ==
    /\ step = "file"
    /\ index \in present
    /\ Call(index)
    /\ step' = "network"
    /\ UNCHANGED <<fileCount, index, present, options, urls, failed, history, clipboard, exit>>

NotUploaded ==
    /\ step = "network"
    /\ pc = "returned"
    /\ response.success = "no"
    /\ CountFailure
    /\ UNCHANGED <<transferVars, fileCount, present, options, urls, history, clipboard, exit>>

\* network_upload_file has returned without having set success: what is read,
\* printed and freed now is whatever malloc found.
ReadUnset ==
    /\ step = "network"
    /\ pc = "returned"
    /\ response.success = Unset
    /\ step' = "undefined"
    /\ UNCHANGED <<transferVars, fileCount, index, present, options, urls, failed, history,
                   clipboard, exit>>

\* copy_to_clipboard fails where there is no clipboard and on a long text.
CopyTo(text) == clipboard' = IF options.canCopy THEN text ELSE clipboard

\* A single file's URL goes to the clipboard before it goes into the history.
Uploaded ==
    /\ step = "network"
    /\ pc = "returned"
    /\ response.success = "yes"
    /\ urls' = Append(urls, [file |-> index, url |-> response.url])
    /\ IF ~IsBatch /\ options.clip
       THEN CopyTo(<<response.url>>)
       ELSE UNCHANGED clipboard
    /\ step' = "record"
    /\ UNCHANGED <<transferVars, fileCount, index, present, options, failed, history, exit>>

\* Mutant of Record: the URL of the file before is recorded.
RecordBefore ==
    /\ step = "record"
    /\ history' = history \union
           {IF index = 1 THEN Garbled ELSE <<index - 1, retry_count + 1>>}
    /\ GoOn
    /\ UNCHANGED <<transferVars, fileCount, present, options, urls, failed, clipboard, exit>>

\* db_add_upload: a URL that is there already stays as it is.
Record ==
    /\ step = "record"
    /\ history' = history \union {response.url}
    /\ GoOn
    /\ UNCHANGED <<transferVars, fileCount, present, options, urls, failed, clipboard, exit>>

\* Nobody looks at what db_add_upload returns.
RecordFails ==
    /\ "busy" \in Faults
    /\ step = "record"
    /\ GoOn
    /\ UNCHANGED <<transferVars, fileCount, present, options, urls, failed, history,
                   clipboard, exit>>

\* Mutant of Summary: the clipboard gets the last URL only.
SummaryLastUrl ==
    /\ step = "summary"
    /\ IF IsBatch /\ urls # <<>> /\ options.clip
       THEN CopyTo(<<urls[Len(urls)].url>>)
       ELSE UNCHANGED clipboard
    /\ exit' = IF failed # <<>> THEN "failure" ELSE "success"
    /\ step' = "over"
    /\ UNCHANGED <<transferVars, fileCount, index, present, options, urls, failed, history>>

\* Mutant of Summary: one success is enough for exit code 0.
SummaryAnySuccess ==
    /\ step = "summary"
    /\ IF IsBatch /\ urls # <<>> /\ options.clip
       THEN CopyTo([k \in DOMAIN urls |-> urls[k].url])
       ELSE UNCHANGED clipboard
    /\ exit' = IF urls = <<>> THEN "failure" ELSE "success"
    /\ step' = "over"
    /\ UNCHANGED <<transferVars, fileCount, index, present, options, urls, failed, history>>

Summary ==
    /\ step = "summary"
    /\ IF IsBatch /\ urls # <<>> /\ options.clip
       THEN CopyTo([k \in DOMAIN urls |-> urls[k].url])
       ELSE UNCHANGED clipboard
    /\ exit' = IF failed # <<>> THEN "failure" ELSE "success"
    /\ step' = "over"
    /\ UNCHANGED <<transferVars, fileCount, index, present, options, urls, failed, history>>

Kill ==
    /\ "kill" \in Faults
    /\ step \notin {"over", "undefined", "killed"}
    /\ step' = "killed"
    /\ UNCHANGED <<transferVars, fileCount, index, present, options, urls, failed, history,
                   clipboard, exit>>

-----------------------------------------------------------------------------

Network == step = "network" /\ (Client \/ Exchange) /\ UNCHANGED commandVars

Command ==
    \/ Resolve
    \/ FileMissing
    \/ UploadFile
    \/ NotUploaded
    \/ ReadUnset
    \/ Uploaded
    \/ Record
    \/ RecordFails
    \/ Summary

Next ==
    \/ Command
    \/ Network
    \/ HostStores /\ UNCHANGED commandVars
    \/ Kill

Spec == Init /\ [][Next]_vars

\* The program goes on; each exchange with the host ends, with its timeout at
\* the latest (network.c:286-287).
FairSpec == Spec /\ WF_vars(Command) /\ WF_vars(Network)

-----------------------------------------------------------------------------
(* Properties.                                                             *)

\* The files in the order of the list: those that failed, and the others.
Settled ==
    [k \in 1 .. Len(urls) + Len(failed) |->
        IF \E j \in DOMAIN failed : failed[j] = k THEN "failed" ELSE "uploaded"]

Batch == INSTANCE BatchReport
            WITH settled <- Settled, keepGoing <- options.keepGoing

\* Retries, missing files, failures of the host and of the database make no
\* difference to what the command reports: every file is settled once and in
\* order, and the exit code tells if one failed (cli.c:1242-1515).
ImplementsBatch == Batch!Spec

\* Each file of the list is sent in one call of network_upload_file, and no
\* call is made again for it (cli.c:1242-1282): seen from the network, the
\* command only makes calls, and what Transfer says of them holds in it.
ImplementsTransfer == TransferSpec

\* Exit code 0 means that each file of the list has a copy at the host, at the
\* URL printed for it (cli.c:1514); with the path "raw" the URL is whatever the
\* host answered.
SuccessMeansStored ==
    exit = "success" =>
        /\ Len(urls) = fileCount
        /\ \A k \in 1 .. fileCount :
              /\ urls[k].file = k
              /\ \/ urls[k].url \in remote \cap ({k} \X (1 .. MaxRetries))
                 \/ urls[k].url = Garbled /\ host.path = "raw"

\* A URL in the history is one the host gave for a file it had stored, never
\* that of an upload that failed in the end (cli.c:1359-1364).
RecordsAreCopies ==
    history \subseteq {urls[k].url : k \in DOMAIN urls}
                      \cap (remote \union {Garbled})

\* Without --continue-on-error no file after the one that failed is ever sent
\* (cli.c:1262-1268, 1379-1386), not even late.
NothingAfterFailure ==
    failed # <<>> /\ ~options.keepGoing =>
        \A c \in inflight \union remote : c[1] <= failed[1]

\* In the end the clipboard holds the URLs of all files uploaded, in order, one
\* file or many (cli.c:1351-1356, 1442-1489), if copying works and was asked for.
ClipboardHasAll ==
    exit # "none" /\ urls # <<>> =>
        clipboard = IF options.clip /\ options.canCopy
                    THEN [k \in DOMAIN urls |-> urls[k].url]
                    ELSE <<>>

\* Whatever the host does, the command ends (cli.c:1242-1515), unless it was
\* interrupted or ran into what malloc left.
CommandEnds == step = "file" ~> step \in {"over", "undefined", "killed"}
=============================================================================
