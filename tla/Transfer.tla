------------------------------ MODULE Transfer ------------------------------
(***************************************************************************)
(* One call of network_upload_file (src/network/network.c): the checks of  *)
(* its arguments, the loop of attempts, and what the answer of the host    *)
(* makes of the response it returns.                                       *)
(*                                                                         *)
(* The host is external.  It may store what an attempt sent before it      *)
(* answers, without ever answering, or long after the attempt was given    *)
(* up.  A copy it stores is named by the upload and the attempt that sent  *)
(* it, and so is the URL of that copy.                                     *)
(***************************************************************************)
EXTENDS Naturals, Sequences

CONSTANTS
    Uploads,    \* the calls, one after the other
    MaxRetries, \* global_config.max_retries: attempts there are, not retries
    CurlFails,  \* whether curl_easy_init may fail
    NoUrl,      \* NULL
    Garbled,    \* a text that is not the URL of a copy
    Unset       \* what malloc left in a field of the response

ASSUME TransferAssumption ==
    /\ MaxRetries \in Nat \ {0}
    /\ CurlFails \in BOOLEAN
    /\ Unset \notin {NoUrl, Garbled, "yes", "no", "set", "none"} \union Nat \union BOOLEAN

Copy == Uploads \X (1 .. MaxRetries)

ASSUME UrlAssumption == {NoUrl, Garbled, Unset} \cap Copy = {}

\* What the call looks at in a host: auth is whether the key that auth_type
\* asks for is there, valid whether endpoint, auth_type and form field pass.
HostConfig == [valid : BOOLEAN, auth : BOOLEAN,
               path : {"json", "raw"}, deletion : BOOLEAN]

\* A text in an answer's body: a JSON object or anything else, which may
\* carry the URL of a copy, and the former also a deletion URL.
Text == [form : {"json", "plain"}, url : Copy \union {NoUrl}, deletion : BOOLEAN]

\* What is left of a text that breaks off.
Cut == [form |-> "plain", url |-> NoUrl, deletion |-> FALSE]

VARIABLES
    pc,          \* where the call is
    upload,      \* which of Uploads it is
    host,        \* the host it uploads to
    retry_count, \* attempts that have failed
    body,        \* the texts write_callback has put one after the other
    answer,      \* what curl_easy_perform and the HTTP code said last
    response,    \* the upload_response_t that is returned
    inflight,    \* what the host has got of the file and may still store
    remote       \* what it has stored

transferVars == <<pc, upload, host, retry_count, body, answer, response,
                  inflight, remote>>

Response == [success : {"yes", "no", Unset},
             url : Copy \union {NoUrl, Garbled, Unset},
             deletion_url : BOOLEAN \union {Unset},
             error_message : {"set", "none", Unset},
             retry_count : (0 .. MaxRetries) \union {Unset}]

Malloced == [success |-> Unset, url |-> Unset, deletion_url |-> Unset,
             error_message |-> Unset, retry_count |-> Unset]

Initialized == [success |-> "no", url |-> NoUrl, deletion_url |-> FALSE,
                error_message |-> "none", retry_count |-> 0]

TransferTypeOK ==
    /\ pc \in {"idle", "check", "loop", "perform", "judge", "returned"}
    /\ upload \in Uploads
    /\ host \in HostConfig
    /\ retry_count \in 0 .. MaxRetries
    /\ body \in Seq(Text)
    /\ answer \in {"none", "lost", "2xx", "other"}
    /\ response \in Response
    /\ inflight \subseteq Copy
    /\ remote \subseteq Copy

TransferInit ==
    /\ pc = "idle"
    /\ upload \in Uploads
    /\ host \in HostConfig
    /\ retry_count = 0
    /\ body = <<>>
    /\ answer = "none"
    /\ response = Malloced
    /\ inflight = {}
    /\ remote = {}

-----------------------------------------------------------------------------
(* Before the first attempt.                                               *)

Call(u) ==
    /\ pc \in {"idle", "returned"}
    /\ pc' = "check"
    /\ upload' = u
    /\ retry_count' = 0
    /\ body' = <<>>
    /\ answer' = "none"
    /\ response' = Malloced
    /\ UNCHANGED <<host, inflight, remote>>

\* The early returns for a host that cannot be used come before the fields of
\* the response are initialized.
RejectHost ==
    /\ pc = "check"
    /\ ~host.valid
    /\ response' = [response EXCEPT !.error_message = "set"]
    /\ pc' = "returned"
    /\ UNCHANGED <<upload, host, retry_count, body, answer, inflight, remote>>

\* The file went, or cannot be read.
RejectFile ==
    /\ pc = "check"
    /\ host.valid
    /\ response' = [Initialized EXCEPT !.error_message = "set"]
    /\ pc' = "returned"
    /\ UNCHANGED <<upload, host, retry_count, body, answer, inflight, remote>>

Accept ==
    /\ pc = "check"
    /\ host.valid
    /\ response' = Initialized
    /\ pc' = "loop"
    /\ UNCHANGED <<upload, host, retry_count, body, answer, inflight, remote>>

-----------------------------------------------------------------------------
(* An attempt.                                                             *)

CopySent == <<upload, retry_count + 1>>

\* curl_easy_init fails, or the key the host needs is not set: the call
\* returns from within the loop.
GiveUp ==
    /\ pc = "loop"
    /\ CurlFails \/ ~host.auth
    /\ response' = [response EXCEPT !.error_message = "set"]
    /\ pc' = "returned"
    /\ UNCHANGED <<upload, host, retry_count, body, answer, inflight, remote>>

\* Mutant of Send: the body of the attempt before is kept.
SendKeepingBody ==
    /\ pc = "loop"
    /\ host.auth
    /\ inflight' = inflight \union {CopySent}
    /\ pc' = "perform"
    /\ UNCHANGED <<upload, host, retry_count, body, answer, response, remote>>

\* Whatever was received before is dropped, and the request goes out.
Send ==
    /\ pc = "loop"
    /\ host.auth
    /\ body' = <<>>
    /\ inflight' = inflight \union {CopySent}
    /\ pc' = "perform"
    /\ UNCHANGED <<upload, host, retry_count, answer, response, remote>>

\* External: the host stores what it was sent, now or later.
HostStores ==
    \E c \in inflight :
        /\ inflight' = inflight \ {c}
        /\ remote' = remote \union {c}
        /\ UNCHANGED <<pc, upload, host, retry_count, body, answer, response>>

\* External: the host answers.  It names the copy of this attempt, if it has
\* stored it, and nothing else.
HostAnswers ==
    /\ pc = "perform"
    /\ \E code \in {"2xx", "other"}, t \in Text :
        /\ t.url = NoUrl \/ (t.url = CopySent /\ CopySent \in remote)
        /\ t.deletion => t.form = "json" /\ t.url # NoUrl
        /\ answer' = code
        /\ body' \in {body, Append(body, t)}
    /\ pc' = "judge"
    /\ UNCHANGED <<upload, host, retry_count, response, inflight, remote>>

\* curl_easy_perform fails, at the latest when CURLOPT_TIMEOUT has passed, and
\* perhaps after a part of the answer has come.
Break ==
    /\ pc = "perform"
    /\ answer' = "lost"
    /\ body' \in {body, Append(body, Cut)}
    /\ pc' = "judge"
    /\ UNCHANGED <<upload, host, retry_count, response, inflight, remote>>

-----------------------------------------------------------------------------
(* What to make of the answer.                                             *)

\* extract_response_value: with the path "raw" the whole body is taken for the
\* URL; otherwise what the path finds in a JSON object, or else a body that
\* looks like a URL.
UrlIn(b, path) ==
    IF b = <<>> THEN NoUrl
    ELSE IF path = "raw"
         THEN IF b[1].form = "plain" /\ b[1].url # NoUrl /\ Len(b) = 1
              THEN b[1].url
              ELSE Garbled
         ELSE IF Len(b) = 1 THEN b[1].url ELSE NoUrl

\* extract_json_string, whatever the URL's path is.
DeletionIn(b) == Len(b) = 1 /\ b[1].form = "json" /\ b[1].deletion

Answered == answer = "2xx" /\ UrlIn(body, host.path) # NoUrl

Succeed ==
    /\ pc = "judge"
    /\ Answered
    /\ response' = [response EXCEPT
                        !.success = "yes",
                        !.url = UrlIn(body, host.path),
                        !.deletion_url = host.deletion /\ DeletionIn(body),
                        !.retry_count = retry_count]
    /\ pc' = "returned"
    /\ UNCHANGED <<upload, host, retry_count, body, answer, inflight, remote>>

\* Mutant of Fail: the last attempt but one is taken for the last.
FailOneEarly ==
    /\ pc = "judge"
    /\ ~Answered
    /\ retry_count' = retry_count + 1
    /\ pc' = IF retry_count' + 1 < MaxRetries THEN "loop" ELSE "returned"
    /\ response' = [response EXCEPT !.error_message = "set",
                                    !.retry_count = retry_count']
    /\ UNCHANGED <<upload, host, body, answer, inflight, remote>>

\* Mutant of Fail: one more attempt than there are.
FailOneLate ==
    /\ pc = "judge"
    /\ ~Answered
    /\ retry_count' = retry_count + 1
    /\ pc' = IF retry_count' <= MaxRetries THEN "loop" ELSE "returned"
    /\ response' = [response EXCEPT !.error_message = "set",
                                    !.retry_count = retry_count']
    /\ UNCHANGED <<upload, host, body, answer, inflight, remote>>

\* Mutant of Fail: the error is set but the loop's condition is not looked at.
FailForever ==
    /\ pc = "judge"
    /\ ~Answered
    /\ pc' = "loop"
    /\ response' = [response EXCEPT !.error_message = "set"]
    /\ UNCHANGED <<upload, host, retry_count, body, answer, inflight, remote>>

\* Any failure is tried again, a refusal by the host and an answer without a
\* URL included.  The error of the last attempt is the one that is kept.
Fail ==
    /\ pc = "judge"
    /\ ~Answered
    /\ retry_count' = retry_count + 1
    /\ pc' = IF retry_count' < MaxRetries THEN "loop" ELSE "returned"
    /\ response' = [response EXCEPT
                        !.error_message = "set",
                        !.retry_count =
                            IF retry_count' < MaxRetries THEN @ ELSE retry_count']
    /\ UNCHANGED <<upload, host, body, answer, inflight, remote>>

-----------------------------------------------------------------------------

Client == RejectHost \/ RejectFile \/ Accept \/ GiveUp \/ Send \/ Succeed \/ Fail

Exchange == HostAnswers \/ Break

CallSteps == Client \/ Exchange \/ HostStores

\* On its own: calls one after the other, to one host.
NextCall ==
    \E u \in Uploads :
        /\ \A c \in inflight \union remote : c[1] # u
        /\ Call(u)

TransferSpec == TransferInit /\ [][NextCall \/ CallSteps]_transferVars

-----------------------------------------------------------------------------
(* Properties.                                                             *)

AttemptsMade ==
    IF pc \in {"perform", "judge"} \/ response.success = "yes"
    THEN retry_count + 1
    ELSE retry_count

\* The host never gets to store more copies of one upload than the attempts the
\* caller is told of, and these are never more than MaxRetries
\* (network.c:386-592): an upload that is repeated is not repeated without end.
CopiesAreBounded ==
    /\ AttemptsMade <= MaxRetries
    /\ \A c \in inflight \union remote : c[1] = upload => c[2] <= AttemptsMade

\* The URL of a successful upload is that of the copy its last attempt stored,
\* never one an earlier attempt's body had left there (network.c:402-404); with
\* the path "raw" it may be any text the host answered with.
SuccessNamesACopy ==
    pc = "returned" /\ response.success = "yes" =>
        \/ response.url = CopySent /\ CopySent \in remote
        \/ response.url = Garbled /\ host.path = "raw"

\* An upload to a usable host that got an answer is given up only after all its
\* attempts, and not if the last answer carried a URL (network.c:386-592).
FailsOnlyInTheEnd ==
    pc = "returned" /\ answer # "none" /\ response.success = "no" /\ ~CurlFails =>
        /\ retry_count = MaxRetries
        /\ answer = "2xx" => UrlIn(body, host.path) = NoUrl

\* The host's answer to the attempt that has just been made is not mixed up with
\* the answers before it: if it carries a URL and the code is 2xx, the call is
\* a success (network.c:402-404, 524-560).
UrlIsTaken ==
    /\ pc = "judge" /\ answer = "2xx" /\ host.path = "json"
    /\ body # <<>> /\ body[Len(body)].url # NoUrl
    => Answered
=============================================================================
