---------------------------- MODULE UploadProofs -----------------------------
(***************************************************************************)
(* The invariants of Transfer for any number of uploads and attempts, and  *)
(* any host; then the upload command for any number of files: that it is a *)
(* sequence of calls as Transfer has them, and what it reports.            *)
(***************************************************************************)
EXTENDS Upload, SequenceTheorems, TLAPS

-----------------------------------------------------------------------------
(* One call: the inductive invariant of Transfer.                          *)

\* Inside the loop there is an attempt left and nothing has succeeded yet;
\* whoever has got an answer had the key to ask for it.
LoopInv ==
    /\ pc \in {"loop", "perform", "judge"} =>
          retry_count < MaxRetries /\ response.success = "no"
    /\ pc = "check" => retry_count = 0
    /\ pc # "returned" => response.success # "yes"
    /\ response.success = "yes" => retry_count < MaxRetries
    /\ answer # "none" => host.auth
    /\ pc \in {"idle", "check"} => answer = "none"
    /\ pc \in {"perform", "judge"} => host.auth

\* What has been received is from this attempt, and the URL in it, if there is
\* one, is that of a copy the host has.
BodyInv ==
    /\ pc = "perform" => body = <<>>
    /\ pc = "judge" =>
          \/ body = <<>>
          \/ /\ Len(body) = 1
             /\ body[1].url = NoUrl \/ (body[1].url = CopySent /\ CopySent \in remote)

TInv ==
    /\ TransferTypeOK
    /\ LoopInv
    /\ BodyInv
    /\ CopiesAreBounded
    /\ SuccessNamesACopy
    /\ FailsOnlyInTheEnd

LEMMA TInit == TransferInit => TInv
BY TransferAssumption DEF TransferInit, TInv, TransferTypeOK, LoopInv, BodyInv,
   CopiesAreBounded, SuccessNamesACopy, FailsOnlyInTheEnd, AttemptsMade,
   Malloced, Response

-----------------------------------------------------------------------------
(* The steps before the first attempt.                                     *)

LEMMA CheckSteps ==
    ASSUME TInv, NextCall \/ RejectHost \/ RejectFile \/ Accept
    PROVE  TInv'
<1> USE TransferAssumption DEF TInv
<1>1. CASE NextCall
  <2> USE DEF NextCall, Call, Malloced
  <2>1. TransferTypeOK'
    BY <1>1 DEF TransferTypeOK, Response
  <2>2. LoopInv' /\ BodyInv' /\ SuccessNamesACopy' /\ FailsOnlyInTheEnd'
    BY <1>1 DEF LoopInv, BodyInv, SuccessNamesACopy, FailsOnlyInTheEnd
  <2>3. CopiesAreBounded'
    BY <1>1 DEF CopiesAreBounded, AttemptsMade
  <2> QED  BY <2>1, <2>2, <2>3
<1>2. CASE RejectHost
  <2> USE DEF RejectHost
  <2>1. TransferTypeOK' /\ response'.success = response.success
    BY <1>2 DEF TransferTypeOK, Response
  <2>2. LoopInv' /\ BodyInv' /\ SuccessNamesACopy' /\ FailsOnlyInTheEnd'
    BY <1>2, <2>1 DEF LoopInv, BodyInv, SuccessNamesACopy, FailsOnlyInTheEnd
  <2>3. CopiesAreBounded'
    BY <1>2, <2>1 DEF CopiesAreBounded, AttemptsMade, LoopInv
  <2> QED  BY <2>1, <2>2, <2>3
<1>3. CASE RejectFile \/ Accept
  <2> USE DEF RejectFile, Accept
  <2>1. Initialized \in Response /\ Initialized.success = "no"
    BY DEF Initialized, Response
  <2>2. response' \in Response /\ response'.success = "no"
    BY <1>3, <2>1 DEF Response
  <2>3. /\ TransferTypeOK'
        /\ pc = "check" /\ pc' \in {"loop", "returned"}
    BY <1>3, <2>2 DEF TransferTypeOK
  <2>4. LoopInv' /\ BodyInv' /\ SuccessNamesACopy' /\ FailsOnlyInTheEnd'
    BY <1>3, <2>2, <2>3 DEF LoopInv, BodyInv, SuccessNamesACopy, FailsOnlyInTheEnd
  <2>5. CopiesAreBounded'
    BY <1>3, <2>2, <2>3 DEF CopiesAreBounded, AttemptsMade, LoopInv
  <2> QED  BY <2>3, <2>4, <2>5
<1> QED  BY <1>1, <1>2, <1>3

-----------------------------------------------------------------------------
(* The exchange with the host.                                             *)

LEMMA SendKeeps ==
    ASSUME TInv, Send
    PROVE  TInv'
<1> USE TransferAssumption DEF TInv, Send
<1>1. CopySent \in Copy /\ CopySent[1] = upload /\ CopySent[2] = retry_count + 1
  BY DEF TransferTypeOK, LoopInv, CopySent, Copy
<1>2. TransferTypeOK'
  BY <1>1 DEF TransferTypeOK
<1>3. LoopInv' /\ BodyInv' /\ SuccessNamesACopy' /\ FailsOnlyInTheEnd'
  BY DEF LoopInv, BodyInv, SuccessNamesACopy, FailsOnlyInTheEnd
<1>4. CopiesAreBounded'
  <2>1. AttemptsMade' = retry_count + 1 /\ AttemptsMade = retry_count
    BY DEF AttemptsMade, LoopInv
  <2>2. AttemptsMade' <= MaxRetries
    BY <2>1 DEF LoopInv, TransferTypeOK
  <2>3. ASSUME NEW c \in (inflight \union remote)', c[1] = upload'
        PROVE  c[2] <= AttemptsMade'
    <3>1. CASE c = CopySent
      BY <1>1, <2>1, <3>1 DEF TransferTypeOK
    <3>2. CASE c \in inflight \union remote
      <4>1. c[2] <= retry_count /\ c[2] \in Nat
        BY <2>1, <2>3, <3>2 DEF CopiesAreBounded, TransferTypeOK, Copy
      <4> QED  BY <2>1, <4>1 DEF TransferTypeOK
    <3> QED  BY <2>3, <3>1, <3>2
  <2> QED  BY <2>2, <2>3 DEF CopiesAreBounded
<1> QED  BY <1>2, <1>3, <1>4

LEMMA HostStoresKeeps ==
    ASSUME TInv, HostStores
    PROVE  TInv'
<1> USE DEF TInv, HostStores
<1>1. TransferTypeOK' /\ remote \subseteq remote'
  BY DEF TransferTypeOK
<1>2. LoopInv'
  BY DEF LoopInv
<1>3. BodyInv' /\ SuccessNamesACopy' /\ FailsOnlyInTheEnd'
  BY <1>1 DEF BodyInv, SuccessNamesACopy, FailsOnlyInTheEnd, CopySent
<1>4. CopiesAreBounded'
  <2>1. (inflight \union remote)' = inflight \union remote /\ AttemptsMade' = AttemptsMade
    BY DEF AttemptsMade
  <2> QED  BY <2>1 DEF CopiesAreBounded
<1> QED  BY <1>1, <1>2, <1>3, <1>4

LEMMA ExchangeKeeps ==
    ASSUME TInv, Exchange
    PROVE  TInv'
<1> USE DEF TInv, Exchange
<1>1. /\ pc = "perform" /\ pc' = "judge" /\ body = <<>>
      /\ UNCHANGED <<upload, host, retry_count, response, inflight, remote>>
      /\ answer' \in {"lost", "2xx", "other"}
  BY DEF HostAnswers, Break, BodyInv
<1>2. \/ body' = <<>>
      \/ \E t \in Text : /\ body' = <<t>>
                         /\ t.url = NoUrl \/ (t.url = CopySent /\ CopySent \in remote)
  <2>1. CASE HostAnswers
    BY <1>1, <2>1 DEF HostAnswers
  <2>2. CASE Break
    <3>1. Cut \in Text /\ Cut.url = NoUrl
      BY DEF Cut, Text
    <3>2. body' \in {<<>>, <<Cut>>}
      BY <1>1, <2>2 DEF Break
    <3> QED  BY <3>1, <3>2
  <2> QED  BY <2>1, <2>2
<1>3. TransferTypeOK'
  <2>1. body' \in Seq(Text)
    <3>1. <<>> \in Seq(Text)
      OBVIOUS
    <3>2. ASSUME NEW t \in Text
          PROVE  <<t>> \in Seq(Text)
      OBVIOUS
    <3> QED  BY <1>2, <3>1, <3>2
  <2>2. /\ upload' = upload /\ host' = host /\ retry_count' = retry_count
        /\ response' = response /\ inflight' = inflight /\ remote' = remote
    BY <1>1
  <2> QED  BY <1>1, <2>1, <2>2 DEF TransferTypeOK
<1>4. LoopInv' /\ SuccessNamesACopy' /\ FailsOnlyInTheEnd'
  BY <1>1 DEF LoopInv, SuccessNamesACopy, FailsOnlyInTheEnd
<1>5. BodyInv'
  BY <1>1, <1>2 DEF BodyInv, CopySent
<1>6. CopiesAreBounded'
  BY <1>1 DEF CopiesAreBounded, AttemptsMade
<1> QED  BY <1>3, <1>4, <1>5, <1>6

-----------------------------------------------------------------------------
(* The end of an attempt.                                                  *)

LEMMA GiveUpKeeps ==
    ASSUME TInv, GiveUp
    PROVE  TInv'
<1> USE DEF TInv, GiveUp
<1>1. TransferTypeOK' /\ response'.success = "no"
  BY DEF TransferTypeOK, Response, LoopInv
<1>2. LoopInv' /\ BodyInv' /\ SuccessNamesACopy' /\ FailsOnlyInTheEnd'
  BY <1>1, TransferAssumption
     DEF LoopInv, BodyInv, SuccessNamesACopy, FailsOnlyInTheEnd
<1>3. CopiesAreBounded'
  BY <1>1 DEF CopiesAreBounded, AttemptsMade, LoopInv
<1> QED  BY <1>1, <1>2, <1>3

LEMMA SucceedKeeps ==
    ASSUME TInv, Succeed
    PROVE  TInv'
<1> USE DEF TInv, Succeed
<1> DEFINE u == UrlIn(body, host.path)
<1>1. /\ u \in Copy \union {NoUrl, Garbled}
      /\ u # NoUrl
      /\ \/ u = CopySent /\ CopySent \in remote
         \/ u = Garbled /\ host.path = "raw"
  <2>1. CopySent \in Copy /\ host.path \in {"json", "raw"}
    BY TransferAssumption DEF TransferTypeOK, LoopInv, CopySent, Copy, HostConfig
  <2>2. u # NoUrl
    BY DEF Answered
  <2>3. /\ body # <<>>
        /\ Len(body) = 1
        /\ body[1].url = NoUrl \/ (body[1].url = CopySent /\ CopySent \in remote)
    BY <2>2 DEF BodyInv, UrlIn
  <2> QED  BY <2>1, <2>2, <2>3 DEF UrlIn
<1>2. /\ response' \in Response /\ response'.success = "yes" /\ response'.url = u
  <2>1. (host.deletion /\ DeletionIn(body)) \in BOOLEAN
    BY DEF TransferTypeOK, HostConfig, DeletionIn
  <2> QED  BY <1>1, <2>1 DEF TransferTypeOK, Response
<1> HIDE DEF u
<1>3. TransferTypeOK'
  BY <1>2 DEF TransferTypeOK
<1>4. LoopInv' /\ BodyInv' /\ FailsOnlyInTheEnd'
  BY <1>2 DEF LoopInv, BodyInv, FailsOnlyInTheEnd
<1>5. SuccessNamesACopy'
  BY <1>1, <1>2 DEF SuccessNamesACopy, CopySent
<1>6. CopiesAreBounded'
  BY <1>2 DEF CopiesAreBounded, AttemptsMade
<1> QED  BY <1>3, <1>4, <1>5, <1>6

LEMMA FailKeeps ==
    ASSUME TInv, Fail
    PROVE  TInv'
<1> USE TransferAssumption DEF TInv, Fail
<1>1. /\ retry_count \in Nat /\ retry_count < MaxRetries /\ response.success = "no"
      /\ retry_count' = retry_count + 1 /\ retry_count' \in 0 .. MaxRetries
      /\ pc' \in {"loop", "returned"}
      /\ pc' = "loop" <=> retry_count' < MaxRetries
  BY DEF TransferTypeOK, LoopInv
<1>2. response' \in Response /\ response'.success = "no"
  BY <1>1 DEF TransferTypeOK, Response
<1>3. TransferTypeOK'
  BY <1>1, <1>2 DEF TransferTypeOK
<1>4. LoopInv' /\ BodyInv' /\ SuccessNamesACopy'
  BY <1>1, <1>2 DEF LoopInv, BodyInv, SuccessNamesACopy
<1>5. FailsOnlyInTheEnd'
  BY <1>1 DEF FailsOnlyInTheEnd, Answered
<1>6. CopiesAreBounded'
  BY <1>1, <1>2 DEF CopiesAreBounded, AttemptsMade
<1> QED  BY <1>3, <1>4, <1>5, <1>6

-----------------------------------------------------------------------------
(* What a call of network_upload_file ensures.                             *)

LEMMA TransferInvariance == TransferSpec => []TInv
<1>1. ASSUME TInv, [NextCall \/ CallSteps]_transferVars
      PROVE  TInv'
  <2>1. CASE UNCHANGED transferVars
    BY <1>1, <2>1 DEF transferVars, TInv, TransferTypeOK, LoopInv, BodyInv,
       CopiesAreBounded, SuccessNamesACopy, FailsOnlyInTheEnd, AttemptsMade, CopySent
  <2> QED
    BY <1>1, <2>1, CheckSteps, SendKeeps, HostStoresKeeps, ExchangeKeeps,
       GiveUpKeeps, SucceedKeeps, FailKeeps DEF CallSteps, Client
<1> QED  BY <1>1, TInit, PTL DEF TransferSpec

\* The state of the call is well typed; the retry counter stays below its limit
\* (network.c:386-592).
THEOREM TransferTypeCorrect == TransferSpec => []TransferTypeOK
BY TransferInvariance, PTL DEF TInv

\* However late the host stores what it was sent, it never has more copies of an
\* upload than attempts were made, and these are at most MaxRetries
\* (network.c:386-592).
THEOREM CopiesStayBounded == TransferSpec => []CopiesAreBounded
BY TransferInvariance, PTL DEF TInv

\* The URL a successful upload returns is that of the copy the last attempt
\* stored, whatever was received in the attempts before (network.c:402-404).
THEOREM SuccessHasItsCopy == TransferSpec => []SuccessNamesACopy
BY TransferInvariance, PTL DEF TInv

\* An upload that got through to the host fails only after MaxRetries attempts,
\* and never on an answer that carried a URL (network.c:524-592).
THEOREM FailsLate == TransferSpec => []FailsOnlyInTheEnd
BY TransferInvariance, PTL DEF TInv

\* An answer with a URL is never mixed up with what came before it: it makes the
\* attempt a success (network.c:402-404, 524-560).
THEOREM UrlIsAlwaysTaken == TransferSpec => []UrlIsTaken
<1>1. TInv => UrlIsTaken
  BY DEF TInv, BodyInv, UrlIsTaken, Answered, UrlIn
<1> QED  BY <1>1, TransferInvariance, PTL

-----------------------------------------------------------------------------
(* The command makes calls.                                                *)

Before == {"start", "file"}

\* The host has nothing of the files to come, and of the one the command is at
\* only once it was sent.
SentInv ==
    /\ fileCount \in Uploads
    /\ index \in Nat \ {0} /\ index <= fileCount + 1
    /\ step \in {"start", "file", "network", "record", "summary", "over",
                 "undefined", "killed"}
    /\ step \in {"start", "file", "network", "record"} => index <= fileCount
    /\ step \in {"network", "record"} => upload = index
    /\ \A c \in inflight \union remote :
          /\ c[1] \in Nat /\ c[1] <= index
          /\ step \in Before => c[1] < index

LEMMA SentInit == Init => SentInv
BY UploadAssumption DEF Init, TransferInit, SentInv, Before

\* To the next file, or out of the loop.
LEMMA GoOnKeeps ==
    ASSUME SentInv, GoOn \/ (step' = "summary" /\ UNCHANGED index),
           step \in {"file", "network", "record"},
           UNCHANGED transferVars, UNCHANGED fileCount
    PROVE  SentInv'
<1>1. /\ UNCHANGED <<upload, inflight, remote, fileCount>>
      /\ index \in Nat \ {0} /\ index <= fileCount /\ fileCount \in Nat
  BY UploadAssumption DEF transferVars, SentInv
<1>2. CASE step' = "summary" /\ UNCHANGED index
  BY <1>1, <1>2 DEF SentInv, Before
<1>3. CASE GoOn
  BY <1>1, <1>3 DEF SentInv, Before, GoOn
<1> QED  BY <1>2, <1>3

LEMMA CommandKeepsSent ==
    ASSUME SentInv, Command
    PROVE  SentInv'
<1>1. CASE FileMissing \/ NotUploaded
  BY <1>1, GoOnKeeps DEF FileMissing, NotUploaded, CountFailure
<1>2. CASE Record \/ RecordFails
  BY <1>2, GoOnKeeps DEF Record, RecordFails
<1>3. CASE UploadFile
  BY <1>3 DEF UploadFile, Call, SentInv, Before
<1>4. CASE Resolve
  BY <1>4 DEF Resolve, transferVars, SentInv, Before
<1>5. CASE ReadUnset \/ Uploaded
  BY <1>5 DEF ReadUnset, Uploaded, transferVars, SentInv, Before
<1>6. CASE Summary
  BY <1>6 DEF Summary, transferVars, SentInv, Before
<1> QED  BY <1>1, <1>2, <1>3, <1>4, <1>5, <1>6 DEF Command

LEMMA NetworkKeepsSent ==
    ASSUME SentInv, Network \/ (HostStores /\ UNCHANGED commandVars)
    PROVE  SentInv'
<1>1. UNCHANGED <<step, index, fileCount>>
  BY DEF Network, commandVars
<1>2. UNCHANGED upload
  BY DEF Network, HostStores, Client, Exchange, RejectHost, RejectFile, Accept, GiveUp,
     Send, Succeed, Fail, HostAnswers, Break
<1>3. CASE Network /\ Send
  <2>1. step = "network" /\ upload = index /\ CopySent[1] = index
    BY <1>3 DEF Network, SentInv, CopySent
  <2>2. (inflight \union remote)' = inflight \union remote \union {CopySent}
    BY <1>3 DEF Send
  <2> QED  BY <1>1, <1>2, <2>1, <2>2 DEF SentInv, Before
<1>4. CASE HostStores \/ (Network /\ ~Send)
  <2>1. (inflight \union remote)' = inflight \union remote
    BY <1>4 DEF Network, HostStores, Client, Exchange, RejectHost, RejectFile, Accept,
       GiveUp, Succeed, Fail, HostAnswers, Break
  <2> QED  BY <1>1, <1>2, <2>1 DEF SentInv
<1> QED  BY <1>3, <1>4

LEMMA SentInvariance == Spec => []SentInv
<1>1. ASSUME SentInv, [Next]_vars
      PROVE  SentInv'
  <2>1. CASE UNCHANGED vars
    BY <1>1, <2>1 DEF vars, transferVars, commandVars, SentInv
  <2>2. CASE Kill
    BY <1>1, <2>2 DEF Kill, transferVars, SentInv, Before
  <2> QED  BY <1>1, <2>1, <2>2, CommandKeepsSent, NetworkKeepsSent DEF Next
<1> QED  BY <1>1, SentInit, PTL DEF Spec

\* The command makes one call after the other, each for a file it has not sent
\* before, and leaves everything the network has to those calls
\* (cli.c:1242-1282).
THEOREM CommandMakesCalls == Spec => ImplementsTransfer
<1>1. Init => TransferInit
  BY DEF Init
<1>2. ASSUME SentInv, [Next]_vars
      PROVE  [NextCall \/ CallSteps]_transferVars
  <2>1. CASE UploadFile
    <3>1. Call(index) /\ index \in Uploads /\ \A c \in inflight \union remote : c[1] # index
      BY <1>2, <2>1, UploadAssumption DEF UploadFile, SentInv, Before
    <3> QED  BY <3>1 DEF NextCall
  <2>2. CASE Network \/ HostStores
    BY <2>2 DEF Network, CallSteps
  <2>3. CASE Command /\ ~UploadFile
    BY <2>3 DEF Command, Resolve, FileMissing, NotUploaded, ReadUnset, Uploaded, Record,
       RecordFails, Summary
  <2>4. CASE Kill \/ UNCHANGED vars
    BY <2>4 DEF Kill, vars
  <2> QED  BY <1>2, <2>1, <2>2, <2>3, <2>4 DEF Next
<1> QED  BY <1>1, <1>2, SentInvariance, PTL DEF Spec, ImplementsTransfer, TransferSpec

-----------------------------------------------------------------------------
(* What the command reports: the inductive invariant.                      *)

Report == [file : Uploads, url : Url]

CommandTypes ==
    /\ present \subseteq Uploads
    /\ options \in Options
    /\ urls \in Seq(Report)
    /\ failed \in Seq(Uploads)
    /\ history \subseteq Url
    /\ clipboard \in Seq(Url)
    /\ exit \in {"none", "success", "failure"}

\* The file of a report is at the host, where the report says.
Stored(r) ==
    \/ r.url \in remote \cap ({r.file} \X (1 .. MaxRetries))
    \/ r.url = Garbled /\ host.path = "raw"

AllStored == \A k \in 1 .. Len(urls) : Stored(urls[k])

\* The report that is being recorded is that of the call that has just returned.
RecordInv ==
    step = "record" =>
        /\ pc = "returned" /\ response.success = "yes"
        /\ urls # <<>> /\ urls[Len(urls)].url = response.url

\* There is a report for each file up to the one the command is at, or one of
\* them failed.
UrlsInv ==
    /\ AllStored
    /\ step \in {"start", "file", "network"} => Len(urls) <= index - 1
    /\ step = "record" => Len(urls) <= index
    /\ Len(urls) <= fileCount
    /\ failed = <<>> =>
          /\ \A k \in 1 .. Len(urls) : urls[k].file = k
          /\ step \in {"start", "file", "network", "summary"} => Len(urls) = index - 1
          /\ step = "record" => Len(urls) = index
          /\ step = "summary" => index = fileCount + 1

\* The command has stopped at the file that failed.
FailInv ==
    /\ failed # <<>> /\ ~options.keepGoing =>
          step \in {"summary", "over", "killed"} /\ failed[1] = index
    /\ step = "start" => failed = <<>> /\ urls = <<>>

\* A single file's URL is copied at once, the others in the end.
ClipInv ==
    /\ exit # "none" => step = "over"
    /\ exit = "none" =>
          clipboard = IF ~IsBatch /\ options.clip /\ options.canCopy /\ urls # <<>>
                      THEN <<urls[1].url>> ELSE <<>>

CInv ==
    /\ CommandTypes
    /\ RecordInv
    /\ UrlsInv
    /\ FailInv
    /\ ClipInv
    /\ RecordsAreCopies
    /\ SuccessMeansStored
    /\ ClipboardHasAll

LEMMA CommandInit == Init => CInv
<1> SUFFICES ASSUME Init
             PROVE  CInv
  OBVIOUS
<1> USE DEF Init
<1>1. CommandTypes
  BY DEF CommandTypes
<1>2. RecordInv /\ UrlsInv /\ FailInv /\ ClipInv
  BY UploadAssumption DEF RecordInv, UrlsInv, AllStored, FailInv, ClipInv
<1>3. RecordsAreCopies /\ SuccessMeansStored /\ ClipboardHasAll
  BY DEF RecordsAreCopies, SuccessMeansStored, ClipboardHasAll
<1> QED  BY <1>1, <1>2, <1>3 DEF CInv

-----------------------------------------------------------------------------
(* The steps.                                                              *)

\* A step that changes no report keeps what is said of them, as long as the
\* host keeps what it has.
LEMMA FrameKeeps ==
    ASSUME CInv, remote \subseteq remote',
           UNCHANGED <<host, fileCount, options, urls, clipboard, exit>>
    PROVE  /\ AllStored'
           /\ SuccessMeansStored' /\ ClipboardHasAll'
           /\ UNCHANGED history => RecordsAreCopies'
<1>1. AllStored'
  BY DEF CInv, UrlsInv, AllStored, Stored
<1>2. SuccessMeansStored'
  BY DEF CInv, SuccessMeansStored
<1>3. ClipboardHasAll'
  BY DEF CInv, ClipboardHasAll
<1>4. UNCHANGED history => RecordsAreCopies'
  BY DEF CInv, RecordsAreCopies
<1> QED  BY <1>1, <1>2, <1>3, <1>4

LEMMA NetworkKeepsReports ==
    ASSUME CInv, Network \/ (HostStores /\ UNCHANGED commandVars)
    PROVE  CInv'
<1>1. /\ UNCHANGED <<step, fileCount, index, present, options, urls, failed, history,
                    clipboard, exit, host>>
      /\ remote \subseteq remote'
  BY DEF Network, commandVars, HostStores, Client, Exchange, RejectHost, RejectFile, Accept,
     GiveUp, Send, Succeed, Fail, HostAnswers, Break
<1>2. step = "record" => UNCHANGED <<pc, response>>
  BY DEF Network, HostStores
<1>3. CommandTypes' /\ FailInv' /\ RecordInv' /\ ClipInv'
  BY <1>1, <1>2 DEF CInv, CommandTypes, FailInv, RecordInv, ClipInv, IsBatch
<1>4. UrlsInv'
  BY <1>1, FrameKeeps DEF CInv, UrlsInv
<1> QED  BY <1>1, <1>3, <1>4, FrameKeeps DEF CInv

LEMMA FailureKeeps ==
    ASSUME CInv, SentInv, FileMissing \/ NotUploaded
    PROVE  CInv'
<1>1. /\ step \in {"file", "network"} /\ CountFailure
      /\ UNCHANGED <<fileCount, present, options, urls, history, clipboard, exit,
                     host, remote, pc, response>>
      /\ failed' = Append(failed, index)
  BY DEF FileMissing, NotUploaded, CountFailure, transferVars
<1>2. /\ index \in Uploads /\ index \in Nat /\ fileCount \in Nat
      /\ failed \in Seq(Uploads) /\ urls \in Seq(Report)
  BY <1>1, UploadAssumption DEF SentInv, CInv, CommandTypes
<1>3. /\ failed' \in Seq(Uploads) /\ failed' # <<>>
      /\ failed'[1] = IF failed = <<>> THEN index ELSE failed[1]
  BY <1>1, <1>2
<1>4. /\ step' \in {"file", "summary"}
      /\ step' = "file" => options.keepGoing /\ index' = index + 1
      /\ ~options.keepGoing => step' = "summary" /\ index' = index
  BY <1>1 DEF CountFailure, GoOn
<1>5. CommandTypes' /\ RecordInv' /\ ClipInv'
  BY <1>1, <1>3, <1>4 DEF CInv, CommandTypes, RecordInv, ClipInv, IsBatch
<1>6. FailInv'
  BY <1>1, <1>3, <1>4 DEF CInv, FailInv
<1>7. UrlsInv'
  <2>1. Len(urls) \in Nat /\ Len(urls) <= index - 1
    BY <1>1, <1>2 DEF CInv, UrlsInv
  <2> QED  BY <1>1, <1>2, <1>3, <1>4, <2>1, FrameKeeps DEF CInv, UrlsInv
<1> QED  BY <1>1, <1>5, <1>6, <1>7, FrameKeeps DEF CInv

LEMMA QuietKeeps ==
    ASSUME CInv, SentInv, Resolve \/ UploadFile \/ ReadUnset \/ Kill
    PROVE  CInv'
<1>1. UNCHANGED <<fileCount, index, present, options, urls, failed, history, clipboard,
                  host, remote>>
  BY DEF Resolve, UploadFile, ReadUnset, Kill, Call, transferVars
<1>2. step' # "record" /\ (step' = "start" => step = "start")
  BY DEF Resolve, UploadFile, ReadUnset, Kill
<1>3. RecordInv' /\ RecordsAreCopies'
  BY <1>1, <1>2 DEF RecordInv, CInv, RecordsAreCopies
<1>4. CASE Resolve
  <2>1. /\ step = "start" /\ urls = <<>> /\ failed = <<>>
        /\ step' \in {"file", "over"} /\ exit' \in {"none", "failure"}
        /\ exit' # "none" => step' = "over"
        /\ exit = "none"
    BY <1>4 DEF Resolve, CInv, FailInv, ClipInv
  <2>2. CommandTypes' /\ FailInv' /\ ClipInv'
    BY <1>1, <2>1 DEF CInv, CommandTypes, FailInv, ClipInv, IsBatch
  <2>3. UrlsInv'
    BY <1>1, <2>1 DEF CInv, UrlsInv, AllStored
  <2>4. SuccessMeansStored' /\ ClipboardHasAll'
    BY <1>1, <2>1 DEF SuccessMeansStored, ClipboardHasAll
  <2> QED  BY <1>3, <2>2, <2>3, <2>4 DEF CInv
<1>5. CASE UploadFile \/ ReadUnset \/ Kill
  <2>1. /\ UNCHANGED exit /\ step # "over"
        /\ \/ step = "file" /\ step' = "network"
           \/ step = "network" /\ step' = "undefined"
           \/ step' = "killed"
    BY <1>5 DEF UploadFile, ReadUnset, Kill
  <2>2. exit = "none" /\ step' # "over"
    BY <2>1 DEF CInv, ClipInv
  <2>3. CommandTypes' /\ ClipInv'
    BY <1>1, <2>1, <2>2 DEF CInv, CommandTypes, ClipInv, IsBatch
  <2>4. FailInv'
    BY <1>1, <2>1 DEF CInv, FailInv
  <2>5. UrlsInv'
    BY <1>1, <2>1, FrameKeeps DEF CInv, UrlsInv
  <2> QED  BY <1>1, <1>3, <2>1, <2>3, <2>4, <2>5, FrameKeeps DEF CInv
<1> QED  BY <1>4, <1>5

LEMMA UploadedKeeps ==
    ASSUME CInv, SentInv, TInv, Uploaded
    PROVE  CInv'
<1> DEFINE r == [file |-> index, url |-> response.url]
<1>1. /\ step = "network" /\ step' = "record" /\ pc = "returned" /\ response.success = "yes"
      /\ UNCHANGED <<fileCount, index, present, options, failed, history, exit,
                     host, remote, pc, response>>
      /\ urls' = Append(urls, r)
      /\ clipboard' = IF ~IsBatch /\ options.clip /\ options.canCopy
                      THEN <<response.url>> ELSE clipboard
  BY DEF Uploaded, CopyTo, transferVars
<1>2. /\ index \in Uploads /\ index \in Nat \ {0} /\ fileCount \in Nat /\ index <= fileCount
      /\ urls \in Seq(Report) /\ Len(urls) \in Nat
      /\ Len(urls) <= index - 1 /\ upload = index
      /\ exit = "none"
  BY <1>1, UploadAssumption DEF SentInv, CInv, CommandTypes, UrlsInv, ClipInv
<1>3. response.url \in Url
      /\ \/ response.url \in remote \cap ({index} \X (1 .. MaxRetries))
         \/ response.url = Garbled /\ host.path = "raw"
  <2>1. \/ response.url = CopySent /\ CopySent \in remote
        \/ response.url = Garbled /\ host.path = "raw"
    BY <1>1 DEF TInv, SuccessNamesACopy
  <2>2. remote \subseteq Copy
    BY DEF TInv, TransferTypeOK
  <2>3. CASE response.url = CopySent /\ CopySent \in remote
    <3>1. CopySent \in Uploads \X (1 .. MaxRetries) /\ CopySent[1] = index
      BY <1>2, <2>2, <2>3 DEF Copy, CopySent
    <3>2. CopySent \in {index} \X (1 .. MaxRetries)
      BY <3>1
    <3> QED  BY <2>2, <2>3, <3>2 DEF Url
  <2> QED  BY <2>1, <2>3 DEF Url
<1>4. r \in Report /\ r.file = index /\ r.url = response.url
  BY <1>2, <1>3 DEF Report
<1> HIDE DEF r
<1>5. /\ urls' \in Seq(Report) /\ Len(urls') = Len(urls) + 1 /\ urls' # <<>>
      /\ \A k \in 1 .. Len(urls) : urls'[k] = urls[k]
      /\ urls'[Len(urls')] = r
  BY <1>1, <1>2, <1>4
<1>6. CommandTypes'
  BY <1>1, <1>3, <1>5 DEF CInv, CommandTypes
<1>7. RecordInv'
  BY <1>1, <1>4, <1>5 DEF RecordInv
<1>8. FailInv'
  BY <1>1 DEF CInv, FailInv
<1>9. UrlsInv'
  <2>1. AllStored'
    <3>1. \A k \in 1 .. Len(urls) : Stored(urls[k])
      BY DEF CInv, UrlsInv, AllStored
    <3>2. Stored(r)
      BY <1>3, <1>4 DEF Stored
    <3>3. \A k \in 1 .. Len(urls') : k = Len(urls') \/ k \in 1 .. Len(urls)
      BY <1>2, <1>5
    <3> QED  BY <1>1, <1>5, <3>1, <3>2, <3>3 DEF AllStored, Stored
  <2>2. ASSUME failed = <<>>
        PROVE  /\ Len(urls') = index
               /\ \A k \in 1 .. Len(urls') : urls'[k].file = k
    <3>1. Len(urls) = index - 1 /\ \A k \in 1 .. Len(urls) : urls[k].file = k
      BY <1>1, <2>2 DEF CInv, UrlsInv
    <3> QED  BY <1>2, <1>4, <1>5, <3>1
  <2> QED  BY <1>1, <1>2, <1>5, <2>1, <2>2 DEF UrlsInv
<1>10. ClipInv'
  <2>1. CASE IsBatch
    BY <1>1, <1>2, <2>1 DEF CInv, ClipInv, IsBatch
  <2>2. CASE ~IsBatch
    <3>1. urls = <<>> /\ urls'[1].url = response.url
      BY <1>2, <1>4, <1>5, <2>2 DEF IsBatch
    <3> QED  BY <1>1, <1>2, <1>5, <2>2, <3>1 DEF CInv, ClipInv, IsBatch
  <2> QED  BY <2>1, <2>2
<1>11. SuccessMeansStored' /\ ClipboardHasAll'
  BY <1>1, <1>2 DEF SuccessMeansStored, ClipboardHasAll
<1>12. RecordsAreCopies'
  <2>1. {urls[k].url : k \in DOMAIN urls} \subseteq {urls'[k].url : k \in DOMAIN urls'}
    BY <1>2, <1>5
  <2> QED  BY <1>1, <2>1 DEF CInv, RecordsAreCopies
<1> QED  BY <1>6, <1>7, <1>8, <1>9, <1>10, <1>11, <1>12 DEF CInv

LEMMA RecordKeeps ==
    ASSUME CInv, SentInv, Record \/ RecordFails
    PROVE  CInv'
<1>1. /\ step = "record" /\ GoOn
      /\ UNCHANGED <<fileCount, present, options, urls, failed, clipboard, exit, host, remote>>
      /\ history' \in {history, history \union {response.url}}
  BY DEF Record, RecordFails, transferVars
<1>2. /\ index \in Nat \ {0} /\ fileCount \in Nat /\ index <= fileCount
      /\ urls \in Seq(Report) /\ Len(urls) \in Nat \ {0}
      /\ urls[Len(urls)].url = response.url
      /\ exit = "none"
  BY <1>1, UploadAssumption DEF SentInv, CInv, CommandTypes, RecordInv, ClipInv
<1>3. urls[Len(urls)] \in Report /\ Stored(urls[Len(urls)])
  BY <1>2 DEF CInv, UrlsInv, AllStored
<1>4. /\ step' \in {"file", "summary"} /\ index' = index + 1
      /\ step' = "summary" => index = fileCount
  BY <1>1, <1>2 DEF GoOn
<1>5. CommandTypes' /\ RecordInv' /\ ClipInv'
  BY <1>1, <1>2, <1>3, <1>4 DEF CInv, CommandTypes, RecordInv, ClipInv, IsBatch, Report
<1>6. FailInv'
  BY <1>1, <1>4 DEF CInv, FailInv
<1>7. UrlsInv'
  BY <1>1, <1>2, <1>4, FrameKeeps DEF CInv, UrlsInv
<1>8. RecordsAreCopies'
  BY <1>1, <1>2, <1>3 DEF CInv, RecordsAreCopies, Stored
<1> QED  BY <1>1, <1>5, <1>6, <1>7, <1>8, FrameKeeps DEF CInv

LEMMA SummaryKeeps ==
    ASSUME CInv, SentInv, Summary
    PROVE  CInv'
<1> DEFINE all == [k \in DOMAIN urls |-> urls[k].url]
<1>1. /\ step = "summary" /\ step' = "over"
      /\ UNCHANGED <<fileCount, index, present, options, urls, failed, history, host, remote>>
      /\ exit' = IF failed # <<>> THEN "failure" ELSE "success"
      /\ clipboard' = IF IsBatch /\ urls # <<>> /\ options.clip /\ options.canCopy
                      THEN all ELSE clipboard
  BY DEF Summary, CopyTo, transferVars
<1>2. /\ urls \in Seq(Report) /\ Len(urls) \in Nat /\ Len(urls) <= fileCount
      /\ fileCount \in Nat /\ exit = "none"
  BY <1>1, UploadAssumption DEF SentInv, CInv, CommandTypes, UrlsInv, ClipInv
<1>3. all \in Seq(Url)
  <2>1. \A k \in 1 .. Len(urls) : urls[k].url \in Url
    <3>1. \A k \in 1 .. Len(urls) : urls[k] \in Report
      BY <1>2
    <3> QED  BY <3>1 DEF Report
  <2>2. DOMAIN urls = 1 .. Len(urls)
    BY <1>2
  <2> QED  BY <1>2, <2>1, <2>2
<1>4. Len(urls) = 1 => all = <<urls[1].url>>
  BY <1>2
<1> HIDE DEF all
<1>5. CommandTypes'
  BY <1>1, <1>3 DEF CInv, CommandTypes
<1>6. RecordInv' /\ FailInv' /\ RecordsAreCopies'
  BY <1>1 DEF CInv, RecordInv, FailInv, RecordsAreCopies
<1>7. UrlsInv'
  BY <1>1 DEF CInv, UrlsInv, AllStored, Stored
<1>8. SuccessMeansStored'
  <2>1. ASSUME failed = <<>>
        PROVE  /\ Len(urls) = fileCount
               /\ \A k \in 1 .. fileCount : urls[k].file = k /\ Stored(urls[k])
    BY <1>1, <1>2, <2>1 DEF CInv, UrlsInv, AllStored
  <2> QED  BY <1>1, <2>1 DEF SuccessMeansStored, Stored
<1>9. ClipInv' /\ ClipboardHasAll'
  <2>1. ASSUME urls # <<>>
        PROVE  clipboard' = IF options.clip /\ options.canCopy THEN all ELSE <<>>
    <3>1. CASE IsBatch
      BY <1>1, <1>2, <2>1, <3>1 DEF CInv, ClipInv
    <3>2. CASE ~IsBatch
      <4>1. Len(urls) # 0
        BY <1>2, <2>1
      <4>2. Len(urls) = 1
        <5>1. fileCount \in Nat /\ ~(fileCount > 1)
          BY <1>2, <3>2 DEF IsBatch
        <5>2. Len(urls) \in Nat /\ Len(urls) <= fileCount
          BY <1>2
        <5>3. ASSUME NEW n \in Nat, NEW m \in Nat, n # 0, n <= m, ~(m > 1)
              PROVE  n = 1
          BY <5>3
        <5> QED  BY <4>1, <5>1, <5>2, <5>3
      <4>3. all = <<urls[1].url>>
        BY <1>4, <4>2
      <4> QED  BY <1>1, <1>2, <2>1, <3>2, <4>3 DEF CInv, ClipInv
    <3> QED  BY <3>1, <3>2
  <2> QED  BY <1>1, <2>1 DEF ClipInv, ClipboardHasAll, all
<1> QED  BY <1>5, <1>6, <1>7, <1>8, <1>9 DEF CInv

-----------------------------------------------------------------------------
(* The theorems.                                                           *)

LEMMA CommandInvariance == Spec => [](CInv /\ SentInv /\ TInv)
<1>1. ASSUME CInv, SentInv, TInv, [Next]_vars
      PROVE  CInv'
  <2>1. CASE UNCHANGED vars
    BY <1>1, <2>1 DEF vars, transferVars, commandVars, CInv, CommandTypes, RecordInv, UrlsInv,
       AllStored, Stored, FailInv, ClipInv, IsBatch, RecordsAreCopies, SuccessMeansStored, ClipboardHasAll
  <2> QED
    BY <1>1, <2>1, NetworkKeepsReports, FailureKeeps, QuietKeeps, UploadedKeeps, RecordKeeps,
       SummaryKeeps DEF Next, Command
<1>2. Spec => []TInv
  BY CommandMakesCalls, TransferInvariance, PTL DEF ImplementsTransfer
<1> QED  BY <1>1, <1>2, CommandInit, SentInvariance, PTL DEF Spec

\* The state of the command is well typed.
THEOREM UploadTypeCorrect == Spec => []TypeOK
<1>1. CInv /\ SentInv /\ TInv => TypeOK
  BY UploadAssumption DEF CInv, CommandTypes, SentInv, TInv, TypeOK, Report
<1> QED  BY <1>1, CommandInvariance, PTL

\* Exit code 0 means that every file of the list is at the host, at the URL that
\* was printed for it (cli.c:1514).
THEOREM SuccessIsStored == Spec => []SuccessMeansStored
BY CommandInvariance, PTL DEF CInv

\* Every URL in the history is that of a copy the host has (cli.c:1359-1364).
THEOREM HistoryHasCopies == Spec => []RecordsAreCopies
BY CommandInvariance, PTL DEF CInv

\* What is in the clipboard in the end is all that was uploaded, in order
\* (cli.c:1351-1356, 1442-1489).
THEOREM ClipboardIsComplete == Spec => []ClipboardHasAll
BY CommandInvariance, PTL DEF CInv

\* Without --continue-on-error nothing after the first failure is ever sent
\* (cli.c:1262-1268, 1379-1386).
THEOREM StopsAtFailure == Spec => []NothingAfterFailure
<1>1. CInv /\ SentInv => NothingAfterFailure
  BY DEF CInv, FailInv, SentInv, NothingAfterFailure
<1> QED  BY <1>1, CommandInvariance, PTL

-----------------------------------------------------------------------------
(* The command settles each file once.                                     *)

\* How many files have been settled.
SettledCount == Len(urls) + Len(failed)

\* They are those before the one the command is at, and among them are the
\* files that failed.
BatchInv ==
    /\ step \in {"start", "file", "network"} => SettledCount = index - 1
    /\ step = "record" => SettledCount = index
    /\ step = "summary" => \/ SettledCount = fileCount
                           \/ failed # <<>> /\ ~options.keepGoing
    /\ \A j \in 1 .. Len(failed) : failed[j] <= SettledCount

\* The lengths and numbers that are counted with.
LEMMA BatchNumbers ==
    ASSUME CInv, SentInv
    PROVE  /\ index \in Nat \ {0} /\ fileCount \in Nat \ {0} /\ index <= fileCount + 1
           /\ step \in {"start", "file", "network", "record"} =>
                 index <= fileCount /\ index \in Uploads
           /\ urls \in Seq(Report) /\ Len(urls) \in Nat
           /\ failed \in Seq(Uploads) /\ Len(failed) \in Nat
           /\ DOMAIN failed = 1 .. Len(failed)
           /\ \A j \in 1 .. Len(failed) : failed[j] \in Nat \ {0}
<1>1. urls \in Seq(Report) /\ failed \in Seq(Uploads)
  BY DEF CInv, CommandTypes
<1>2. Uploads \subseteq Nat \ {0} /\ fileCount \in Uploads /\ Uploads = 1 .. MaxFiles
  BY UploadAssumption DEF SentInv
<1>3. /\ Len(urls) \in Nat /\ Len(failed) \in Nat
      /\ DOMAIN failed = 1 .. Len(failed)
      /\ \A j \in 1 .. Len(failed) : failed[j] \in Uploads
  BY <1>1, ElementOfSeq, LenProperties
<1>4. /\ index \in Nat \ {0} /\ index <= fileCount + 1
      /\ step \in {"start", "file", "network", "record"} => index <= fileCount
  BY DEF SentInv
<1>5. index <= fileCount => index \in Uploads
  BY <1>2, <1>4, UploadAssumption
<1> QED  BY <1>1, <1>2, <1>3, <1>4, <1>5

LEMMA BatchInit == Init => BatchInv
<1> SUFFICES ASSUME Init PROVE BatchInv
  OBVIOUS
<1>1. urls = <<>> /\ failed = <<>> /\ index = 1 /\ step = "start"
  BY DEF Init
<1>2. Len(<<>>) = 0
  OBVIOUS
<1> QED  BY <1>1, <1>2 DEF BatchInv, SettledCount

\* One more file has failed.
LEMMA FailureKeepsBatch ==
    ASSUME CInv, SentInv, BatchInv, FileMissing \/ NotUploaded
    PROVE  BatchInv' /\ SettledCount' = SettledCount + 1 /\ SettledCount = index - 1
<1>1. /\ step \in {"file", "network"} /\ CountFailure
      /\ UNCHANGED <<fileCount, options, urls>>
      /\ failed' = Append(failed, index)
  BY DEF FileMissing, NotUploaded, CountFailure
<1>2. /\ index \in Nat \ {0} /\ fileCount \in Nat \ {0} /\ index <= fileCount
      /\ index \in Uploads
      /\ Len(urls) \in Nat /\ failed \in Seq(Uploads) /\ Len(failed) \in Nat
      /\ \A j \in 1 .. Len(failed) : failed[j] \in Nat \ {0}
  BY <1>1, BatchNumbers
<1>3. /\ Len(failed') = Len(failed) + 1 /\ failed'[Len(failed) + 1] = index
      /\ \A j \in 1 .. Len(failed) : failed'[j] = failed[j]
  BY <1>1, <1>2, AppendProperties
<1>4. failed' # <<>>
  BY <1>1, <1>2
<1>5. SettledCount = index - 1
  BY <1>1 DEF BatchInv
<1>6. SettledCount' = SettledCount + 1
  BY <1>1, <1>2, <1>3 DEF SettledCount
<1>7. \/ step' = "file" /\ index < fileCount /\ index' = index + 1
      \/ step' = "summary" /\ (~(index < fileCount) \/ ~options.keepGoing)
  BY <1>1 DEF CountFailure, GoOn
<1>8. \A j \in 1 .. Len(failed') : failed'[j] <= SettledCount'
  <2>1. \A j \in 1 .. Len(failed) : failed[j] <= SettledCount
    BY DEF BatchInv
  <2>2. \A j \in 1 .. Len(failed') : j = Len(failed) + 1 \/ j \in 1 .. Len(failed)
    BY <1>2, <1>3
  <2> QED  BY <1>2, <1>3, <1>5, <1>6, <2>1, <2>2
<1>9. BatchInv'
  BY <1>1, <1>2, <1>4, <1>5, <1>6, <1>7, <1>8 DEF BatchInv
<1> QED  BY <1>5, <1>6, <1>9

\* One more file was uploaded.
LEMMA UploadedKeepsBatch ==
    ASSUME CInv, SentInv, BatchInv, Uploaded
    PROVE  BatchInv' /\ SettledCount' = SettledCount + 1 /\ SettledCount = index - 1
<1>1. /\ step = "network" /\ step' = "record"
      /\ UNCHANGED <<fileCount, index, options, failed>>
      /\ Len(urls') = Len(urls) + 1
  <2>1. urls' = Append(urls, [file |-> index, url |-> response.url])
    BY DEF Uploaded
  <2>2. urls \in Seq(Report)
    BY BatchNumbers
  <2>3. Len(urls') = Len(urls) + 1
    BY <2>1, <2>2
  <2> QED  BY <2>3 DEF Uploaded
<1>2. /\ index \in Nat \ {0} /\ Len(urls) \in Nat /\ Len(failed) \in Nat
      /\ \A j \in 1 .. Len(failed) : failed[j] \in Nat \ {0}
  BY BatchNumbers
<1>3. SettledCount = index - 1
  BY <1>1 DEF BatchInv
<1>4. SettledCount' = SettledCount + 1
  BY <1>1, <1>2 DEF SettledCount
<1>5. \A j \in 1 .. Len(failed) : failed[j] <= SettledCount'
  BY <1>2, <1>3, <1>4 DEF BatchInv
<1>6. BatchInv'
  BY <1>1, <1>2, <1>3, <1>4, <1>5 DEF BatchInv
<1> QED  BY <1>3, <1>4, <1>6

\* No other step settles a file.
LEMMA OthersKeepBatch ==
    ASSUME CInv, SentInv, BatchInv, [Next]_vars,
           ~FileMissing, ~NotUploaded, ~Uploaded
    PROVE  BatchInv' /\ UNCHANGED <<urls, failed, fileCount, options>>
<1>1. UNCHANGED <<urls, failed, fileCount, options>>
  BY DEF Next, Command, Resolve, UploadFile, ReadUnset, Record, RecordFails, Summary,
     Network, Kill, commandVars, vars
<1>2. SettledCount' = SettledCount
  BY <1>1 DEF SettledCount
<1>3. CASE Record \/ RecordFails
  <2>1. step = "record" /\ GoOn
    BY <1>3 DEF Record, RecordFails
  <2>2. index \in Nat \ {0} /\ fileCount \in Nat \ {0} /\ index <= fileCount
    BY <2>1, BatchNumbers
  <2> QED  BY <1>1, <1>2, <2>1, <2>2 DEF GoOn, BatchInv
<1>4. CASE ~Record /\ ~RecordFails
  <2>1. UNCHANGED index /\ \/ UNCHANGED step
                           \/ step = "start" /\ step' \in {"file", "over"}
                           \/ step = "file" /\ step' = "network"
                           \/ step' \in {"undefined", "over", "killed"}
    BY <1>4 DEF Next, Command, Resolve, UploadFile, ReadUnset, Summary, Network, Kill,
       commandVars, vars
  <2> QED  BY <1>1, <1>2, <2>1 DEF BatchInv
<1> QED  BY <1>3, <1>4

LEMMA BatchInvariance == Spec => []BatchInv
<1>1. CInv /\ SentInv /\ BatchInv /\ [Next]_vars => BatchInv'
  BY FailureKeepsBatch, UploadedKeepsBatch, OthersKeepBatch
<1> QED  BY <1>1, BatchInit, CommandInvariance, PTL DEF Spec

\* What Settled says of a file, and whether one failed.
SettledTells ==
    /\ Settled \in Seq({"uploaded", "failed"})
    /\ Len(Settled) = SettledCount
    /\ DOMAIN Settled = 1 .. SettledCount
    /\ \A k \in 1 .. SettledCount :
          Settled[k] = IF \E j \in 1 .. Len(failed) : failed[j] = k
                       THEN "failed" ELSE "uploaded"
    /\ Batch!SomeFailed <=> failed # <<>>

LEMMA SettledProperties ==
    ASSUME CInv, SentInv, BatchInv
    PROVE  SettledTells
<1> DEFINE n == SettledCount
           what(k) == IF \E j \in DOMAIN failed : failed[j] = k
                      THEN "failed" ELSE "uploaded"
<1>1. /\ n \in Nat /\ Len(failed) \in Nat /\ DOMAIN failed = 1 .. Len(failed)
      /\ failed \in Seq(Uploads)
      /\ \A j \in 1 .. Len(failed) : failed[j] \in Nat \ {0} /\ failed[j] <= n
  BY BatchNumbers DEF BatchInv, SettledCount
<1>2. Settled = [k \in 1 .. n |-> what(k)]
  BY DEF Settled, SettledCount
<1>3. \A k \in 1 .. n : what(k) \in {"uploaded", "failed"}
  OBVIOUS
<1> HIDE DEF n, what
<1>4. /\ Settled \in Seq({"uploaded", "failed"}) /\ Len(Settled) = n
      /\ DOMAIN Settled = 1 .. n
      /\ \A k \in 1 .. n : Settled[k] = what(k)
  BY <1>1, <1>2, <1>3
<1>5. Batch!SomeFailed <=> \E k \in 1 .. n : what(k) = "failed"
  BY <1>4 DEF Batch!SomeFailed
<1>6. (\E k \in 1 .. n : what(k) = "failed") <=> \E j \in 1 .. Len(failed) : TRUE
  BY <1>1 DEF what
<1>7. failed # <<>> <=> Len(failed) # 0
  BY <1>1, EmptySeq
<1>8. Len(failed) # 0 <=> \E j \in 1 .. Len(failed) : TRUE
  BY <1>1
<1> QED  BY <1>1, <1>4, <1>5, <1>6, <1>7, <1>8 DEF n, what, SettledTells

\* A step that settles the file the command is at settles the next one.
LEMMA SettlesNext ==
    ASSUME CInv, SentInv, BatchInv, CInv', SentInv', BatchInv',
           SettledCount' = SettledCount + 1, SettledCount = index - 1,
           \/ failed' = Append(failed, index)
           \/ UNCHANGED failed
    PROVE  \E r \in {"uploaded", "failed"} : Settled' = Append(Settled, r)
<1> DEFINE n == SettledCount
           r == Settled'[n + 1]
<1>1. /\ n \in Nat /\ index = n + 1 /\ Len(failed) \in Nat /\ failed \in Seq(Uploads)
      /\ index \in Nat
  BY BatchNumbers DEF SettledCount
<1>2. /\ Settled \in Seq({"uploaded", "failed"}) /\ Len(Settled) = n
      /\ \A k \in 1 .. n :
            Settled[k] = IF \E j \in 1 .. Len(failed) : failed[j] = k
                         THEN "failed" ELSE "uploaded"
  BY SettledProperties DEF SettledTells
<1>3. /\ Settled' \in Seq({"uploaded", "failed"}) /\ Len(Settled') = SettledCount'
      /\ \A k \in 1 .. SettledCount' :
            Settled'[k] = IF \E j \in 1 .. Len(failed') : failed'[j] = k
                          THEN "failed" ELSE "uploaded"
  <2>1. SettledTells'
    BY SettledProperties, PTL
  <2> QED  BY <2>1 DEF SettledTells
<1>4. \A k \in 1 .. n :
          (\E j \in 1 .. Len(failed') : failed'[j] = k)
              <=> (\E j \in 1 .. Len(failed) : failed[j] = k)
  <2>1. CASE UNCHANGED failed
    BY <2>1
  <2>2. CASE failed' = Append(failed, index)
    <3>1. /\ Len(failed') = Len(failed) + 1 /\ failed'[Len(failed) + 1] = index
          /\ \A j \in 1 .. Len(failed) : failed'[j] = failed[j]
          /\ \A j \in 1 .. Len(failed') : j = Len(failed) + 1 \/ j \in 1 .. Len(failed)
      <4>1. index \in Uploads \/ index \notin Uploads
        OBVIOUS
      <4>2. /\ Len(failed') = Len(failed) + 1 /\ failed'[Len(failed) + 1] = index
            /\ \A j \in 1 .. Len(failed) : failed'[j] = failed[j]
        BY <1>1, <2>2
      <4> QED  BY <1>1, <4>2
    <3>2. \A k \in 1 .. n : k # index
      BY <1>1
    <3>3. \A j \in 1 .. Len(failed) : j \in 1 .. Len(failed')
      BY <1>1, <3>1
    <3> HIDE DEF n
    <3> QED  BY <3>1, <3>2, <3>3
  <2> QED  BY <2>1, <2>2
<1>5. r \in {"uploaded", "failed"}
  BY <1>1, <1>3
<1>6. \A k \in 1 .. n : Settled'[k] = Settled[k]
  BY <1>1, <1>2, <1>3, <1>4
<1> HIDE DEF n, r
<1>7. /\ Append(Settled, r) \in Seq({"uploaded", "failed"})
      /\ Len(Append(Settled, r)) = n + 1 /\ Append(Settled, r)[n + 1] = r
      /\ \A k \in 1 .. n : Append(Settled, r)[k] = Settled[k]
  BY <1>2, <1>5, AppendProperties
<1>8. \A k \in 1 .. n + 1 : k = n + 1 \/ k \in 1 .. n
  BY <1>1 DEF n
<1>9. Len(Settled') = n + 1
  BY <1>3 DEF n
<1>10. Settled'[n + 1] = r
  BY DEF r
<1>11. \A k \in 1 .. n + 1 : Settled'[k] = Append(Settled, r)[k]
  BY <1>6, <1>7, <1>8, <1>10
<1>12. Settled' = Append(Settled, r)
  BY <1>3, <1>7, <1>9, <1>11, SeqEqual
<1> QED  BY <1>5, <1>12

\* Retries, missing files, failures of the host and of the database make no
\* difference to what the command reports: it settles every file once and in
\* order, stops at the first failure unless it was told to go on, and its exit
\* code tells if one failed (cli.c:1242-1515), for any list of files.
THEOREM CommandSettlesEachFile == Spec => ImplementsBatch
<1>1. Init => Batch!Init
  <2> SUFFICES ASSUME Init PROVE Batch!Init
    OBVIOUS
  <2>1. fileCount \in Nat \ {0} /\ options.keepGoing \in BOOLEAN /\ exit = "none"
    BY UploadAssumption DEF Init, Options
  <2>2. urls = <<>> /\ failed = <<>>
    BY DEF Init
  <2>3. Len(urls) + Len(failed) = 0
    BY <2>2
  <2>4. Settled = <<>>
    BY <2>3 DEF Settled
  <2> QED  BY <2>1, <2>4 DEF Batch!Init
<1>2. ASSUME CInv, SentInv, BatchInv, CInv', SentInv', BatchInv', [Next]_vars
      PROVE  [Batch!Next]_Batch!batchVars
  <2>1. /\ Len(Settled) = SettledCount
        /\ Batch!SomeFailed <=> failed # <<>>
    BY <1>2, SettledProperties DEF SettledTells
  <2>2. CASE FileMissing \/ NotUploaded \/ Uploaded
    <3>1. /\ step \in {"file", "network"}
          /\ UNCHANGED <<fileCount, options, exit>>
          /\ failed' = Append(failed, index) \/ UNCHANGED failed
      BY <2>2 DEF FileMissing, NotUploaded, Uploaded, CountFailure
    <3>2. SettledCount' = SettledCount + 1 /\ SettledCount = index - 1
      BY <1>2, <2>2, FailureKeepsBatch, UploadedKeepsBatch
    <3>3. \E r \in {"uploaded", "failed"} : Settled' = Append(Settled, r)
      BY <1>2, <3>1, <3>2, SettlesNext
    <3>4. exit = "none"
      BY <1>2, <3>1 DEF CInv, ClipInv
    <3>5. ~(failed # <<>> /\ ~options.keepGoing)
      BY <1>2, <3>1 DEF CInv, FailInv
    <3>6. SettledCount # fileCount
      BY <1>2, <3>1, <3>2, BatchNumbers
    <3>7. ~Batch!Stopped
      BY <2>1, <3>5, <3>6 DEF Batch!Stopped
    <3> QED  BY <3>1, <3>3, <3>4, <3>7 DEF Batch!Next, Batch!Settle
  <2>3. CASE ~FileMissing /\ ~NotUploaded /\ ~Uploaded
    <3>1. UNCHANGED <<urls, failed, fileCount, options>>
      BY <1>2, <2>3, OthersKeepBatch
    <3>2. UNCHANGED Settled
      BY <3>1 DEF Settled
    <3>3. CASE Summary
      <4>1. /\ step = "summary" /\ exit = "none"
            /\ exit' = IF failed # <<>> THEN "failure" ELSE "success"
        BY <1>2, <3>3 DEF Summary, CInv, ClipInv
      <4>2. Batch!Stopped
        BY <1>2, <2>1, <4>1 DEF BatchInv, Batch!Stopped
      <4> QED  BY <2>1, <3>1, <3>2, <4>1, <4>2 DEF Batch!Next, Batch!Finish
    <3>4. CASE Resolve /\ exit' = "failure"
      <4>1. exit = "none" /\ urls = <<>> /\ failed = <<>>
        BY <1>2, <3>4 DEF Resolve, CInv, ClipInv, FailInv
      <4>2. Len(urls) + Len(failed) = 0
        BY <4>1
      <4>3. Settled = <<>>
        BY <4>2 DEF Settled
      <4> QED  BY <3>1, <3>2, <3>4, <4>1, <4>3 DEF Batch!Next, Batch!Refuse
    <3>5. CASE ~Summary /\ ~(Resolve /\ exit' = "failure")
      <4>1. UNCHANGED exit
        BY <1>2, <2>3, <3>5 DEF Next, Command, Resolve, UploadFile, ReadUnset, Record,
           RecordFails, Network, Kill, commandVars, vars
      <4> QED  BY <3>1, <3>2, <4>1 DEF Batch!batchVars
    <3> QED  BY <3>3, <3>4, <3>5
  <2> QED  BY <2>2, <2>3
<1> QED
  BY <1>1, <1>2, CommandInvariance, BatchInvariance, PTL
     DEF Spec, ImplementsBatch, Batch!Spec
=============================================================================
