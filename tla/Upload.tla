------------------------------- MODULE Upload -------------------------------
(***************************************************************************)
(* ext_file_upload and ext_file_upload_to_thread: handleUpload of          *)
(* internal/proxy/tools.go and the three-step transfer under it            *)
(* (internal/transfer/upload.go, audit.go).                                *)
(*                                                                         *)
(* A proxy serves one call at a time.  The file is measured twice, by the  *)
(* containment policy and by Upload, and read a third time, while somebody *)
(* else may be writing to it; Slack posts it in the last of three calls,   *)
(* each of which can fail before or after it took effect.                  *)
(*                                                                         *)
(* Abstractions.  A file is its size, or missing.  All the refusals of the *)
(* policy but too_large and not_found are one.                             *)
(***************************************************************************)
EXTENDS Naturals, Sequences

CONSTANTS Cap,      \* max_file_size, 0 for none
          MaxSize,  \* bound: the size of a file
          Missing   \* the size of a file that is not there

ASSUME UploadAssumption == Cap \in Nat /\ MaxSize \in Nat /\ Missing \notin Nat

Sizes == 0..MaxSize
Outcomes == {"ok", "denied", "error"}
Replies  == {"none", "ok", "invalid_arguments", "work_dir_denied",
             "path_denied", "slack_api_error", "upload_failed"}

VARIABLES
    file,       \* the size of the file the call names, as of now
    pc,         \* where the proxy is in the call
    length,     \* the length Upload declares
    retried,    \* the API call under way has used its one retry
    sent,       \* the bytes that left the machine, or Missing
    stored,     \* the bytes Slack keeps behind the upload URL, or Missing
    posts,      \* how often the file was posted by this call
    result,     \* the reply and the audit record of the call, once decided
    log,        \* what the call wrote to the audit log
    logFailed,  \* Append failed
    written     \* history: the file was written to after the policy had measured it

slackVars == <<stored, posts>>
vars == <<file, pc, length, retried, sent, slackVars, result, log, logFailed,
          written>>

Result(reply, record) == [reply |-> reply, record |-> record]

\* Mutant: what is not to be logged is logged.
Decide_LogsAll(reply, record) ==
    /\ result' = Result(reply, record)
    /\ pc' = "audit"

\* The call is decided: what remains is to log it, or not, and to answer.
Decide(reply, record) ==
    /\ result' = Result(reply, record)
    /\ pc' = IF record = "none" THEN "reply" ELSE "audit"

-----------------------------------------------------------------------------
Init ==
    /\ file \in Sizes \cup {Missing}
    /\ pc = "idle"
    /\ length = 0
    /\ retried = FALSE
    /\ sent = Missing
    /\ stored = Missing
    /\ posts = 0
    /\ result = Result("none", "none")
    /\ log = <<>>
    /\ logFailed = FALSE
    /\ written = FALSE

\* A call that lacks an argument is refused before anything else.
Call ==
    /\ pc = "idle"
    /\ \/ Decide("invalid_arguments", "none")
       \/ pc' = "workdir" /\ UNCHANGED result
    /\ UNCHANGED <<file, length, retried, sent, slackVars, log, logFailed, written>>

\* policyFor: its refusals are answered and not logged.
WorkDir ==
    /\ pc = "workdir"
    /\ \/ Decide("work_dir_denied", "none")
       \/ pc' = "resolve" /\ UNCHANGED result
    /\ UNCHANGED <<file, length, retried, sent, slackVars, log, logFailed, written>>

OverCap(size) == Cap > 0 /\ size > Cap

\* Mutant: the policy does not look at the size.
MaySend_Any(size) == TRUE

MaySend(size) == ~OverCap(size)

\* Policy.Resolve, which looks at the file last.
Resolve ==
    /\ pc = "resolve"
    /\ \/ Decide("path_denied", "denied")
       \/ /\ file # Missing
          /\ MaySend(file)
          /\ pc' = "stat"
          /\ UNCHANGED result
    /\ UNCHANGED <<file, length, retried, sent, slackVars, log, logFailed, written>>

\* Mutant: failures are not logged.
Fail_Unlogged(reply) == Decide(reply, "none")

Fail(reply) == Decide(reply, "error")

-----------------------------------------------------------------------------
(* Upload *)

Stat ==
    /\ pc = "stat"
    /\ \/ /\ file = Missing
          /\ Fail("upload_failed")
          /\ UNCHANGED length
       \/ /\ file # Missing
          /\ length' = file
          /\ pc' = "geturl"
          /\ UNCHANGED result
    /\ retried' = FALSE
    /\ UNCHANGED <<file, sent, slackVars, log, logFailed, written>>

\* apiCall tries once more when Slack says that the token is no longer valid,
\* in an envelope: a call so answered had no effect.
AuthError(step) ==
    /\ pc = step
    /\ IF retried THEN Fail("slack_api_error") /\ UNCHANGED retried
                  ELSE retried' = TRUE /\ UNCHANGED <<pc, result>>
    /\ UNCHANGED <<file, length, sent, slackVars, log, logFailed, written>>

\* Any other error of the envelope is Slack's last word.
SlackError(step) ==
    /\ pc = step
    /\ Fail("slack_api_error")
    /\ UNCHANGED <<file, length, retried, sent, slackVars, log, logFailed, written>>

\* Mutant: a call without an answer is tried again as well.
Unanswered_Retried ==
    IF retried THEN Fail("upload_failed") /\ UNCHANGED retried
               ELSE retried' = TRUE /\ UNCHANGED <<pc, result>>

\* The connection fails, or the answer cannot be read: not tried again.
Unanswered == Fail("upload_failed") /\ UNCHANGED retried

GetURL ==
    /\ pc = "geturl"
    /\ \/ pc' = "open" /\ UNCHANGED <<result, retried>>
       \/ Unanswered
    /\ UNCHANGED <<file, length, sent, slackVars, log, logFailed, written>>

Smaller(a, b) == IF a < b THEN a ELSE b

\* net/http fails the request when the body is shorter than declared.
Short == file < length

\* It sends no more than the length declared, but takes a length of 0 on a body
\* that is a file for "unknown" and then sends the file to its end.
OnTheWire == IF length = 0 THEN file ELSE Smaller(file, length)

\* Mutant: the status of the answer is not looked at.
BytesRefused_Ignored == pc' = "complete" /\ UNCHANGED result

BytesRefused == Fail("upload_failed")

\* The POST of the bytes: it fails, or the upload URL keeps them.  It may fail
\* for a body that is too long as well, unless the answer is faster.
PostBytes ==
    /\ pc = "open"
    /\ \/ /\ file = Missing
          /\ Fail("upload_failed")
          /\ UNCHANGED <<sent, slackVars>>
       \/ /\ file # Missing
          /\ sent' = OnTheWire
          /\ \/ /\ ~Short
                /\ stored' = sent'
                /\ pc' = "complete"
                /\ UNCHANGED <<posts, result>>
             \/ /\ BytesRefused
                /\ UNCHANGED slackVars
    /\ retried' = FALSE
    /\ UNCHANGED <<file, length, log, logFailed, written>>

\* files.completeUploadExternal takes effect; its answer may get lost.
Complete ==
    /\ pc = "complete"
    /\ posts' = posts + 1
    /\ \/ Decide("ok", "ok") /\ UNCHANGED retried
       \/ Unanswered
    /\ UNCHANGED <<file, length, sent, stored, log, logFailed, written>>

\* It does not reach Slack, or is refused with a status of its own.
CompleteFailed ==
    /\ pc = "complete"
    /\ Unanswered
    /\ UNCHANGED <<file, length, sent, slackVars, log, logFailed, written>>

-----------------------------------------------------------------------------
Audit ==
    /\ pc = "audit"
    /\ \/ log' = Append(log, result.record) /\ UNCHANGED logFailed
       \/ logFailed' = TRUE /\ UNCHANGED log
    /\ pc' = "reply"
    /\ UNCHANGED <<file, length, retried, sent, slackVars, result, written>>

\* Nothing of a call outlives it.
Forget ==
    /\ pc' = "idle"
    /\ length' = 0
    /\ retried' = FALSE
    /\ sent' = Missing
    /\ stored' = Missing
    /\ posts' = 0
    /\ result' = Result("none", "none")
    /\ log' = <<>>
    /\ logFailed' = FALSE
    /\ written' = FALSE
    /\ UNCHANGED file

Reply == pc = "reply" /\ Forget

\* The process dies and is started anew.
Crash == pc # "idle" /\ Forget

\* Somebody writes to the file, replaces it or removes it.
Edit ==
    /\ file' \in (Sizes \cup {Missing}) \ {file}
    /\ written' = (written \/ (pc \in {"stat", "geturl", "open"} /\ file' # Missing))
    /\ UNCHANGED <<pc, length, retried, sent, slackVars, result, log,
                   logFailed>>

Next ==
    \/ Call \/ WorkDir \/ Resolve \/ Stat
    \/ \E step \in {"geturl", "complete"} : AuthError(step) \/ SlackError(step)
    \/ GetURL \/ PostBytes \/ Complete \/ CompleteFailed
    \/ Audit \/ Reply \/ Crash \/ Edit

Spec == Init /\ [][Next]_vars

-----------------------------------------------------------------------------
(* Properties *)

TypeOK ==
    /\ file \in Sizes \cup {Missing}
    /\ pc \in {"idle", "workdir", "resolve", "stat", "geturl", "open",
               "complete", "audit", "reply"}
    /\ length \in Sizes
    /\ retried \in BOOLEAN
    /\ sent \in Sizes \cup {Missing} /\ stored \in Sizes \cup {Missing}
    /\ posts \in Nat
    /\ result \in [reply : Replies, record : Outcomes \cup {"none"}]
    /\ log \in Seq(Outcomes)
    /\ logFailed \in BOOLEAN /\ written \in BOOLEAN

\* One call never posts the file twice, although its API calls are retried.
PostedAtMostOnce == posts <= 1

\* The agent is told "ok" only of a file that is posted, with every byte of the
\* length it is told: a file that shrinks meanwhile is not posted in part.  A
\* file that was empty when it was measured is the one exception.
OkMeansPosted ==
    (pc = "reply" /\ result.reply = "ok") =>
        posts = 1 /\ (length # 0 => stored = length)

\* Once bytes have left the machine, the call does not end without a record in
\* the log, unless the log cannot be written; and "ok" in the log means posted.
EgressIsLogged ==
    /\ (pc = "reply" /\ sent # Missing) => logFailed \/ Len(log) = 1
    /\ \A k \in 1..Len(log) : log[k] = "ok" => posts = 1

\* README.md:44, "size-capped (declared size and on the wire)": Upload measures
\* the file again without a limit, so that what it sends is beyond the cap only
\* if somebody wrote to the file after the policy had measured it.
BeyondCapMeansWritten == (sent # Missing /\ OverCap(sent)) => written
=============================================================================
