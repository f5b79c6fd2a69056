------------------------------ MODULE Download ------------------------------
(***************************************************************************)
(* ext_file_download: handleDownload of internal/proxy/tools.go, and the   *)
(* transfer under it (internal/transfer/download.go, audit.go), run by     *)
(* every proxy that is given the same work directory.                      *)
(*                                                                         *)
(* A proxy serves one call at a time.  Whether the target exists is        *)
(* looked up by ResolveNewFile; the file is fetched into a temporary file  *)
(* of the same directory and renamed over the target much later, and the   *)
(* directory belongs to everybody in the meantime.                         *)
(*                                                                         *)
(* Abstractions.  A file is who made it, how many bytes it has and whether *)
(* these are all the bytes there were.  Names are the sanitized ones; all  *)
(* the refusals of ResolveNewFile but already_exists are one.  A body is   *)
(* framed, so that a connection cut short is an error of the copy.         *)
(***************************************************************************)
EXTENDS Naturals, Sequences

CONSTANTS Proxies,   \* the proxies of one work directory
          Names,     \* names in it
          UserNames, \* the names the user creates files under
          Cap,       \* max_file_size, 0 for none
          MaxSize,   \* bound: the size of a file
          User, Nobody

ASSUME DownloadAssumption ==
    /\ UserNames \subseteq Names
    /\ Cap \in Nat /\ MaxSize \in Nat
    /\ User # Nobody /\ User \notin Proxies /\ Nobody \notin Proxies

Sizes == 0..MaxSize

Files  == [by : Proxies \cup {User, Nobody}, size : Sizes, whole : BOOLEAN]
NoFile == [by |-> Nobody, size |-> 0, whole |-> FALSE]

Outcomes == {"ok", "denied", "error"}

\* What becomes of a call: what the agent is told and what the audit log is
\* told, "none" where nothing is logged.
Results  == [reply : {"ok", "invalid_arguments", "work_dir_denied",
                      "file_too_large", "path_denied", "download_failed"},
             record : Outcomes \cup {"none"}]

VARIABLES
    dir,        \* the work directory
    temp,       \* the last temporary file each proxy made, while it is there
    excuse,     \* history: why that file outlives its call
    pc,         \* where each proxy is in its call
    target,     \* the name the call asks for
    declared,   \* the size files.info tells
    served,     \* the size the server sends
    result,     \* the result of the call, once it is known
    log,        \* what the call wrote to the audit log
    logFailed,  \* Append failed
    landed,     \* this call has renamed its file over the target
    late        \* history: its target was created after it had looked

vars == <<dir, temp, excuse, pc, target, declared, served, result, log,
          logFailed, landed, late>>
tempVars == <<temp, excuse>>
callVars == <<target, declared, served>>

Exists(n) == dir[n] # NoFile
At(p, label)   == pc[p] = label
Goto(p, label) == pc' = [pc EXCEPT ![p] = label]

Result(reply, record) == [reply |-> reply, record |-> record]

\* The call is decided: what remains is to log it, or not, and to answer.
Decide(p, reply, record) ==
    /\ result' = [result EXCEPT ![p] = Result(reply, record)]
    /\ Goto(p, IF record = "none" THEN "reply" ELSE "audit")

NoTemp == NoFile

\* Where a temporary file is written and not yet renamed.
Transferring == {"copy", "limit", "rename"}

\* Mutant: the temporary file is closed and left.
CleanUp_Leaves(p) == UNCHANGED tempVars

\* os.Remove, whose error is ignored: in a directory that was moved away or made
\* unwritable the file stays.
CleanUp(p) ==
    \/ /\ temp' = [temp EXCEPT ![p] = NoTemp]
       /\ UNCHANGED excuse
    \/ /\ excuse' = [excuse EXCEPT ![p] = "unremoved"]
       /\ UNCHANGED temp

-----------------------------------------------------------------------------
UserFile == [by |-> User, size |-> 0, whole |-> TRUE]

Init ==
    /\ dir \in [Names -> {NoFile, UserFile}]
    /\ temp = [p \in Proxies |-> NoTemp]
    /\ excuse = [p \in Proxies |-> "none"]
    /\ pc = [p \in Proxies |-> "idle"]
    /\ target \in [Proxies -> Names]
    /\ declared = [p \in Proxies |-> 0]
    /\ served = [p \in Proxies |-> 0]
    /\ result = [p \in Proxies |-> Result("ok", "none")]
    /\ log = [p \in Proxies |-> <<>>]
    /\ logFailed = [p \in Proxies |-> FALSE]
    /\ landed = [p \in Proxies |-> FALSE]
    /\ late = [p \in Proxies |-> FALSE]

\* A call that lacks file_id is refused before anything else.
Call(p) ==
    /\ At(p, "idle")
    /\ \E n \in Names : target' = [target EXCEPT ![p] = n]
    /\ \/ Decide(p, "invalid_arguments", "none")
       \/ Goto(p, "workdir") /\ UNCHANGED result
    /\ UNCHANGED <<dir, tempVars, declared, served, log, logFailed, landed, late>>

\* policyFor: its refusals are answered and not logged.
WorkDir(p) ==
    /\ At(p, "workdir")
    /\ \/ Decide(p, "work_dir_denied", "none")
       \/ Goto(p, "info") /\ UNCHANGED result
    /\ UNCHANGED <<dir, tempVars, callVars, log, logFailed, landed, late>>

\* files.info: the size it tells need not be the one that is served.
Info(p) ==
    /\ At(p, "info")
    /\ \/ /\ Decide(p, "download_failed", "error")
          /\ UNCHANGED callVars
       \/ /\ \E d, s \in Sizes : /\ declared' = [declared EXCEPT ![p] = d]
                                 /\ served' = [served EXCEPT ![p] = s]
          /\ Goto(p, "precheck")
          /\ UNCHANGED <<target, result>>
    /\ UNCHANGED <<dir, tempVars, log, logFailed, landed, late>>

OverCap(size) == Cap > 0 /\ size > Cap

\* Mutant: the refusal is not logged.
RefuseSize_Unlogged(p) == Decide(p, "file_too_large", "none")

RefuseSize(p) == Decide(p, "file_too_large", "denied")

\* The declared size is checked before any byte moves.
Precheck(p) ==
    /\ At(p, "precheck")
    /\ \/ /\ OverCap(declared[p])
          /\ RefuseSize(p)
       \/ /\ ~OverCap(declared[p])
          /\ Goto(p, "resolve")
          /\ UNCHANGED result
    /\ UNCHANGED <<dir, tempVars, callVars, log, logFailed, landed, late>>

\* There is a file n now: those who have found none do not know of it.
Created(n) ==
    late' = [p \in Proxies |->
        late[p] \/ (target[p] = n /\ pc[p] \in {"fetch", "copy", "limit", "rename"})]

\* Mutant: whether the name is taken is not looked up.
MayCreate_Any(n) == TRUE

\* The last check of ResolveNewFile: Lstat.
MayCreate(n) == ~Exists(n)

\* ResolveNewFile, which refuses for reasons of its own as well.
Resolve(p) ==
    /\ At(p, "resolve")
    /\ \/ Decide(p, "path_denied", "denied")
       \/ /\ MayCreate(target[p])
          /\ Goto(p, "fetch")
          /\ UNCHANGED result
    /\ UNCHANGED <<dir, tempVars, callVars, log, logFailed, landed, late>>

-----------------------------------------------------------------------------
(* FetchTo *)

\* The GET, and the temporary file for its body.
Get(p) ==
    /\ At(p, "fetch")
    /\ \/ /\ Decide(p, "download_failed", "error")
          /\ UNCHANGED tempVars
       \/ /\ temp' = [temp EXCEPT ![p] =
                         [by |-> p, size |-> 0, whole |-> FALSE]]
          /\ excuse' = [excuse EXCEPT ![p] = "none"]
          /\ Goto(p, "copy")
          /\ UNCHANGED result
    /\ UNCHANGED <<dir, callVars, log, logFailed, landed, late>>

\* Mutant: the limit is the cap, so that nothing is ever beyond it.
Copied_Truncates(size) == IF OverCap(size) THEN Cap ELSE size

\* What LimitReader lets through: one byte more than the cap at most.
Copied(size) == IF OverCap(size) THEN Cap + 1 ELSE size

Copy(p) ==
    /\ At(p, "copy")
    /\ temp' = [temp EXCEPT ![p] =
                   [@ EXCEPT !.size = Copied(served[p]),
                             !.whole = (Copied(served[p]) = served[p])]]
    /\ Goto(p, "limit")
    /\ UNCHANGED <<dir, excuse, callVars, result, log, logFailed, landed, late>>

\* The connection breaks, the disk is full.
CopyFailed(p) ==
    /\ At(p, "copy")
    /\ CleanUp(p)
    /\ Decide(p, "download_failed", "error")
    /\ UNCHANGED <<dir, callVars, log, logFailed, landed, late>>

\* More came than the cap allows.
TooLarge(p) ==
    /\ At(p, "limit")
    /\ OverCap(temp[p].size)
    /\ CleanUp(p)
    /\ Decide(p, "file_too_large", "error")
    /\ UNCHANGED <<dir, callVars, log, logFailed, landed, late>>

\* Close and Chmod.
Finish(p) ==
    /\ At(p, "limit")
    /\ ~OverCap(temp[p].size)
    /\ \/ /\ CleanUp(p)
          /\ Decide(p, "download_failed", "error")
       \/ /\ Goto(p, "rename")
          /\ UNCHANGED <<tempVars, result>>
    /\ UNCHANGED <<dir, callVars, log, logFailed, landed, late>>

\* os.Rename replaces whatever has the name by now.
Rename(p) ==
    /\ At(p, "rename")
    /\ dir' = [dir EXCEPT ![target[p]] = temp[p]]
    /\ temp' = [temp EXCEPT ![p] = NoTemp]
    /\ landed' = [landed EXCEPT ![p] = TRUE]
    /\ Decide(p, "ok", "ok")
    /\ Created(target[p])
    /\ UNCHANGED <<excuse, callVars, log, logFailed>>

\* Mutant: the error of the rename is ignored.
RenameError_Ignored(p) == Decide(p, "ok", "ok")

RenameError(p) == Decide(p, "download_failed", "error")

RenameFailed(p) ==
    /\ At(p, "rename")
    /\ CleanUp(p)
    /\ RenameError(p)
    /\ UNCHANGED <<dir, callVars, log, logFailed, landed, late>>

-----------------------------------------------------------------------------
\* AuditLog.Append: a failure of it is reported to nobody but stderr.
Audit(p) ==
    /\ At(p, "audit")
    /\ \/ /\ log' = [log EXCEPT ![p] = Append(@, result[p].record)]
          /\ UNCHANGED logFailed
       \/ /\ logFailed' = [logFailed EXCEPT ![p] = TRUE]
          /\ UNCHANGED log
    /\ Goto(p, "reply")
    /\ UNCHANGED <<dir, tempVars, callVars, result, landed, late>>

\* Nothing of a call outlives it.
Forget(p) ==
    /\ Goto(p, "idle")
    /\ declared' = [declared EXCEPT ![p] = 0]
    /\ served' = [served EXCEPT ![p] = 0]
    /\ result' = [result EXCEPT ![p] = Result("ok", "none")]
    /\ log' = [log EXCEPT ![p] = <<>>]
    /\ logFailed' = [logFailed EXCEPT ![p] = FALSE]
    /\ landed' = [landed EXCEPT ![p] = FALSE]
    /\ late' = [late EXCEPT ![p] = FALSE]
    /\ UNCHANGED target

Reply(p) ==
    /\ At(p, "reply")
    /\ Forget(p)
    /\ UNCHANGED <<dir, tempVars>>

\* The process dies and is started anew: a temporary file it was writing stays
\* in the directory, under a name nobody asks for.
Crash(p) ==
    /\ ~At(p, "idle")
    /\ Forget(p)
    /\ excuse' = [excuse EXCEPT ![p] = IF pc[p] \in Transferring THEN "died" ELSE @]
    /\ UNCHANGED <<dir, temp>>

UserCreates(n) ==
    /\ ~Exists(n)
    /\ dir' = [dir EXCEPT ![n] = UserFile]
    /\ Created(n)
    /\ UNCHANGED <<tempVars, pc, callVars, result, log, logFailed, landed>>

UserRemoves(n) ==
    /\ Exists(n)
    /\ dir' = [dir EXCEPT ![n] = NoFile]
    /\ UNCHANGED <<tempVars, pc, callVars, result, log, logFailed, landed, late>>

Step(p) ==
    \/ Call(p) \/ WorkDir(p) \/ Info(p) \/ Precheck(p) \/ Resolve(p)
    \/ Get(p) \/ Copy(p) \/ CopyFailed(p) \/ TooLarge(p) \/ Finish(p)
    \/ Rename(p) \/ RenameFailed(p)
    \/ Audit(p) \/ Reply(p)

Next ==
    \/ \E p \in Proxies : Step(p) \/ Crash(p)
    \/ \E n \in UserNames : UserCreates(n)
    \/ \E n \in Names : UserRemoves(n)

Spec == Init /\ [][Next]_vars

-----------------------------------------------------------------------------
(* Properties *)

TypeOK ==
    /\ dir \in [Names -> Files]
    /\ temp \in [Proxies -> Files]
    /\ excuse \in [Proxies -> {"none", "unremoved", "died"}]
    /\ pc \in [Proxies -> {"idle", "workdir", "info", "precheck", "resolve",
                           "fetch", "copy", "limit", "rename", "audit",
                           "reply"}]
    /\ target \in [Proxies -> Names]
    /\ declared \in [Proxies -> Sizes] /\ served \in [Proxies -> Sizes]
    /\ result \in [Proxies -> Results]
    /\ log \in [Proxies -> Seq(Outcomes)]
    /\ logFailed \in [Proxies -> BOOLEAN]
    /\ landed \in [Proxies -> BOOLEAN] /\ late \in [Proxies -> BOOLEAN]

\* A name of the directory never shows a truncated download, nor one beyond
\* the cap, whatever files.info told, whenever a process dies, and whoever
\* else writes there.
WholeOrAbsent ==
    \A n \in Names : dir[n].by \in Proxies =>
        dir[n].whole /\ ~OverCap(dir[n].size)

\* A temporary file outlives the transfer it was made for only where os.Remove
\* itself failed or the process died in the transfer: none of the ways out of
\* FetchTo forgets it, and a download that is told to have succeeded leaves none.
\* (download.go:63, "On any failure no partial file remains", promises more than
\* a Remove whose error is ignored can keep.)
NoPartialRemains ==
    \A p \in Proxies : temp[p] # NoTemp =>
        /\ pc[p] \in Transferring \/ excuse[p] # "none"
        /\ pc[p] \in {"audit", "reply"} => result[p].record # "ok"

\* The log and the disk agree: a call that was logged is logged once, and as
\* "ok" exactly when it did put its file in place.
LogTellsTheTruth ==
    \A p \in Proxies : At(p, "reply") =>
        \/ log[p] = <<>> /\ (landed[p] => logFailed[p])
        \/ /\ Len(log[p]) = 1
           /\ log[p][1] = "ok" <=> landed[p]

\* A call that got as far as asking Slack for the file is logged on every way
\* out of handleDownload, unless the log cannot be written.
AttemptsAreLogged ==
    \A p \in Proxies :
        (At(p, "reply") /\ result[p].reply \notin
             {"invalid_arguments", "work_dir_denied"}) =>
            logFailed[p] \/ log[p] # <<>>

\* tools.go:135, "Never overwrites an existing file": not one that was there when
\* the call looked.  One that somebody, or a second proxy, created in the course
\* of the transfer is replaced.
ReplacesOnlyLatecomers ==
    [][\A p \in Proxies :
          (~landed[p] /\ landed'[p] /\ Exists(target[p])) => late[p]]_vars
=============================================================================
