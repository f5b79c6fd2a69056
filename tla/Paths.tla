-------------------------------- MODULE Paths --------------------------------
(***************************************************************************)
(* May this call read that file, or write into that directory?  One call's *)
(* way through policyFor (internal/proxy/tools.go), the work directory     *)
(* (internal/workdir) and the containment policy (internal/containment),   *)
(* while whoever else uses the disk creates, removes and replaces files,   *)
(* directories and links between any two looks at it.                      *)
(*                                                                         *)
(* Abstractions.  A place is a path without links; leads[p] is where one   *)
(* leads that has become a link, p itself if it is none.  pathguard        *)
(* (external) judges by name, which makes its lists sets of places, and by *)
(* file identity, which makes a hard link to a credential a kind of file.  *)
(* One judgement is one look at the disk.  A path argument is the place it *)
(* spells; an absolute and a relative spelling are not told apart.         *)
(* The work directory is absolute and the only root, so that the refusals  *)
(* no_allowed_roots and not_absolute are never given.                      *)
(***************************************************************************)
EXTENDS Naturals

CONSTANTS Places,
          Below,       \* Below[p]: the places strictly below p
          Credential,  \* credential and agent-control places, the server's own
          DeniedDir,   \* system directories, home, and what lies directly in them
          Hidden,      \* places whose own name begins with a dot
          NoPlace,     \* no argument
          WorkDirs,    \* what a call may name as its work directory
          MaxChanges   \* bound: changes of the disk during the call

ASSUME PathsAssumption ==
    /\ Below \in [Places -> SUBSET Places]
    /\ Credential \subseteq Places /\ DeniedDir \subseteq Places
    /\ Hidden \subseteq Places
    /\ NoPlace \notin Places
    /\ WorkDirs \subseteq Places
    /\ MaxChanges \in Nat

\* "big" is beyond max_file_size, "secret" a hard link to a credential file; a
\* directory may have a file with the name a download wants ("taken"), and that
\* may be a hard link to a credential file ("baited").  KindsFor has those that
\* the two calls tell apart.
Directories == {"dir", "taken", "baited"}
Kinds == {"absent", "file", "big", "secret"} \cup Directories
KindsFor == [upload   |-> Kinds \ {"taken", "baited"},
             download |-> Kinds \ {"big", "secret"}]

\* The filename of a download: "dotted" begins with a dot, "secret" is the name of
\* a credential or agent-control file wherever it is, "bad" is no usable name.
Bases == {"plain", "dotted", "secret", "bad"}

VARIABLES
    leads, kind, changes,            \* the disk
    op, workArg, hint, raw, base,    \* the call: upload or download, work_dir,
                                     \* its hint, the path, the filename
    allowHidden,                     \* the operator's setting
    pc,
    root,                            \* the policy's only root
    where,                           \* where the path is, or would be
    canonical,                       \* where it was found
    answer                           \* the reason, and the place it names

disk == <<leads, kind, changes>>
call == <<op, workArg, hint, raw, base, allowHidden>>
vars == <<disk, call, pc, root, where, canonical, answer>>

\* Where a path ends, every link on it followed.  (The disk has no loops.)
Follow(p) == leads[leads[p]]

None == [reason |-> "none", path |-> NoPlace]

Init ==
    /\ op \in {"upload", "download"}
    /\ raw \in Places
    /\ \E q \in Places, k \in KindsFor[op] :
          /\ leads = [[p \in Places |-> p] EXCEPT ![raw] = q]
          /\ kind = [[p \in Places |-> IF op = "upload" /\ Below[p] = {}
                                           THEN "file" ELSE "dir"]
                         EXCEPT ![q] = k]
    /\ changes = 0
    /\ workArg \in WorkDirs \cup {NoPlace} /\ hint \in WorkDirs \cup {NoPlace}
    /\ workArg = NoPlace \/ hint = NoPlace \/ workArg # hint
    /\ base \in Bases
    /\ op = "upload" => base = "plain"
    /\ allowHidden \in BOOLEAN
    /\ pc = "workdir"
    /\ root = NoPlace /\ where = NoPlace /\ canonical = NoPlace
    /\ answer = None

Goto(label) == pc' = label

Says(reason, p) ==
    /\ Goto("done")
    /\ answer' = [reason |-> reason, path |-> p]

Proceeds(label) == Goto(label) /\ UNCHANGED answer

-----------------------------------------------------------------------------
(* The work directory *)

\* The argument, else the hint of the runtime, else nothing.
Named == IF workArg # NoPlace THEN workArg ELSE hint

\* workdir.Resolve.
ResolveWorkDir ==
    /\ pc = "workdir"
    /\ \/ /\ Named = NoPlace
          /\ Says("work_dir_required", NoPlace)
          /\ UNCHANGED root
       \/ /\ Named # NoPlace
          /\ root' = Follow(Named)
          /\ \/ /\ root' \in Credential \cup DeniedDir
                /\ Says("work_dir_denied", root')
             \/ /\ root' \notin Credential \cup DeniedDir
                /\ kind[root'] \notin Directories
                /\ Says("work_dir_not_found", Named)
             \/ /\ root' \notin Credential \cup DeniedDir
                /\ kind[root'] \in Directories
                /\ Proceeds("policy")
    /\ UNCHANGED <<disk, call, where, canonical>>

\* NewPolicy looks for it once more.
NewPolicy ==
    /\ pc = "policy"
    /\ root' = Follow(root)
    /\ \/ /\ kind[root'] \in Directories
          /\ Proceeds("place")
       \/ /\ kind[root'] \notin Directories
          /\ Says("internal_error", root)
    /\ UNCHANGED <<disk, call, where, canonical>>

-----------------------------------------------------------------------------
(* Resolve and ResolveNewFile *)

\* The path as named or as placed, and the name a download wants, are on the list.
Listed(p) == raw \in Credential \/ p \in Credential \/ base = "secret"

\* What is there, or the file that has the new name, is a credential file.
Planted(p) == kind[Follow(p)] = IF op = "upload" THEN "secret" ELSE "baited"

\* matchRoot: a destination may be the root itself, a file may not.
Contained(p) == p \in Below[root] \/ (op = "download" /\ p = root)

\* Stages 2 and 3, in their order, for a place where nothing is.  ("denied_dir"
\* is sensitive_path, with the floor reason of DirDenied.)
Missing(p) ==
    IF Listed(p) THEN "sensitive_path"
    ELSE IF ~Contained(p) THEN "outside_allowed_roots"
    ELSE IF p \in DeniedDir THEN "denied_dir"
    ELSE "ok"

\* UploadDenied, DownloadDenied look at what is there too.
Judgement(p) ==
    IF Planted(raw) \/ Planted(p) THEN "sensitive_path" ELSE Missing(p)

\* Mutant: what does not exist is refused first.
AskedFirst_Exists(p) == IF kind[p] = "absent" THEN "not_found" ELSE "ok"

\* What is asked of a place before it is judged: nothing.
AskedFirst(p) == "ok"

\* Stage 1.
Place ==
    /\ pc = "place"
    /\ where' = Follow(raw)
    /\ \/ /\ base = "bad"
          /\ Says("bad_filename", NoPlace)
       \/ /\ base # "bad" /\ AskedFirst(where') # "ok"
          /\ Says(AskedFirst(where'), where')
       \/ /\ base # "bad" /\ AskedFirst(where') = "ok"
          /\ Proceeds("judge")
    /\ UNCHANGED <<disk, call, root, canonical>>

Judged(p, next) ==
    \/ /\ Judgement(p) # "ok"
       /\ Says(Judgement(p), p)
    \/ /\ Judgement(p) = "ok"
       /\ Proceeds(next)

Judge ==
    /\ pc = "judge"
    /\ Judged(where, "find")
    /\ UNCHANGED <<disk, call, root, where, canonical>>

\* Mutant: the place is judged once.
Elsewhere_Never(p) == FALSE

Elsewhere(p) == p # where

\* EvalSymlinks of the place: if it leads elsewhere by now, that is judged.
Find ==
    /\ pc = "find"
    /\ canonical' = Follow(where)
    /\ \/ /\ kind[canonical'] = "absent"
          /\ Says("not_found", raw)
       \/ /\ kind[canonical'] # "absent"
          /\ Proceeds(IF Elsewhere(canonical') THEN "rejudge" ELSE "stat")
    /\ UNCHANGED <<disk, call, root, where>>

Rejudge ==
    /\ pc = "rejudge"
    /\ Judged(canonical, "stat")
    /\ UNCHANGED <<disk, call, root, where, canonical>>

\* Mutant: the hidden rule is applied to the place that was judged first.
HiddenAt_Placed == where

HiddenAt == canonical

\* A dot component below the root, which may itself lie under one.
HasDot(p) == \E q \in Hidden \cap Below[root] : p = q \/ p \in Below[q]

\* Stage 5: no dot component below the root, for a new file its own name too.
IsHidden == /\ ~allowHidden
            /\ \/ HasDot(HiddenAt)
               \/ op = "download" /\ base = "dotted"

\* Stage 4 to 6 of an upload; os.Stat follows links once more.
StatFile ==
    /\ pc = "stat" /\ op = "upload"
    /\ LET found == kind[Follow(canonical)] IN
       \/ /\ found = "absent"
          /\ Says("not_found", canonical)
       \/ /\ found \in Directories
          /\ Says("not_regular_file", canonical)
       \/ /\ found \in {"file", "big", "secret"} /\ IsHidden
          /\ Says("hidden_component", canonical)
       \/ /\ found = "big" /\ ~IsHidden
          /\ Says("too_large", canonical)
       \/ /\ found \in {"file", "secret"} /\ ~IsHidden
          /\ Says("ok", canonical)
    /\ UNCHANGED <<disk, call, root, where, canonical>>

\* Whether the new name is taken (how that races with the transfer is in Download).
StatDir ==
    /\ pc = "stat" /\ op = "download"
    /\ LET found == kind[Follow(canonical)] IN
       \/ /\ found \notin Directories
          /\ Says("not_found", canonical)
       \/ /\ found \in Directories /\ IsHidden
          /\ Says("hidden_component", canonical)
       \/ /\ found \in Directories \ {"dir"} /\ ~IsHidden
          /\ Says("already_exists", canonical)
       \/ /\ found = "dir" /\ ~IsHidden
          /\ Says("ok", canonical)
    /\ UNCHANGED <<disk, call, root, where, canonical>>

-----------------------------------------------------------------------------
(* Whoever else uses the disk *)

Changes ==
    /\ pc # "done" /\ changes < MaxChanges
    /\ changes' = changes + 1
    /\ UNCHANGED <<call, pc, root, where, canonical, answer>>

Relinks(p, q) ==
    /\ Changes
    /\ q # p /\ Follow(q) # p /\ leads[q] = q
    /\ \A r \in Places : leads[r] = p => r = p   \* chains of two links at most
    /\ leads' = [leads EXCEPT ![p] = q]
    /\ UNCHANGED kind

Replaces(p, k) ==
    /\ Changes
    /\ k \in KindsFor[op]
    /\ kind' = [kind EXCEPT ![p] = k]
    /\ leads' = [leads EXCEPT ![p] = p]

Terminated == pc = "done" /\ UNCHANGED vars

Next ==
    \/ ResolveWorkDir \/ NewPolicy \/ Place \/ Judge \/ Find \/ Rejudge
    \/ StatFile \/ StatDir
    \/ \E p, q \in Places : Relinks(p, q)
    \/ \E p \in Places, k \in Kinds : Replaces(p, k)
    \/ Terminated

Spec == Init /\ [][Next]_vars

-----------------------------------------------------------------------------
(* Properties *)

\* Types, and: a call is answered when it is over.
TypeOK ==
    /\ leads \in [Places -> Places] /\ kind \in [Places -> Kinds]
    /\ changes \in 0..MaxChanges
    /\ op \in {"upload", "download"} /\ raw \in Places
    /\ workArg \in Places \cup {NoPlace} /\ hint \in Places \cup {NoPlace}
    /\ base \in Bases /\ allowHidden \in BOOLEAN
    /\ pc \in {"workdir", "policy", "place", "judge", "find", "rejudge", "stat",
              "done"}
    /\ root \in Places \cup {NoPlace} /\ where \in Places \cup {NoPlace}
    /\ canonical \in Places \cup {NoPlace}
    /\ answer \in [reason : {"none", "work_dir_required", "work_dir_denied",
                             "work_dir_not_found", "internal_error", "bad_filename",
                             "sensitive_path", "outside_allowed_roots", "denied_dir",
                             "not_found", "not_regular_file", "hidden_component",
                             "too_large", "already_exists", "ok"},
                   path : Places \cup {NoPlace}]
    /\ pc = "done" <=> answer # None

\* containment.go:11: the place that is accepted is the place that was judged,
\* by all rules and under the call's own root, whatever changed on the disk
\* between the first look and the last.  A hard link to a credential is seen if
\* it is there from the beginning.
AcceptedWhereItIs ==
    answer.reason = "ok" =>
        /\ answer.path \notin Credential \cup DeniedDir
        /\ raw \notin Credential /\ base \notin {"secret", "bad"}
        /\ answer.path \in Below[root] \/ (op = "download" /\ answer.path = root)
        /\ changes = 0 => ~Planted(raw)

\* containment.go:16, "an existing path and a missing one get the same answer,
\* message and details included": a place that may not be used is refused as if
\* nothing were there.  README.md:76 has the one exception: a hard link to a
\* credential file is refused as one, where a missing path may be outside.
RefusalHidesExistence ==
    (pc = "done" /\ where # NoPlace /\ base # "bad" /\ Missing(where) # "ok") =>
        /\ answer.path = where
        /\ \/ answer.reason = Missing(where)
           \/ answer.reason = "sensitive_path" /\ (Planted(raw) \/ Planted(where))

\* The hidden rule holds of the place that is used, and of a new file's name,
\* unless the operator has lifted it.
NothingHiddenAccepted ==
    (answer.reason = "ok" /\ ~allowHidden) =>
        /\ ~HasDot(answer.path)
        /\ op = "download" => base = "plain"
=============================================================================
