--------------------------- MODULE DownloadProofs ---------------------------
(***************************************************************************)
(* Theorems about Download, for every set of proxies and names, every cap  *)
(* and every size of a file.                                               *)
(***************************************************************************)
EXTENDS Download, TLAPS

Labels == {"idle", "workdir", "info", "precheck", "resolve", "fetch", "copy",
           "limit", "rename", "audit", "reply"}
RepliesOf == {"ok", "invalid_arguments", "work_dir_denied", "file_too_large",
              "path_denied", "download_failed"}
Transfer == {"fetch", "copy", "limit", "rename"}
Decided  == {"audit", "reply"}
Excuses  == {"none", "unremoved", "died"}

\* The temporary file of a proxy, from where its call is: whole before it is
\* renamed, and gone once the call is decided, or there is an excuse.
TempInv ==
    /\ \A p \in Proxies :
          /\ temp[p] # NoTemp => pc[p] \in Transferring \/ excuse[p] # "none"
          /\ pc[p] \in Decided /\ result[p].record = "ok" => temp[p] = NoTemp
          /\ pc[p] = "limit" /\ ~OverCap(temp[p].size) => temp[p].whole
          /\ pc[p] = "rename" => temp[p].whole /\ ~OverCap(temp[p].size)
    /\ WholeOrAbsent

\* What is known of the result of a call and of its record.
RecordInv ==
    \A p \in Proxies :
        /\ pc[p] \notin Decided => ~landed[p]
        /\ pc[p] # "reply" => log[p] = <<>>
        /\ pc[p] \in Decided =>
              /\ landed[p] <=> result[p].record = "ok"
              /\ result[p].record = "none" <=>
                    result[p].reply \in {"invalid_arguments", "work_dir_denied"}
        /\ pc[p] = "audit" => result[p].record # "none"
        /\ pc[p] = "reply" =>
              \/ log[p] = <<>> /\ (result[p].record # "none" => logFailed[p])
              \/ log[p] = <<result[p].record>> /\ result[p].record # "none"

\* A target that is taken during the transfer was taken after the look.
LateInv ==
    \A p \in Proxies : pc[p] \in Transfer /\ Exists(target[p]) => late[p]

DownloadInv == TypeOK /\ TempInv /\ RecordInv /\ LateInv

-----------------------------------------------------------------------------
LEMMA NoFileType == NoFile \in Files
BY DownloadAssumption DEF NoFile, Files, Sizes

LEMMA UserFileType == UserFile \in Files /\ UserFile.by \notin Proxies
BY DownloadAssumption DEF UserFile, Files, Sizes

LEMMA NoFileIsNoProxys == NoFile.by \notin Proxies
BY DownloadAssumption DEF NoFile

LEMMA FirstResultType == Result("ok", "none") \in Results
BY DEF Result, Results

\* What is copied is a size, at most one beyond the cap, and all of it if not.
LEMMA CopiedBounds ==
    ASSUME NEW s \in Sizes
    PROVE  /\ Copied(s) \in Sizes
           /\ ~OverCap(Copied(s)) => Copied(s) = s
BY DownloadAssumption DEF Copied, OverCap, Sizes

LEMMA UpdateType ==
    ASSUME NEW D, NEW S, NEW f \in [D -> S], NEW x \in D, NEW e \in S
    PROVE  [f EXCEPT ![x] = e] \in [D -> S]
OBVIOUS

LEMMA GotoEffect ==
    ASSUME TypeOK, NEW p \in Proxies, NEW label \in Labels, Goto(p, label)
    PROVE  /\ pc' \in [Proxies -> Labels]
           /\ pc'[p] = label
           /\ \A q \in Proxies \ {p} : pc'[q] = pc[q]
BY DEF Goto, TypeOK, Labels

LEMMA DecideEffect ==
    ASSUME TypeOK, NEW p \in Proxies, NEW reply \in RepliesOf,
           NEW record \in Outcomes \cup {"none"}, Decide(p, reply, record)
    PROVE  /\ result' \in [Proxies -> Results]
           /\ result'[p].reply = reply /\ result'[p].record = record
           /\ pc' \in [Proxies -> Labels]
           /\ pc'[p] = IF record = "none" THEN "reply" ELSE "audit"
           /\ \A q \in Proxies \ {p} : result'[q] = result[q] /\ pc'[q] = pc[q]
<1>1. Result(reply, record) \in Results
  BY DEF Result, Results, RepliesOf
<1>2. result' = [result EXCEPT ![p] = Result(reply, record)]
  BY DEF Decide
<1>3. result' \in [Proxies -> Results]
  BY <1>1, <1>2 DEF TypeOK
<1>4. /\ result'[p] = Result(reply, record)
      /\ \A q \in Proxies \ {p} : result'[q] = result[q]
  BY <1>2 DEF TypeOK
<1>5. Goto(p, IF record = "none" THEN "reply" ELSE "audit")
  BY DEF Decide
<1>6. (IF record = "none" THEN "reply" ELSE "audit") \in Labels
  BY DEF Labels
<1>7. /\ pc' \in [Proxies -> Labels]
      /\ pc'[p] = IF record = "none" THEN "reply" ELSE "audit"
      /\ \A q \in Proxies \ {p} : pc'[q] = pc[q]
  BY <1>5, <1>6, GotoEffect
<1> QED
  BY <1>3, <1>4, <1>7 DEF Result

LEMMA ForgetEffect ==
    ASSUME TypeOK, NEW p \in Proxies, Forget(p)
    PROVE  /\ result' \in [Proxies -> Results] /\ pc' \in [Proxies -> Labels]
           /\ declared' \in [Proxies -> Sizes] /\ served' \in [Proxies -> Sizes]
           /\ log' \in [Proxies -> Seq(Outcomes)]
           /\ logFailed' \in [Proxies -> BOOLEAN]
           /\ landed' \in [Proxies -> BOOLEAN] /\ late' \in [Proxies -> BOOLEAN]
<1>1. result' \in [Proxies -> Results]
  BY FirstResultType DEF Forget, TypeOK
<1>2. pc' \in [Proxies -> Labels]
  BY GotoEffect DEF Forget, Labels
<1>3. 0 \in Sizes
  BY DownloadAssumption DEF Sizes
<1>4. declared' \in [Proxies -> Sizes] /\ served' \in [Proxies -> Sizes]
  BY <1>3 DEF Forget, TypeOK
<1>5. log' \in [Proxies -> Seq(Outcomes)]
  <2>1. <<>> \in Seq(Outcomes)
    OBVIOUS
  <2> QED
    BY <2>1 DEF Forget, TypeOK
<1>6. /\ logFailed' \in [Proxies -> BOOLEAN]
      /\ landed' \in [Proxies -> BOOLEAN] /\ late' \in [Proxies -> BOOLEAN]
  BY DEF Forget, TypeOK
<1> QED
  BY <1>1, <1>2, <1>4, <1>5, <1>6

LEMMA CleanUpType ==
    ASSUME TypeOK, NEW p \in Proxies, CleanUp(p)
    PROVE  temp' \in [Proxies -> Files] /\ excuse' \in [Proxies -> Excuses]
<1>1. CASE temp' = [temp EXCEPT ![p] = NoTemp] /\ UNCHANGED excuse
  BY <1>1, NoFileType DEF TypeOK, NoTemp, Excuses
<1>2. CASE excuse' = [excuse EXCEPT ![p] = "unremoved"] /\ UNCHANGED temp
  BY <1>2 DEF TypeOK, Excuses
<1> QED
  BY <1>1, <1>2 DEF CleanUp

\* A step of one proxy that settles where its own temporary file is.
LEMMA TempFrame ==
    ASSUME TempInv, NEW p \in Proxies, WholeOrAbsent',
           \A q \in Proxies \ {p} :
              /\ temp'[q] = temp[q] /\ excuse'[q] = excuse[q]
              /\ pc'[q] = pc[q] /\ result'[q] = result[q],
           temp'[p] # NoTemp => pc'[p] \in Transferring \/ excuse'[p] # "none",
           pc'[p] \in Decided /\ result'[p].record = "ok" => temp'[p] = NoTemp,
           pc'[p] = "limit" /\ ~OverCap(temp'[p].size) => temp'[p].whole,
           pc'[p] = "rename" => temp'[p].whole /\ ~OverCap(temp'[p].size)
    PROVE  TempInv'
BY DEF TempInv

\* A step before the transfer or after it.
LEMMA TempQuiet ==
    ASSUME TempInv, NEW p \in Proxies, UNCHANGED <<dir, temp, excuse>>,
           \A q \in Proxies \ {p} : pc'[q] = pc[q] /\ result'[q] = result[q],
           pc[p] \notin Transferring, pc'[p] \notin Transferring,
           pc'[p] \in Decided =>
              \/ result'[p].record # "ok"
              \/ pc[p] \in Decided /\ result'[p] = result[p]
    PROVE  TempInv'
<1>1. WholeOrAbsent'
  BY DEF TempInv, WholeOrAbsent
<1>2. /\ temp[p] # NoTemp => excuse[p] # "none"
      /\ pc[p] \in Decided /\ result[p].record = "ok" => temp[p] = NoTemp
  BY DEF TempInv
<1>3. pc'[p] \notin {"limit", "rename"}
  BY DEF Transferring
<1>4. /\ temp'[p] # NoTemp => pc'[p] \in Transferring \/ excuse'[p] # "none"
      /\ pc'[p] \in Decided /\ result'[p].record = "ok" => temp'[p] = NoTemp
  BY <1>2
<1> QED
  BY <1>1, <1>3, <1>4, TempFrame

\* A transfer that fails: the file is removed, or the failure of that excuses it.
LEMMA TempCleaned ==
    ASSUME TypeOK, TempInv, NEW p \in Proxies, UNCHANGED dir, CleanUp(p),
           \A q \in Proxies \ {p} : pc'[q] = pc[q] /\ result'[q] = result[q],
           pc'[p] = "audit", result'[p].record # "ok"
    PROVE  TempInv'
<1>1. WholeOrAbsent'
  BY DEF TempInv, WholeOrAbsent
<1>2. /\ temp'[p] = NoTemp \/ excuse'[p] = "unremoved"
      /\ \A q \in Proxies \ {p} : temp'[q] = temp[q] /\ excuse'[q] = excuse[q]
  BY DEF CleanUp, TypeOK
<1> QED
  BY <1>1, <1>2, TempFrame

LEMMA InitInv == Init => DownloadInv
<1> SUFFICES ASSUME Init PROVE DownloadInv
  OBVIOUS
<1> USE DownloadAssumption DEF Init
<1>1. TypeOK
  <2>1. dir \in [Names -> Files] /\ temp \in [Proxies -> Files]
    BY NoFileType, UserFileType DEF NoTemp
  <2>2. result \in [Proxies -> Results]
    BY FirstResultType
  <2>3. log \in [Proxies -> Seq(Outcomes)]
    OBVIOUS
  <2>4. declared \in [Proxies -> Sizes] /\ served \in [Proxies -> Sizes]
    BY DEF Sizes
  <2> QED
    BY <2>1, <2>2, <2>3, <2>4 DEF TypeOK
<1>2. TempInv
  BY NoFileIsNoProxys, UserFileType DEF TempInv, WholeOrAbsent, NoTemp
<1>3. RecordInv
  BY DEF RecordInv, Decided
<1>4. LateInv
  BY DEF LateInv, Transfer
<1> QED
  BY <1>1, <1>2, <1>3, <1>4 DEF DownloadInv

\* Each step of one proxy p, or of the user, preserves every part.
LEMMA StepInv == DownloadInv /\ [Next]_vars => DownloadInv'
<1> SUFFICES ASSUME DownloadInv, [Next]_vars PROVE DownloadInv'
  OBVIOUS
<1> USE DownloadAssumption DEF DownloadInv, tempVars, Transferring, Excuses
<1>1. ASSUME NEW p \in Proxies, Call(p) PROVE DownloadInv'
  <2>1. TypeOK'
    <3>1. result' \in [Proxies -> Results] /\ pc' \in [Proxies -> Labels]
      BY <1>1, DecideEffect, GotoEffect DEF Call, At, TypeOK, Labels,
         RepliesOf, Outcomes
    <3>2. /\ dir' \in [Names -> Files] /\ temp' \in [Proxies -> Files]
          /\ excuse' \in [Proxies -> Excuses]
      BY <1>1, NoFileType DEF Call, At, TypeOK, NoTemp
    <3>3. /\ target' \in [Proxies -> Names]
          /\ declared' \in [Proxies -> Sizes] /\ served' \in [Proxies -> Sizes]
      BY <1>1 DEF Call, At, TypeOK, callVars
    <3>4. /\ log' \in [Proxies -> Seq(Outcomes)]
          /\ logFailed' \in [Proxies -> BOOLEAN]
          /\ landed' \in [Proxies -> BOOLEAN] /\ late' \in [Proxies -> BOOLEAN]
      BY <1>1 DEF Call, At, TypeOK
    <3> QED
      BY <3>1, <3>2, <3>3, <3>4 DEF TypeOK, Labels
  <2>2. TempInv'
    <3>1. \A q \in Proxies \ {p} : result'[q] = result[q] /\ pc'[q] = pc[q]
      BY <1>1, DecideEffect, GotoEffect DEF Call, At, TypeOK, Labels,
         RepliesOf, Outcomes
    <3>2. UNCHANGED <<dir, temp, excuse>> /\ pc[p] \notin Transferring
      BY <1>1 DEF Call, At
    <3>3. /\ pc'[p] \notin Transferring
          /\ pc'[p] \in Decided => result'[p].record # "ok"
      BY <1>1, DecideEffect, GotoEffect DEF Call, At, TypeOK, Labels,
         RepliesOf, Outcomes, Decided
    <3> QED
      BY <3>1, <3>2, <3>3, TempQuiet
  <2>3. RecordInv'
    <3>1. \A q \in Proxies \ {p} : result'[q] = result[q] /\ pc'[q] = pc[q]
      BY <1>1, DecideEffect, GotoEffect DEF Call, At, TypeOK, Labels,
         RepliesOf, Outcomes
    <3>2. /\ log' = log /\ logFailed' = logFailed /\ landed' = landed
          /\ ~landed[p] /\ log[p] = <<>>
      BY <1>1 DEF Call, At, RecordInv, Decided
    <3>3. \/ pc'[p] \notin Decided
          \/ /\ pc'[p] = IF result'[p].record = "none" THEN "reply" ELSE "audit"
             /\ result'[p].record # "ok"
             /\ result'[p].record = "none" <=>
                   result'[p].reply \in {"invalid_arguments", "work_dir_denied"}
      BY <1>1, DecideEffect, GotoEffect DEF Call, At, TypeOK, Labels,
         RepliesOf, Outcomes, Decided
    <3> QED
      BY <3>1, <3>2, <3>3 DEF RecordInv, Decided
  <2>4. LateInv'
    BY <1>1 DEF Call, Decide, Goto, At, TypeOK, LateInv, Transfer, Exists,
       callVars
  <2> QED
    BY <2>1, <2>2, <2>3, <2>4
<1>2. ASSUME NEW p \in Proxies, WorkDir(p) PROVE DownloadInv'
  <2>1. TypeOK'
    <3>1. result' \in [Proxies -> Results] /\ pc' \in [Proxies -> Labels]
      BY <1>2, DecideEffect, GotoEffect DEF WorkDir, At, TypeOK, Labels,
         RepliesOf, Outcomes
    <3>2. /\ dir' \in [Names -> Files] /\ temp' \in [Proxies -> Files]
          /\ excuse' \in [Proxies -> Excuses]
      BY <1>2, NoFileType DEF WorkDir, At, TypeOK, NoTemp
    <3>3. /\ target' \in [Proxies -> Names]
          /\ declared' \in [Proxies -> Sizes] /\ served' \in [Proxies -> Sizes]
      BY <1>2 DEF WorkDir, At, TypeOK, callVars
    <3>4. /\ log' \in [Proxies -> Seq(Outcomes)]
          /\ logFailed' \in [Proxies -> BOOLEAN]
          /\ landed' \in [Proxies -> BOOLEAN] /\ late' \in [Proxies -> BOOLEAN]
      BY <1>2 DEF WorkDir, At, TypeOK
    <3> QED
      BY <3>1, <3>2, <3>3, <3>4 DEF TypeOK, Labels
  <2>2. TempInv'
    <3>1. \A q \in Proxies \ {p} : result'[q] = result[q] /\ pc'[q] = pc[q]
      BY <1>2, DecideEffect, GotoEffect DEF WorkDir, At, TypeOK, Labels,
         RepliesOf, Outcomes
    <3>2. UNCHANGED <<dir, temp, excuse>> /\ pc[p] \notin Transferring
      BY <1>2 DEF WorkDir, At
    <3>3. /\ pc'[p] \notin Transferring
          /\ pc'[p] \in Decided => result'[p].record # "ok"
      BY <1>2, DecideEffect, GotoEffect DEF WorkDir, At, TypeOK, Labels,
         RepliesOf, Outcomes, Decided
    <3> QED
      BY <3>1, <3>2, <3>3, TempQuiet
  <2>3. RecordInv'
    <3>1. \A q \in Proxies \ {p} : result'[q] = result[q] /\ pc'[q] = pc[q]
      BY <1>2, DecideEffect, GotoEffect DEF WorkDir, At, TypeOK, Labels,
         RepliesOf, Outcomes
    <3>2. /\ log' = log /\ logFailed' = logFailed /\ landed' = landed
          /\ ~landed[p] /\ log[p] = <<>>
      BY <1>2 DEF WorkDir, At, RecordInv, Decided
    <3>3. \/ pc'[p] \notin Decided
          \/ /\ pc'[p] = IF result'[p].record = "none" THEN "reply" ELSE "audit"
             /\ result'[p].record # "ok"
             /\ result'[p].record = "none" <=>
                   result'[p].reply \in {"invalid_arguments", "work_dir_denied"}
      BY <1>2, DecideEffect, GotoEffect DEF WorkDir, At, TypeOK, Labels,
         RepliesOf, Outcomes, Decided
    <3> QED
      BY <3>1, <3>2, <3>3 DEF RecordInv, Decided
  <2>4. LateInv'
    BY <1>2 DEF WorkDir, Decide, Goto, At, TypeOK, LateInv, Transfer,
       Exists, callVars
  <2> QED
    BY <2>1, <2>2, <2>3, <2>4
<1>3. ASSUME NEW p \in Proxies, Info(p) PROVE DownloadInv'
  <2>1. TypeOK'
    <3>1. result' \in [Proxies -> Results] /\ pc' \in [Proxies -> Labels]
      BY <1>3, DecideEffect, GotoEffect DEF Info, At, TypeOK, Labels,
         RepliesOf, Outcomes
    <3>2. /\ dir' \in [Names -> Files] /\ temp' \in [Proxies -> Files]
          /\ excuse' \in [Proxies -> Excuses]
      BY <1>3, NoFileType DEF Info, At, TypeOK, NoTemp
    <3>3. /\ target' \in [Proxies -> Names]
          /\ declared' \in [Proxies -> Sizes] /\ served' \in [Proxies -> Sizes]
      <4>1. CASE UNCHANGED callVars
        BY <4>1 DEF TypeOK, callVars
      <4>2. CASE /\ \E d, s \in Sizes : /\ declared' = [declared EXCEPT ![p] = d]
                                       /\ served' = [served EXCEPT ![p] = s]
                 /\ target' = target
        BY <4>2 DEF TypeOK
      <4> QED
        BY <1>3, <4>1, <4>2 DEF Info
    <3>4. /\ log' \in [Proxies -> Seq(Outcomes)]
          /\ logFailed' \in [Proxies -> BOOLEAN]
          /\ landed' \in [Proxies -> BOOLEAN] /\ late' \in [Proxies -> BOOLEAN]
      BY <1>3 DEF Info, At, TypeOK
    <3> QED
      BY <3>1, <3>2, <3>3, <3>4 DEF TypeOK, Labels
  <2>2. TempInv'
    <3>1. \A q \in Proxies \ {p} : result'[q] = result[q] /\ pc'[q] = pc[q]
      BY <1>3, DecideEffect, GotoEffect DEF Info, At, TypeOK, Labels,
         RepliesOf, Outcomes
    <3>2. UNCHANGED <<dir, temp, excuse>> /\ pc[p] \notin Transferring
      BY <1>3 DEF Info, At
    <3>3. /\ pc'[p] \notin Transferring
          /\ pc'[p] \in Decided => result'[p].record # "ok"
      BY <1>3, DecideEffect, GotoEffect DEF Info, At, TypeOK, Labels,
         RepliesOf, Outcomes, Decided
    <3> QED
      BY <3>1, <3>2, <3>3, TempQuiet
  <2>3. RecordInv'
    <3>1. \A q \in Proxies \ {p} : result'[q] = result[q] /\ pc'[q] = pc[q]
      BY <1>3, DecideEffect, GotoEffect DEF Info, At, TypeOK, Labels,
         RepliesOf, Outcomes
    <3>2. /\ log' = log /\ logFailed' = logFailed /\ landed' = landed
          /\ ~landed[p] /\ log[p] = <<>>
      BY <1>3 DEF Info, At, RecordInv, Decided
    <3>3. \/ pc'[p] \notin Decided
          \/ /\ pc'[p] = IF result'[p].record = "none" THEN "reply" ELSE "audit"
             /\ result'[p].record # "ok"
             /\ result'[p].record = "none" <=>
                   result'[p].reply \in {"invalid_arguments", "work_dir_denied"}
      BY <1>3, DecideEffect, GotoEffect DEF Info, At, TypeOK, Labels,
         RepliesOf, Outcomes, Decided
    <3> QED
      BY <3>1, <3>2, <3>3 DEF RecordInv, Decided
  <2>4. LateInv'
    BY <1>3 DEF Info, Decide, Goto, At, TypeOK, LateInv, Transfer, Exists,
       callVars
  <2> QED
    BY <2>1, <2>2, <2>3, <2>4
<1>4. ASSUME NEW p \in Proxies, Precheck(p) PROVE DownloadInv'
  <2>1. TypeOK'
    <3>1. result' \in [Proxies -> Results] /\ pc' \in [Proxies -> Labels]
      BY <1>4, DecideEffect, GotoEffect DEF Precheck, RefuseSize, At,
         TypeOK, Labels, RepliesOf, Outcomes
    <3>2. /\ dir' \in [Names -> Files] /\ temp' \in [Proxies -> Files]
          /\ excuse' \in [Proxies -> Excuses]
      BY <1>4, NoFileType DEF Precheck, RefuseSize, At, TypeOK, NoTemp
    <3>3. /\ target' \in [Proxies -> Names]
          /\ declared' \in [Proxies -> Sizes] /\ served' \in [Proxies -> Sizes]
      BY <1>4 DEF Precheck, RefuseSize, At, TypeOK, callVars
    <3>4. /\ log' \in [Proxies -> Seq(Outcomes)]
          /\ logFailed' \in [Proxies -> BOOLEAN]
          /\ landed' \in [Proxies -> BOOLEAN] /\ late' \in [Proxies -> BOOLEAN]
      BY <1>4 DEF Precheck, RefuseSize, At, TypeOK
    <3> QED
      BY <3>1, <3>2, <3>3, <3>4 DEF TypeOK, Labels
  <2>2. TempInv'
    <3>1. \A q \in Proxies \ {p} : result'[q] = result[q] /\ pc'[q] = pc[q]
      BY <1>4, DecideEffect, GotoEffect DEF Precheck, RefuseSize, At, TypeOK, Labels,
         RepliesOf, Outcomes
    <3>2. UNCHANGED <<dir, temp, excuse>> /\ pc[p] \notin Transferring
      BY <1>4 DEF Precheck, RefuseSize, At
    <3>3. /\ pc'[p] \notin Transferring
          /\ pc'[p] \in Decided => result'[p].record # "ok"
      BY <1>4, DecideEffect, GotoEffect DEF Precheck, RefuseSize, At, TypeOK, Labels,
         RepliesOf, Outcomes, Decided
    <3> QED
      BY <3>1, <3>2, <3>3, TempQuiet
  <2>3. RecordInv'
    <3>1. \A q \in Proxies \ {p} : result'[q] = result[q] /\ pc'[q] = pc[q]
      BY <1>4, DecideEffect, GotoEffect DEF Precheck, RefuseSize, At, TypeOK, Labels,
         RepliesOf, Outcomes
    <3>2. /\ log' = log /\ logFailed' = logFailed /\ landed' = landed
          /\ ~landed[p] /\ log[p] = <<>>
      BY <1>4 DEF Precheck, RefuseSize, At, RecordInv, Decided
    <3>3. \/ pc'[p] \notin Decided
          \/ /\ pc'[p] = IF result'[p].record = "none" THEN "reply" ELSE "audit"
             /\ result'[p].record # "ok"
             /\ result'[p].record = "none" <=>
                   result'[p].reply \in {"invalid_arguments", "work_dir_denied"}
      BY <1>4, DecideEffect, GotoEffect DEF Precheck, RefuseSize, At, TypeOK, Labels,
         RepliesOf, Outcomes, Decided
    <3> QED
      BY <3>1, <3>2, <3>3 DEF RecordInv, Decided
  <2>4. LateInv'
    BY <1>4 DEF Precheck, RefuseSize, Decide, Goto, At, TypeOK, LateInv,
       Transfer, Exists, callVars
  <2> QED
    BY <2>1, <2>2, <2>3, <2>4
<1>5. ASSUME NEW p \in Proxies, Resolve(p) PROVE DownloadInv'
  <2>1. TypeOK'
    <3>1. result' \in [Proxies -> Results] /\ pc' \in [Proxies -> Labels]
      BY <1>5, DecideEffect, GotoEffect DEF Resolve, MayCreate, At,
         TypeOK, Labels, RepliesOf, Outcomes
    <3>2. /\ dir' \in [Names -> Files] /\ temp' \in [Proxies -> Files]
          /\ excuse' \in [Proxies -> Excuses]
      BY <1>5, NoFileType DEF Resolve, MayCreate, At, TypeOK, NoTemp
    <3>3. /\ target' \in [Proxies -> Names]
          /\ declared' \in [Proxies -> Sizes] /\ served' \in [Proxies -> Sizes]
      BY <1>5 DEF Resolve, MayCreate, At, TypeOK, callVars
    <3>4. /\ log' \in [Proxies -> Seq(Outcomes)]
          /\ logFailed' \in [Proxies -> BOOLEAN]
          /\ landed' \in [Proxies -> BOOLEAN] /\ late' \in [Proxies -> BOOLEAN]
      BY <1>5 DEF Resolve, MayCreate, At, TypeOK
    <3> QED
      BY <3>1, <3>2, <3>3, <3>4 DEF TypeOK, Labels
  <2>2. TempInv'
    <3>1. \A q \in Proxies \ {p} : result'[q] = result[q] /\ pc'[q] = pc[q]
      BY <1>5, DecideEffect, GotoEffect DEF Resolve, MayCreate, At, TypeOK, Labels,
         RepliesOf, Outcomes
    <3>2. UNCHANGED <<dir, temp, excuse>> /\ pc[p] \notin Transferring
      BY <1>5 DEF Resolve, MayCreate, At
    <3>3. /\ pc'[p] \notin Transferring
          /\ pc'[p] \in Decided => result'[p].record # "ok"
      BY <1>5, DecideEffect, GotoEffect DEF Resolve, MayCreate, At, TypeOK, Labels,
         RepliesOf, Outcomes, Decided
    <3> QED
      BY <3>1, <3>2, <3>3, TempQuiet
  <2>3. RecordInv'
    <3>1. \A q \in Proxies \ {p} : result'[q] = result[q] /\ pc'[q] = pc[q]
      BY <1>5, DecideEffect, GotoEffect DEF Resolve, MayCreate, At,
         TypeOK, Labels, RepliesOf, Outcomes
    <3>2. /\ log' = log /\ logFailed' = logFailed /\ landed' = landed
          /\ ~landed[p] /\ log[p] = <<>>
      BY <1>5 DEF Resolve, MayCreate, At, RecordInv, Decided
    <3>3. \/ pc'[p] \notin Decided
          \/ /\ pc'[p] = IF result'[p].record = "none" THEN "reply" ELSE "audit"
             /\ result'[p].record # "ok"
             /\ result'[p].record = "none" <=>
                   result'[p].reply \in {"invalid_arguments", "work_dir_denied"}
      BY <1>5, DecideEffect, GotoEffect DEF Resolve, MayCreate, At,
         TypeOK, Labels, RepliesOf, Outcomes, Decided
    <3> QED
      BY <3>1, <3>2, <3>3 DEF RecordInv, Decided
  <2>4. LateInv'
    BY <1>5 DEF Resolve, MayCreate, Decide, Goto, At, TypeOK, LateInv,
       Transfer, Exists, callVars
  <2> QED
    BY <2>1, <2>2, <2>3, <2>4
<1>6. ASSUME NEW p \in Proxies, Get(p) PROVE DownloadInv'
  <2>1. TypeOK'
    <3>1. result' \in [Proxies -> Results] /\ pc' \in [Proxies -> Labels]
      BY <1>6, DecideEffect, GotoEffect DEF Get, At, TypeOK, Labels,
         RepliesOf, Outcomes
    <3>2. /\ dir' \in [Names -> Files] /\ temp' \in [Proxies -> Files]
          /\ excuse' \in [Proxies -> Excuses]
      <4>1. [by |-> p, size |-> 0, whole |-> FALSE] \in Files
        BY DEF Files, Sizes
      <4>2. /\ dir' = dir
            /\ \/ temp' = temp
               \/ temp' = [temp EXCEPT ![p] = [by |-> p, size |-> 0, whole |-> FALSE]]
            /\ excuse' \in [Proxies -> Excuses]
        BY <1>6 DEF Get, TypeOK
      <4>3. [temp EXCEPT ![p] = [by |-> p, size |-> 0, whole |-> FALSE]]
               \in [Proxies -> Files]
        BY <4>1, UpdateType DEF TypeOK
      <4> QED
        BY <4>2, <4>3 DEF TypeOK
    <3>3. /\ target' \in [Proxies -> Names]
          /\ declared' \in [Proxies -> Sizes] /\ served' \in [Proxies -> Sizes]
      BY <1>6 DEF Get, At, TypeOK, callVars
    <3>4. /\ log' \in [Proxies -> Seq(Outcomes)]
          /\ logFailed' \in [Proxies -> BOOLEAN]
          /\ landed' \in [Proxies -> BOOLEAN] /\ late' \in [Proxies -> BOOLEAN]
      BY <1>6 DEF Get, At, TypeOK
    <3> QED
      BY <3>1, <3>2, <3>3, <3>4 DEF TypeOK, Labels
  <2>2. TempInv'
    <3>1. WholeOrAbsent'
      BY <1>6 DEF Get, TempInv, WholeOrAbsent
    <3>2. \A q \in Proxies \ {p} : result'[q] = result[q] /\ pc'[q] = pc[q]
      BY <1>6, DecideEffect, GotoEffect DEF Get, Labels, RepliesOf, Outcomes
    <3>3. CASE Decide(p, "download_failed", "error") /\ UNCHANGED <<temp, excuse>>
      <4>1. pc'[p] = "audit" /\ result'[p].record # "ok"
        BY <3>3, DecideEffect DEF RepliesOf, Outcomes
      <4>2. UNCHANGED <<dir, temp, excuse>> /\ pc[p] \notin Transferring
        BY <1>6, <3>3 DEF Get, At
      <4> QED
        BY <3>2, <4>1, <4>2, TempQuiet
    <3>4. CASE /\ temp' = [temp EXCEPT ![p] = [by |-> p, size |-> 0, whole |-> FALSE]]
               /\ excuse' = [excuse EXCEPT ![p] = "none"]
               /\ Goto(p, "copy")
      <4>1. pc'[p] = "copy"
        BY <3>4, GotoEffect DEF Labels
      <4>2. \A q \in Proxies \ {p} : temp'[q] = temp[q] /\ excuse'[q] = excuse[q]
        BY <3>4 DEF TypeOK
      <4> QED
        BY <3>1, <3>2, <4>1, <4>2, TempFrame DEF Decided
    <3> QED
      BY <1>6, <3>3, <3>4 DEF Get
  <2>3. RecordInv'
    <3>1. \A q \in Proxies \ {p} : result'[q] = result[q] /\ pc'[q] = pc[q]
      BY <1>6, DecideEffect, GotoEffect DEF Get, At, TypeOK, Labels,
         RepliesOf, Outcomes
    <3>2. /\ log' = log /\ logFailed' = logFailed /\ landed' = landed
          /\ ~landed[p] /\ log[p] = <<>>
      BY <1>6 DEF Get, At, RecordInv, Decided
    <3>3. \/ pc'[p] \notin Decided
          \/ /\ pc'[p] = IF result'[p].record = "none" THEN "reply" ELSE "audit"
             /\ result'[p].record # "ok"
             /\ result'[p].record = "none" <=>
                   result'[p].reply \in {"invalid_arguments", "work_dir_denied"}
      BY <1>6, DecideEffect, GotoEffect DEF Get, At, TypeOK, Labels,
         RepliesOf, Outcomes, Decided
    <3> QED
      BY <3>1, <3>2, <3>3 DEF RecordInv, Decided
  <2>4. LateInv'
    BY <1>6 DEF Get, Decide, Goto, At, TypeOK, LateInv, Transfer, Exists,
       callVars
  <2> QED
    BY <2>1, <2>2, <2>3, <2>4
<1>7. ASSUME NEW p \in Proxies, Copy(p) PROVE DownloadInv'
  <2>1. TypeOK'
    <3>1. result' \in [Proxies -> Results] /\ pc' \in [Proxies -> Labels]
      BY <1>7, DecideEffect, GotoEffect DEF Copy, Copied, At, TypeOK,
         Labels, RepliesOf, Outcomes
    <3>2. /\ dir' \in [Names -> Files] /\ temp' \in [Proxies -> Files]
          /\ excuse' \in [Proxies -> Excuses]
      <4>1. served[p] \in Sizes /\ temp[p] \in Files
        BY DEF TypeOK
      <4>2. [temp[p] EXCEPT !.size = Copied(served[p]),
                            !.whole = (Copied(served[p]) = served[p])] \in Files
        BY <4>1, CopiedBounds DEF Files
      <4> QED
        BY <1>7, <4>2 DEF Copy, TypeOK
    <3>3. /\ target' \in [Proxies -> Names]
          /\ declared' \in [Proxies -> Sizes] /\ served' \in [Proxies -> Sizes]
      BY <1>7 DEF Copy, Copied, At, TypeOK, callVars
    <3>4. /\ log' \in [Proxies -> Seq(Outcomes)]
          /\ logFailed' \in [Proxies -> BOOLEAN]
          /\ landed' \in [Proxies -> BOOLEAN] /\ late' \in [Proxies -> BOOLEAN]
      BY <1>7 DEF Copy, Copied, At, TypeOK
    <3> QED
      BY <3>1, <3>2, <3>3, <3>4 DEF TypeOK, Labels
  <2>2. TempInv'
    <3>1. served[p] \in Sizes /\ temp[p] \in Files
      BY DEF TypeOK
    <3>2. /\ temp'[p].size = Copied(served[p])
          /\ temp'[p].whole = (Copied(served[p]) = served[p])
          /\ \A q \in Proxies \ {p} : temp'[q] = temp[q]
      BY <1>7, <3>1 DEF Copy, TypeOK, Files
    <3>3. ~OverCap(temp'[p].size) => temp'[p].whole
      BY <3>1, <3>2, CopiedBounds
    <3>4. /\ pc'[p] = "limit"
          /\ \A q \in Proxies \ {p} : pc'[q] = pc[q]
      BY <1>7, GotoEffect DEF Copy, Labels
    <3>5. WholeOrAbsent'
      BY <1>7 DEF Copy, TempInv, WholeOrAbsent
    <3>6. UNCHANGED <<excuse, result>>
      BY <1>7 DEF Copy
    <3> QED
      BY <3>2, <3>3, <3>4, <3>5, <3>6, TempFrame DEF Decided
  <2>3. RecordInv'
    BY <1>7 DEF Copy, Copied, Goto, At, TypeOK, RecordInv, Decided,
       Result, callVars
  <2>4. LateInv'
    BY <1>7 DEF Copy, Copied, Goto, At, TypeOK, LateInv, Transfer, Exists,
       callVars
  <2> QED
    BY <2>1, <2>2, <2>3, <2>4
<1>8. ASSUME NEW p \in Proxies, CopyFailed(p) PROVE DownloadInv'
  <2>1. TypeOK'
    <3>1. result' \in [Proxies -> Results] /\ pc' \in [Proxies -> Labels]
      BY <1>8, DecideEffect, GotoEffect DEF CopyFailed, CleanUp, At,
         TypeOK, Labels, RepliesOf, Outcomes
    <3>2. /\ dir' \in [Names -> Files] /\ temp' \in [Proxies -> Files]
          /\ excuse' \in [Proxies -> Excuses]
      BY <1>8, CleanUpType DEF CopyFailed, TypeOK
    <3>3. /\ target' \in [Proxies -> Names]
          /\ declared' \in [Proxies -> Sizes] /\ served' \in [Proxies -> Sizes]
      BY <1>8 DEF CopyFailed, CleanUp, At, TypeOK, callVars
    <3>4. /\ log' \in [Proxies -> Seq(Outcomes)]
          /\ logFailed' \in [Proxies -> BOOLEAN]
          /\ landed' \in [Proxies -> BOOLEAN] /\ late' \in [Proxies -> BOOLEAN]
      BY <1>8 DEF CopyFailed, CleanUp, At, TypeOK
    <3> QED
      BY <3>1, <3>2, <3>3, <3>4 DEF TypeOK, Labels
  <2>2. TempInv'
    <3>1. /\ \A q \in Proxies \ {p} : result'[q] = result[q] /\ pc'[q] = pc[q]
          /\ pc'[p] = "audit" /\ result'[p].record # "ok"
      BY <1>8, DecideEffect DEF CopyFailed, RepliesOf, Outcomes
    <3>2. UNCHANGED dir /\ CleanUp(p)
      BY <1>8 DEF CopyFailed
    <3> QED
      BY <3>1, <3>2, TempCleaned
  <2>3. RecordInv'
    BY <1>8 DEF CopyFailed, CleanUp, Decide, Goto, At, TypeOK, RecordInv,
       Decided, Result, callVars
  <2>4. LateInv'
    BY <1>8 DEF CopyFailed, CleanUp, Decide, Goto, At, TypeOK, LateInv,
       Transfer, Exists, callVars
  <2> QED
    BY <2>1, <2>2, <2>3, <2>4
<1>9. ASSUME NEW p \in Proxies, TooLarge(p) PROVE DownloadInv'
  <2>1. TypeOK'
    <3>1. result' \in [Proxies -> Results] /\ pc' \in [Proxies -> Labels]
      BY <1>9, DecideEffect, GotoEffect DEF TooLarge, CleanUp, At,
         TypeOK, Labels, RepliesOf, Outcomes
    <3>2. /\ dir' \in [Names -> Files] /\ temp' \in [Proxies -> Files]
          /\ excuse' \in [Proxies -> Excuses]
      BY <1>9, CleanUpType DEF TooLarge, TypeOK
    <3>3. /\ target' \in [Proxies -> Names]
          /\ declared' \in [Proxies -> Sizes] /\ served' \in [Proxies -> Sizes]
      BY <1>9 DEF TooLarge, CleanUp, At, TypeOK, callVars
    <3>4. /\ log' \in [Proxies -> Seq(Outcomes)]
          /\ logFailed' \in [Proxies -> BOOLEAN]
          /\ landed' \in [Proxies -> BOOLEAN] /\ late' \in [Proxies -> BOOLEAN]
      BY <1>9 DEF TooLarge, CleanUp, At, TypeOK
    <3> QED
      BY <3>1, <3>2, <3>3, <3>4 DEF TypeOK, Labels
  <2>2. TempInv'
    <3>1. /\ \A q \in Proxies \ {p} : result'[q] = result[q] /\ pc'[q] = pc[q]
          /\ pc'[p] = "audit" /\ result'[p].record # "ok"
      BY <1>9, DecideEffect DEF TooLarge, RepliesOf, Outcomes
    <3>2. UNCHANGED dir /\ CleanUp(p)
      BY <1>9 DEF TooLarge
    <3> QED
      BY <3>1, <3>2, TempCleaned
  <2>3. RecordInv'
    BY <1>9 DEF TooLarge, CleanUp, Decide, Goto, At, TypeOK, RecordInv,
       Decided, Result, callVars
  <2>4. LateInv'
    BY <1>9 DEF TooLarge, CleanUp, Decide, Goto, At, TypeOK, LateInv,
       Transfer, Exists, callVars
  <2> QED
    BY <2>1, <2>2, <2>3, <2>4
<1>10. ASSUME NEW p \in Proxies, Finish(p) PROVE DownloadInv'
  <2>1. TypeOK'
    <3>1. result' \in [Proxies -> Results] /\ pc' \in [Proxies -> Labels]
      BY <1>10, DecideEffect, GotoEffect DEF Finish, CleanUp, At,
         TypeOK, Labels, RepliesOf, Outcomes
    <3>2. /\ dir' \in [Names -> Files] /\ temp' \in [Proxies -> Files]
          /\ excuse' \in [Proxies -> Excuses]
      BY <1>10, CleanUpType DEF Finish, TypeOK
    <3>3. /\ target' \in [Proxies -> Names]
          /\ declared' \in [Proxies -> Sizes] /\ served' \in [Proxies -> Sizes]
      BY <1>10 DEF Finish, CleanUp, At, TypeOK, callVars
    <3>4. /\ log' \in [Proxies -> Seq(Outcomes)]
          /\ logFailed' \in [Proxies -> BOOLEAN]
          /\ landed' \in [Proxies -> BOOLEAN] /\ late' \in [Proxies -> BOOLEAN]
      BY <1>10 DEF Finish, CleanUp, At, TypeOK
    <3> QED
      BY <3>1, <3>2, <3>3, <3>4 DEF TypeOK, Labels
  <2>2. TempInv'
    <3>1. WholeOrAbsent'
      BY <1>10 DEF Finish, TempInv, WholeOrAbsent
    <3>2. \A q \in Proxies \ {p} : result'[q] = result[q] /\ pc'[q] = pc[q]
      BY <1>10, DecideEffect, GotoEffect DEF Finish, Labels, RepliesOf, Outcomes
    <3>3. CASE CleanUp(p) /\ Decide(p, "download_failed", "error")
      <4>1. pc'[p] = "audit" /\ result'[p].record # "ok"
        BY <3>3, DecideEffect DEF RepliesOf, Outcomes
      <4>2. UNCHANGED dir
        BY <1>10 DEF Finish
      <4> QED
        BY <3>2, <3>3, <4>1, <4>2, TempCleaned
    <3>4. CASE Goto(p, "rename") /\ UNCHANGED <<temp, excuse>>
      <4>1. pc'[p] = "rename"
        BY <3>4, GotoEffect DEF Labels
      <4>2. temp[p].whole /\ ~OverCap(temp[p].size)
        BY <1>10 DEF Finish, At, TempInv
      <4> QED
        BY <3>1, <3>2, <3>4, <4>1, <4>2, TempFrame DEF Decided
    <3> QED
      BY <1>10, <3>3, <3>4 DEF Finish
  <2>3. RecordInv'
    <3>1. \A q \in Proxies \ {p} : result'[q] = result[q] /\ pc'[q] = pc[q]
      BY <1>10, DecideEffect, GotoEffect DEF Finish, CleanUp, At,
         TypeOK, Labels, RepliesOf, Outcomes
    <3>2. /\ log' = log /\ logFailed' = logFailed /\ landed' = landed
          /\ ~landed[p] /\ log[p] = <<>>
      BY <1>10 DEF Finish, CleanUp, At, RecordInv, Decided
    <3>3. \/ pc'[p] \notin Decided
          \/ /\ pc'[p] = IF result'[p].record = "none" THEN "reply" ELSE "audit"
             /\ result'[p].record # "ok"
             /\ result'[p].record = "none" <=>
                   result'[p].reply \in {"invalid_arguments", "work_dir_denied"}
      BY <1>10, DecideEffect, GotoEffect DEF Finish, CleanUp, At,
         TypeOK, Labels, RepliesOf, Outcomes, Decided
    <3> QED
      BY <3>1, <3>2, <3>3 DEF RecordInv, Decided
  <2>4. LateInv'
    BY <1>10 DEF Finish, CleanUp, Decide, Goto, At, TypeOK, LateInv,
       Transfer, Exists, callVars
  <2> QED
    BY <2>1, <2>2, <2>3, <2>4
<1>11. ASSUME NEW p \in Proxies, Rename(p) PROVE DownloadInv'
  <2>1. TypeOK'
    <3>1. result' \in [Proxies -> Results] /\ pc' \in [Proxies -> Labels]
      BY <1>11, DecideEffect, GotoEffect DEF Rename, Created, At,
         TypeOK, Labels, RepliesOf, Outcomes
    <3>2. /\ dir' \in [Names -> Files] /\ temp' \in [Proxies -> Files]
          /\ excuse' \in [Proxies -> Excuses]
      BY <1>11, NoFileType DEF Rename, Created, At, TypeOK, NoTemp
    <3>3. /\ target' \in [Proxies -> Names]
          /\ declared' \in [Proxies -> Sizes] /\ served' \in [Proxies -> Sizes]
      BY <1>11 DEF Rename, Created, At, TypeOK, callVars
    <3>4. /\ log' \in [Proxies -> Seq(Outcomes)]
          /\ logFailed' \in [Proxies -> BOOLEAN]
          /\ landed' \in [Proxies -> BOOLEAN] /\ late' \in [Proxies -> BOOLEAN]
      BY <1>11 DEF Rename, Created, At, TypeOK
    <3> QED
      BY <3>1, <3>2, <3>3, <3>4 DEF TypeOK, Labels
  <2>2. TempInv'
    <3>1. temp[p].whole /\ ~OverCap(temp[p].size)
      BY <1>11 DEF Rename, At, TempInv
    <3>2. WholeOrAbsent'
      BY <1>11, <3>1 DEF Rename, TempInv, WholeOrAbsent, TypeOK
    <3>3. /\ \A q \in Proxies \ {p} : result'[q] = result[q] /\ pc'[q] = pc[q]
          /\ pc'[p] = "audit"
      BY <1>11, DecideEffect DEF Rename, RepliesOf, Outcomes
    <3>4. /\ temp'[p] = NoTemp /\ UNCHANGED excuse
          /\ \A q \in Proxies \ {p} : temp'[q] = temp[q]
      BY <1>11 DEF Rename, TypeOK
    <3> QED
      BY <3>2, <3>3, <3>4, TempFrame
  <2>3. RecordInv'
    BY <1>11 DEF Rename, Created, Decide, Goto, At, TypeOK, RecordInv,
       Decided, Result, callVars
  <2>4. LateInv'
    BY <1>11 DEF Rename, Created, Decide, Goto, At, TypeOK, LateInv,
       Transfer, Exists, callVars
  <2> QED
    BY <2>1, <2>2, <2>3, <2>4
<1>12. ASSUME NEW p \in Proxies, RenameFailed(p) PROVE DownloadInv'
  <2>1. TypeOK'
    <3>1. result' \in [Proxies -> Results] /\ pc' \in [Proxies -> Labels]
      BY <1>12, DecideEffect, GotoEffect DEF RenameFailed, RenameError,
         CleanUp, At, TypeOK, Labels, RepliesOf, Outcomes
    <3>2. /\ dir' \in [Names -> Files] /\ temp' \in [Proxies -> Files]
          /\ excuse' \in [Proxies -> Excuses]
      BY <1>12, CleanUpType DEF RenameFailed, RenameError, TypeOK
    <3>3. /\ target' \in [Proxies -> Names]
          /\ declared' \in [Proxies -> Sizes] /\ served' \in [Proxies -> Sizes]
      BY <1>12 DEF RenameFailed, RenameError, CleanUp, At, TypeOK, callVars
    <3>4. /\ log' \in [Proxies -> Seq(Outcomes)]
          /\ logFailed' \in [Proxies -> BOOLEAN]
          /\ landed' \in [Proxies -> BOOLEAN] /\ late' \in [Proxies -> BOOLEAN]
      BY <1>12 DEF RenameFailed, RenameError, CleanUp, At, TypeOK
    <3> QED
      BY <3>1, <3>2, <3>3, <3>4 DEF TypeOK, Labels
  <2>2. TempInv'
    <3>1. /\ \A q \in Proxies \ {p} : result'[q] = result[q] /\ pc'[q] = pc[q]
          /\ pc'[p] = "audit" /\ result'[p].record # "ok"
      BY <1>12, DecideEffect DEF RenameFailed, RenameError, RepliesOf, Outcomes
    <3>2. UNCHANGED dir /\ CleanUp(p)
      BY <1>12 DEF RenameFailed, RenameError
    <3> QED
      BY <3>1, <3>2, TempCleaned
  <2>3. RecordInv'
    BY <1>12 DEF RenameFailed, RenameError, CleanUp, Decide, Goto, At,
       TypeOK, RecordInv, Decided, Result, callVars
  <2>4. LateInv'
    BY <1>12 DEF RenameFailed, RenameError, CleanUp, Decide, Goto, At,
       TypeOK, LateInv, Transfer, Exists, callVars
  <2> QED
    BY <2>1, <2>2, <2>3, <2>4
<1>13. ASSUME NEW p \in Proxies, Audit(p) PROVE DownloadInv'
  <2>1. TypeOK'
    <3>1. result' \in [Proxies -> Results] /\ pc' \in [Proxies -> Labels]
      BY <1>13, GotoEffect DEF Audit, At, TypeOK, Labels, RepliesOf, Outcomes
    <3>2. /\ dir' \in [Names -> Files] /\ temp' \in [Proxies -> Files]
          /\ excuse' \in [Proxies -> Excuses]
      BY <1>13, NoFileType DEF Audit, At, TypeOK, NoTemp
    <3>3. /\ target' \in [Proxies -> Names]
          /\ declared' \in [Proxies -> Sizes] /\ served' \in [Proxies -> Sizes]
      BY <1>13 DEF Audit, At, TypeOK, callVars
    <3>4. log' \in [Proxies -> Seq(Outcomes)]
      <4>1. result[p].record \in Outcomes
        BY <1>13 DEF Audit, At, TypeOK, RecordInv, Results
      <4>2. Append(log[p], result[p].record) \in Seq(Outcomes)
        BY <4>1 DEF TypeOK
      <4> QED
        BY <1>13, <4>2 DEF Audit, TypeOK
    <3>5. /\ logFailed' \in [Proxies -> BOOLEAN]
          /\ landed' \in [Proxies -> BOOLEAN] /\ late' \in [Proxies -> BOOLEAN]
      BY <1>13 DEF Audit, TypeOK
    <3> QED
      BY <3>1, <3>2, <3>3, <3>4, <3>5 DEF TypeOK, Labels
  <2>2. TempInv'
    <3>1. pc[p] = "audit" /\ UNCHANGED <<dir, temp, excuse, result>>
      BY <1>13 DEF Audit, At
    <3>2. pc'[p] = "reply" /\ \A q \in Proxies \ {p} : pc'[q] = pc[q]
      BY <1>13, GotoEffect DEF Audit, Labels
    <3> QED
      BY <3>1, <3>2, TempQuiet DEF Decided
  <2>3. RecordInv'
    BY <1>13 DEF Audit, Goto, At, TypeOK, RecordInv, Decided, Result, callVars
  <2>4. LateInv'
    BY <1>13 DEF Audit, Goto, At, TypeOK, LateInv, Transfer, Exists, callVars
  <2> QED
    BY <2>1, <2>2, <2>3, <2>4
<1>14. ASSUME NEW p \in Proxies, Reply(p) PROVE DownloadInv'
  <2>1. TypeOK'
    <3>1. /\ dir' \in [Names -> Files] /\ temp' \in [Proxies -> Files]
          /\ excuse' \in [Proxies -> Excuses]
      BY <1>14, NoFileType DEF Reply, At, TypeOK, NoTemp
    <3>2. target' \in [Proxies -> Names]
      BY <1>14 DEF Reply, At, Forget, TypeOK
    <3>3. Forget(p)
      BY <1>14 DEF Reply
    <3> QED
      BY <3>1, <3>2, <3>3, ForgetEffect DEF TypeOK, Labels
  <2>2. TempInv'
    <3>1. pc[p] = "reply" /\ UNCHANGED <<dir, temp, excuse>>
      BY <1>14 DEF Reply, At
    <3>2. /\ pc'[p] = "idle"
          /\ \A q \in Proxies \ {p} : pc'[q] = pc[q] /\ result'[q] = result[q]
      BY <1>14, GotoEffect DEF Reply, Forget, Labels, TypeOK
    <3> QED
      BY <3>1, <3>2, TempQuiet DEF Decided
  <2>3. RecordInv'
    BY <1>14 DEF Reply, Forget, Goto, At, TypeOK, RecordInv, Decided,
       Result, callVars
  <2>4. LateInv'
    BY <1>14 DEF Reply, Forget, Goto, At, TypeOK, LateInv, Transfer,
       Exists, callVars
  <2> QED
    BY <2>1, <2>2, <2>3, <2>4
<1>15. ASSUME NEW p \in Proxies, Crash(p) PROVE DownloadInv'
  <2>1. TypeOK'
    <3>1. /\ dir' \in [Names -> Files] /\ temp' \in [Proxies -> Files]
          /\ excuse' \in [Proxies -> Excuses]
      BY <1>15, NoFileType DEF Crash, At, TypeOK, NoTemp
    <3>2. target' \in [Proxies -> Names]
      BY <1>15 DEF Crash, At, Forget, TypeOK
    <3>3. Forget(p)
      BY <1>15 DEF Crash
    <3> QED
      BY <3>1, <3>2, <3>3, ForgetEffect DEF TypeOK, Labels
  <2>2. TempInv'
    <3>1. WholeOrAbsent'
      BY <1>15 DEF Crash, TempInv, WholeOrAbsent
    <3>2. /\ pc'[p] = "idle"
          /\ \A q \in Proxies \ {p} : pc'[q] = pc[q] /\ result'[q] = result[q]
      BY <1>15, GotoEffect DEF Crash, Forget, Labels, TypeOK
    <3>3. /\ UNCHANGED temp
          /\ excuse'[p] = IF pc[p] \in Transferring THEN "died" ELSE excuse[p]
          /\ \A q \in Proxies \ {p} : excuse'[q] = excuse[q]
      BY <1>15 DEF Crash, TypeOK
    <3>4. temp[p] # NoTemp => pc[p] \in Transferring \/ excuse[p] # "none"
      BY DEF TempInv
    <3>5. temp'[p] # NoTemp => excuse'[p] # "none"
      BY <3>3, <3>4
    <3> QED
      BY <3>1, <3>2, <3>3, <3>5, TempFrame DEF Decided
  <2>3. RecordInv'
    BY <1>15 DEF Crash, Forget, Goto, At, TypeOK, RecordInv, Decided,
       Result, callVars
  <2>4. LateInv'
    BY <1>15 DEF Crash, Forget, Goto, At, TypeOK, LateInv, Transfer,
       Exists, callVars
  <2> QED
    BY <2>1, <2>2, <2>3, <2>4
<1>16. ASSUME NEW n \in Names, UserCreates(n) PROVE DownloadInv'
  <2>1. TypeOK'
    BY <1>16, NoFileType, UserFileType DEF UserCreates, Created, TypeOK,
       callVars
  <2>2. TempInv'
    BY <1>16, NoFileIsNoProxys, UserFileType DEF UserCreates, Created,
       TypeOK, TempInv, WholeOrAbsent
  <2>3. RecordInv'
    BY <1>16 DEF UserCreates, Created, RecordInv, Decided
  <2>4. LateInv'
    BY <1>16 DEF UserCreates, Created, TypeOK, LateInv, Transfer, Exists,
       callVars
  <2> QED
    BY <2>1, <2>2, <2>3, <2>4
<1>17. ASSUME NEW n \in Names, UserRemoves(n) PROVE DownloadInv'
  <2>1. TypeOK'
    BY <1>17, NoFileType, UserFileType DEF UserRemoves, TypeOK, callVars
  <2>2. TempInv'
    BY <1>17, NoFileIsNoProxys, UserFileType DEF UserRemoves, TypeOK,
       TempInv, WholeOrAbsent
  <2>3. RecordInv'
    BY <1>17 DEF UserRemoves, RecordInv, Decided
  <2>4. LateInv'
    BY <1>17 DEF UserRemoves, TypeOK, LateInv, Transfer, Exists, callVars
  <2> QED
    BY <2>1, <2>2, <2>3, <2>4
<1>18. CASE UNCHANGED vars
  BY <1>18 DEF vars, callVars, TypeOK, TempInv, WholeOrAbsent, RecordInv,
     LateInv, Exists
<1> QED
  BY <1>1, <1>2, <1>3, <1>4, <1>5, <1>6, <1>7, <1>8, <1>9, <1>10, <1>11, <1>12,
     <1>13, <1>14, <1>15, <1>16, <1>17, <1>18 DEF Next, Step

LEMMA SpecInv == Spec => []DownloadInv
BY InitInv, StepInv, PTL DEF Spec

-----------------------------------------------------------------------------
\* Type correctness for any number of proxies and names.
THEOREM TypesHold == Spec => []TypeOK
<1>1. DownloadInv => TypeOK
  BY DEF DownloadInv
<1> QED
  BY <1>1, SpecInv, PTL

\* However many proxies share the directory, no name shows a download that is
\* truncated or beyond the cap.
THEOREM NamesShowWholeFiles == Spec => []WholeOrAbsent
<1>1. DownloadInv => WholeOrAbsent
  BY DEF DownloadInv, TempInv
<1> QED
  BY <1>1, SpecInv, PTL

\* On every way out of a call its temporary file is removed, unless Remove itself
\* fails or the process dies; after a download that succeeded none is left.
THEOREM TemporariesGo == Spec => []NoPartialRemains
<1>1. DownloadInv => NoPartialRemains
  BY DEF DownloadInv, TempInv, NoPartialRemains, Decided
<1> QED
  BY <1>1, SpecInv, PTL

\* The record of a call agrees with what it did to the directory.
THEOREM LogIsTrue == Spec => []LogTellsTheTruth
<1>1. DownloadInv => LogTellsTheTruth
  <2> SUFFICES ASSUME DownloadInv, NEW p \in Proxies, pc[p] = "reply"
               PROVE  \/ log[p] = <<>> /\ (landed[p] => logFailed[p])
                      \/ /\ Len(log[p]) = 1
                         /\ log[p][1] = "ok" <=> landed[p]
    BY DEF LogTellsTheTruth, At
  <2>1. landed[p] <=> result[p].record = "ok"
    BY DEF DownloadInv, RecordInv, Decided
  <2>2. CASE log[p] = <<>> /\ (result[p].record # "none" => logFailed[p])
    BY <2>1, <2>2
  <2>3. CASE log[p] = <<result[p].record>>
    <3>1. Len(log[p]) = 1 /\ log[p][1] = result[p].record
      BY <2>3
    <3> QED
      BY <2>1, <3>1
  <2> QED
    BY <2>2, <2>3 DEF DownloadInv, RecordInv
<1> QED
  BY <1>1, SpecInv, PTL

\* A call that asked Slack for the file is logged, or its Append failed.
THEOREM AttemptsLeaveRecords == Spec => []AttemptsAreLogged
<1>1. DownloadInv => AttemptsAreLogged
  BY DEF DownloadInv, RecordInv, Decided, AttemptsAreLogged, At
<1> QED
  BY <1>1, SpecInv, PTL

\* Whatever two proxies and the user do between look and rename, a file that is
\* replaced was created in between.
THEOREM LatecomersOnly == Spec => ReplacesOnlyLatecomers
<1> DEFINE A == \A p \in Proxies :
                  (~landed[p] /\ landed'[p] /\ Exists(target[p])) => late[p]
<1>1. DownloadInv /\ [Next]_vars => [A]_vars
  <2> SUFFICES ASSUME DownloadInv, Next, NEW p \in Proxies,
                      ~landed[p], landed'[p], Exists(target[p])
               PROVE  late[p]
    OBVIOUS
  <2> USE DEF DownloadInv, TypeOK
  <2>1. ASSUME NEW q \in Proxies, Step(q) \/ Crash(q) PROVE late[p]
    <3>1. CASE Rename(q)
      BY <2>1, <3>1 DEF Rename, At, LateInv, Transfer
    <3>2. CASE ~Rename(q)
      BY <2>1, <3>2 DEF Step, Call, WorkDir, Info, Precheck, Resolve, Get, Copy,
            CopyFailed, TooLarge, Finish, RenameFailed, Audit, Reply, Crash, Forget
    <3> QED
      BY <3>1, <3>2
  <2>2. ASSUME NEW n \in Names, UserCreates(n) \/ UserRemoves(n) PROVE late[p]
    BY <2>2 DEF UserCreates, UserRemoves
  <2> QED
    BY <2>1, <2>2, DownloadAssumption DEF Next
<1> QED
  BY <1>1, SpecInv, PTL DEF Spec, ReplacesOnlyLatecomers
=============================================================================
