---------------------------- MODULE UploadProofs ----------------------------
(***************************************************************************)
(* Theorems about Upload, for every cap, every size of the file and every  *)
(* marker of a missing one.                                                *)
(***************************************************************************)
EXTENDS Upload, TLAPS

Undecided == {"idle", "workdir", "resolve", "stat", "geturl", "open", "complete"}
BeforeBytes == Undecided \ {"complete"}

\* What the calls of Slack leave behind, seen from where the proxy is.
EgressInv ==
    /\ pc \in Undecided => posts = 0 /\ result = Result("none", "none")
    /\ pc \in BeforeBytes => sent = Missing
    /\ pc = "complete" => (length # 0 => stored = length)
    /\ posts \in {0, 1}
    /\ "ok" \in {result.reply, result.record} =>
          posts = 1 /\ (length # 0 => stored = length)

\* The log is written in the last step but one, and only then.
LogInv ==
    /\ pc # "reply" => log = <<>>
    /\ pc = "audit" => result.record # "none"
    /\ pc = "reply" => \/ log = <<result.record>>
                       \/ log = <<>> /\ (logFailed \/ sent = Missing)

\* Until the bytes are sent, a file beyond the cap was written to since the
\* policy measured it.
CapInv ==
    /\ pc \in {"stat", "geturl", "open"} /\ file # Missing /\ OverCap(file)
          => written
    /\ BeyondCapMeansWritten

UploadInv == TypeOK /\ EgressInv /\ LogInv /\ CapInv

-----------------------------------------------------------------------------
LEMMA RecordsOfResults ==
    ASSUME NEW reply, NEW record
    PROVE  /\ Result(reply, record).reply = reply
           /\ Result(reply, record).record = record
           /\ Result(reply, record) = [reply |-> reply, record |-> record]
BY DEF Result

\* What is sent is a size, and no more than the file holds.
LEMMA WireBounds ==
    ASSUME TypeOK, file # Missing
    PROVE  /\ file \in Sizes
           /\ OnTheWire \in Sizes
           /\ OnTheWire <= file
           /\ ~Short /\ length # 0 => OnTheWire = length
BY UploadAssumption DEF TypeOK, OnTheWire, Smaller, Short, Sizes

LEMMA CapIsMonotone ==
    ASSUME NEW a \in Sizes, NEW b \in Sizes, a <= b, OverCap(a)
    PROVE  OverCap(b)
BY UploadAssumption DEF OverCap, Sizes

\* A call that has been decided, or is forgotten, has a result and a log again.
LEMMA ResultType ==
    ASSUME NEW reply \in Replies, NEW record \in Outcomes \cup {"none"}
    PROVE  Result(reply, record) \in [reply : Replies, record : Outcomes \cup {"none"}]
BY DEF Result

LEMMA EmptyLogType == <<>> \in Seq(Outcomes)
OBVIOUS

LEMMA InitInv == Init => UploadInv
<1> SUFFICES ASSUME Init PROVE UploadInv
  OBVIOUS
<1> USE UploadAssumption DEF Init
<1>1. TypeOK
  <2>1. result \in [reply : Replies, record : Outcomes \cup {"none"}]
    BY DEF Result, Replies
  <2>2. log \in Seq(Outcomes)
    OBVIOUS
  <2>3. length \in Sizes
    BY DEF Sizes
  <2> QED
    BY <2>1, <2>2, <2>3 DEF TypeOK
<1>2. EgressInv
  BY DEF EgressInv, Undecided, BeforeBytes, Result
<1>3. LogInv
  BY DEF LogInv
<1>4. CapInv
  BY DEF CapInv, BeyondCapMeansWritten
<1> QED
  BY <1>1, <1>2, <1>3, <1>4 DEF UploadInv

LEMMA StepInv == UploadInv /\ [Next]_vars => UploadInv'
<1> SUFFICES ASSUME UploadInv, [Next]_vars PROVE UploadInv'
  OBVIOUS
<1> USE UploadAssumption DEF UploadInv, slackVars
<1>1. CASE Call
  BY <1>1 DEF Call, Decide, TypeOK, EgressInv, LogInv, CapInv,
     BeyondCapMeansWritten,
      Undecided, BeforeBytes, Result, Replies, Outcomes
<1>2. CASE WorkDir
  BY <1>2 DEF WorkDir, Decide, TypeOK, EgressInv, LogInv, CapInv,
     BeyondCapMeansWritten,
      Undecided, BeforeBytes, Result, Replies, Outcomes
<1>3. CASE Resolve
  BY <1>3 DEF Resolve, MaySend, Decide, TypeOK, EgressInv, LogInv, CapInv,
     BeyondCapMeansWritten,
      Undecided, BeforeBytes, Result, Replies, Outcomes
<1>4. CASE Stat
  <2>1. TypeOK'
    <3>1. result' \in [reply : Replies, record : Outcomes \cup {"none"}]
      BY <1>4, ResultType DEF Stat, Fail, Decide, TypeOK, Replies, Outcomes
    <3>2. log' \in Seq(Outcomes)
      BY <1>4, EmptyLogType DEF Stat, Fail, Decide, TypeOK
    <3>3. file' \in Sizes \cup {Missing} /\ length' \in Sizes /\ posts' \in Nat
      BY <1>4, WireBounds DEF Stat, Fail, Decide, TypeOK, Sizes
    <3>4. sent' \in Sizes \cup {Missing} /\ stored' \in Sizes \cup {Missing}
      BY <1>4, WireBounds DEF Stat, Fail, Decide, TypeOK
    <3>5. /\ retried' \in BOOLEAN /\ logFailed' \in BOOLEAN /\ written' \in BOOLEAN
          /\ pc' \in {"idle", "workdir", "resolve", "stat", "geturl", "open",
                     "complete", "audit", "reply"}
      BY <1>4 DEF Stat, Fail, Decide, TypeOK
    <3> QED
      BY <3>1, <3>2, <3>3, <3>4, <3>5 DEF TypeOK
  <2>2. EgressInv'
    BY <1>4, RecordsOfResults, WireBounds DEF Stat, Fail, Decide, TypeOK,
       EgressInv, Undecided, BeforeBytes
  <2>3. LogInv'
    BY <1>4, RecordsOfResults DEF Stat, Fail, Decide, LogInv, EgressInv,
       Undecided, BeforeBytes
  <2>4. CapInv'
    BY <1>4, WireBounds, CapIsMonotone DEF Stat, Fail, Decide, TypeOK,
       CapInv, BeyondCapMeansWritten, EgressInv, Undecided, BeforeBytes
  <2> QED
    BY <2>1, <2>2, <2>3, <2>4
<1>5. CASE \E step \in {"geturl", "complete"} : AuthError(step)
  <2> PICK step \in {"geturl", "complete"} : AuthError(step)
    BY <1>5
  <2>1. TypeOK'
    <3>1. result' \in [reply : Replies, record : Outcomes \cup {"none"}]
      BY ResultType DEF AuthError, Fail, Decide, TypeOK, Replies, Outcomes
    <3>2. log' \in Seq(Outcomes)
      BY EmptyLogType DEF AuthError, Fail, Decide, TypeOK
    <3>3. file' \in Sizes \cup {Missing} /\ length' \in Sizes /\ posts' \in Nat
      BY WireBounds DEF AuthError, Fail, Decide, TypeOK, Sizes
    <3>4. sent' \in Sizes \cup {Missing} /\ stored' \in Sizes \cup {Missing}
      BY WireBounds DEF AuthError, Fail, Decide, TypeOK
    <3>5. /\ retried' \in BOOLEAN /\ logFailed' \in BOOLEAN /\ written' \in BOOLEAN
          /\ pc' \in {"idle", "workdir", "resolve", "stat", "geturl", "open",
                     "complete", "audit", "reply"}
      BY DEF AuthError, Fail, Decide, TypeOK
    <3> QED
      BY <3>1, <3>2, <3>3, <3>4, <3>5 DEF TypeOK
  <2>2. EgressInv'
    BY RecordsOfResults, WireBounds DEF AuthError, Fail, Decide, TypeOK,
       EgressInv, Undecided, BeforeBytes
  <2>3. LogInv'
    BY RecordsOfResults DEF AuthError, Fail, Decide, LogInv, EgressInv,
       Undecided, BeforeBytes
  <2>4. CapInv'
    BY WireBounds, CapIsMonotone DEF AuthError, Fail, Decide, TypeOK,
       CapInv, BeyondCapMeansWritten, EgressInv, Undecided, BeforeBytes
  <2> QED
    BY <2>1, <2>2, <2>3, <2>4
<1>6. CASE \E step \in {"geturl", "complete"} : SlackError(step)
  BY <1>6 DEF SlackError, Fail, Decide, TypeOK, EgressInv, LogInv, CapInv,
     BeyondCapMeansWritten,
      Undecided, BeforeBytes, Result, Replies, Outcomes
<1>7. CASE GetURL
  BY <1>7 DEF GetURL, Unanswered, Fail, Decide, TypeOK, EgressInv, LogInv,
     CapInv, BeyondCapMeansWritten,
      Undecided, BeforeBytes, Result, Replies, Outcomes
<1>8. CASE PostBytes
  <2>1. TypeOK'
    <3>1. result' \in [reply : Replies, record : Outcomes \cup {"none"}]
      BY <1>8, ResultType DEF PostBytes, BytesRefused, Fail, Decide,
         TypeOK, Replies, Outcomes
    <3>2. log' \in Seq(Outcomes)
      BY <1>8, EmptyLogType DEF PostBytes, BytesRefused, Fail, Decide, TypeOK
    <3>3. file' \in Sizes \cup {Missing} /\ length' \in Sizes /\ posts' \in Nat
      BY <1>8, WireBounds DEF PostBytes, BytesRefused, Fail, Decide,
         TypeOK, Sizes
    <3>4. sent' \in Sizes \cup {Missing} /\ stored' \in Sizes \cup {Missing}
      BY <1>8, WireBounds DEF PostBytes, BytesRefused, Fail, Decide, TypeOK
    <3>5. /\ retried' \in BOOLEAN /\ logFailed' \in BOOLEAN /\ written' \in BOOLEAN
          /\ pc' \in {"idle", "workdir", "resolve", "stat", "geturl", "open",
                     "complete", "audit", "reply"}
      BY <1>8 DEF PostBytes, BytesRefused, Fail, Decide, TypeOK
    <3> QED
      BY <3>1, <3>2, <3>3, <3>4, <3>5 DEF TypeOK
  <2>2. EgressInv'
    BY <1>8, RecordsOfResults, WireBounds DEF PostBytes, BytesRefused,
       Fail, Decide, TypeOK, EgressInv, Undecided, BeforeBytes
  <2>3. LogInv'
    BY <1>8, RecordsOfResults DEF PostBytes, BytesRefused, Fail, Decide,
       LogInv, EgressInv, Undecided, BeforeBytes
  <2>4. CapInv'
    BY <1>8, WireBounds, CapIsMonotone DEF PostBytes, BytesRefused, Fail,
       Decide, TypeOK, CapInv, BeyondCapMeansWritten, EgressInv,
       Undecided, BeforeBytes
  <2> QED
    BY <2>1, <2>2, <2>3, <2>4
<1>9. CASE Complete
  BY <1>9 DEF Complete, Unanswered, Fail, Decide, TypeOK, EgressInv, LogInv,
     CapInv, BeyondCapMeansWritten,
      Undecided, BeforeBytes, Result, Replies, Outcomes
<1>10. CASE CompleteFailed
  BY <1>10 DEF CompleteFailed, Unanswered, Fail, Decide, TypeOK, EgressInv,
     LogInv, CapInv, BeyondCapMeansWritten,
      Undecided, BeforeBytes, Result, Replies, Outcomes
<1>11. CASE Audit
  <2>1. TypeOK'
    <3>1. result' \in [reply : Replies, record : Outcomes \cup {"none"}]
      BY <1>11, ResultType DEF Audit, TypeOK, Replies, Outcomes
    <3>2. log' \in Seq(Outcomes)
      <4>1. result.record \in Outcomes
        BY <1>11 DEF Audit, TypeOK, LogInv
      <4>2. Append(log, result.record) \in Seq(Outcomes)
        BY <4>1 DEF TypeOK
      <4> QED
        BY <1>11, <4>2 DEF Audit, TypeOK
    <3>3. file' \in Sizes \cup {Missing} /\ length' \in Sizes /\ posts' \in Nat
      BY <1>11, WireBounds DEF Audit, TypeOK, Sizes
    <3>4. sent' \in Sizes \cup {Missing} /\ stored' \in Sizes \cup {Missing}
      BY <1>11, WireBounds DEF Audit, TypeOK
    <3>5. /\ retried' \in BOOLEAN /\ logFailed' \in BOOLEAN /\ written' \in BOOLEAN
          /\ pc' \in {"idle", "workdir", "resolve", "stat", "geturl", "open",
                     "complete", "audit", "reply"}
      BY <1>11 DEF Audit, TypeOK
    <3> QED
      BY <3>1, <3>2, <3>3, <3>4, <3>5 DEF TypeOK
  <2>2. EgressInv'
    BY <1>11, RecordsOfResults, WireBounds DEF Audit, TypeOK, EgressInv,
       Undecided, BeforeBytes
  <2>3. LogInv'
    BY <1>11, RecordsOfResults DEF Audit, LogInv, EgressInv, Undecided,
       BeforeBytes
  <2>4. CapInv'
    BY <1>11, WireBounds, CapIsMonotone DEF Audit, TypeOK, CapInv,
       BeyondCapMeansWritten, EgressInv, Undecided, BeforeBytes
  <2> QED
    BY <2>1, <2>2, <2>3, <2>4
<1>12. CASE Reply
  <2>1. TypeOK'
    <3>1. result' \in [reply : Replies, record : Outcomes \cup {"none"}]
      BY <1>12, ResultType DEF Reply, Forget, TypeOK, Replies, Outcomes
    <3>2. log' \in Seq(Outcomes)
      BY <1>12, EmptyLogType DEF Reply, Forget, TypeOK
    <3>3. file' \in Sizes \cup {Missing} /\ length' \in Sizes /\ posts' \in Nat
      BY <1>12, WireBounds DEF Reply, Forget, TypeOK, Sizes
    <3>4. sent' \in Sizes \cup {Missing} /\ stored' \in Sizes \cup {Missing}
      BY <1>12, WireBounds DEF Reply, Forget, TypeOK
    <3>5. /\ retried' \in BOOLEAN /\ logFailed' \in BOOLEAN /\ written' \in BOOLEAN
          /\ pc' \in {"idle", "workdir", "resolve", "stat", "geturl", "open",
                     "complete", "audit", "reply"}
      BY <1>12 DEF Reply, Forget, TypeOK
    <3> QED
      BY <3>1, <3>2, <3>3, <3>4, <3>5 DEF TypeOK
  <2>2. EgressInv'
    BY <1>12, RecordsOfResults, WireBounds DEF Reply, Forget, TypeOK,
       EgressInv, Undecided, BeforeBytes
  <2>3. LogInv'
    BY <1>12, RecordsOfResults DEF Reply, Forget, LogInv, EgressInv,
       Undecided, BeforeBytes
  <2>4. CapInv'
    BY <1>12, WireBounds, CapIsMonotone DEF Reply, Forget, TypeOK, CapInv,
       BeyondCapMeansWritten, EgressInv, Undecided, BeforeBytes
  <2> QED
    BY <2>1, <2>2, <2>3, <2>4
<1>13. CASE Crash
  <2>1. TypeOK'
    <3>1. result' \in [reply : Replies, record : Outcomes \cup {"none"}]
      BY <1>13, ResultType DEF Crash, Forget, TypeOK, Replies, Outcomes
    <3>2. log' \in Seq(Outcomes)
      BY <1>13, EmptyLogType DEF Crash, Forget, TypeOK
    <3>3. file' \in Sizes \cup {Missing} /\ length' \in Sizes /\ posts' \in Nat
      BY <1>13, WireBounds DEF Crash, Forget, TypeOK, Sizes
    <3>4. sent' \in Sizes \cup {Missing} /\ stored' \in Sizes \cup {Missing}
      BY <1>13, WireBounds DEF Crash, Forget, TypeOK
    <3>5. /\ retried' \in BOOLEAN /\ logFailed' \in BOOLEAN /\ written' \in BOOLEAN
          /\ pc' \in {"idle", "workdir", "resolve", "stat", "geturl", "open",
                     "complete", "audit", "reply"}
      BY <1>13 DEF Crash, Forget, TypeOK
    <3> QED
      BY <3>1, <3>2, <3>3, <3>4, <3>5 DEF TypeOK
  <2>2. EgressInv'
    BY <1>13, RecordsOfResults, WireBounds DEF Crash, Forget, TypeOK,
       EgressInv, Undecided, BeforeBytes
  <2>3. LogInv'
    BY <1>13, RecordsOfResults DEF Crash, Forget, LogInv, EgressInv,
       Undecided, BeforeBytes
  <2>4. CapInv'
    BY <1>13, WireBounds, CapIsMonotone DEF Crash, Forget, TypeOK, CapInv,
       BeyondCapMeansWritten, EgressInv, Undecided, BeforeBytes
  <2> QED
    BY <2>1, <2>2, <2>3, <2>4
<1>14. CASE Edit
  <2>1. TypeOK'
    <3>1. result' \in [reply : Replies, record : Outcomes \cup {"none"}]
      BY <1>14, ResultType DEF Edit, TypeOK, Replies, Outcomes
    <3>2. log' \in Seq(Outcomes)
      BY <1>14, EmptyLogType DEF Edit, TypeOK
    <3>3. file' \in Sizes \cup {Missing} /\ length' \in Sizes /\ posts' \in Nat
      BY <1>14, WireBounds DEF Edit, TypeOK, Sizes
    <3>4. sent' \in Sizes \cup {Missing} /\ stored' \in Sizes \cup {Missing}
      BY <1>14, WireBounds DEF Edit, TypeOK
    <3>5. /\ retried' \in BOOLEAN /\ logFailed' \in BOOLEAN /\ written' \in BOOLEAN
          /\ pc' \in {"idle", "workdir", "resolve", "stat", "geturl", "open",
                     "complete", "audit", "reply"}
      BY <1>14 DEF Edit, TypeOK
    <3> QED
      BY <3>1, <3>2, <3>3, <3>4, <3>5 DEF TypeOK
  <2>2. EgressInv'
    BY <1>14, RecordsOfResults, WireBounds DEF Edit, TypeOK, EgressInv,
       Undecided, BeforeBytes
  <2>3. LogInv'
    BY <1>14, RecordsOfResults DEF Edit, LogInv, EgressInv, Undecided,
       BeforeBytes
  <2>4. CapInv'
    BY <1>14, WireBounds, CapIsMonotone DEF Edit, TypeOK, CapInv,
       BeyondCapMeansWritten, EgressInv, Undecided, BeforeBytes
  <2> QED
    BY <2>1, <2>2, <2>3, <2>4
<1>15. CASE UNCHANGED vars
  BY <1>15 DEF vars, OverCap, TypeOK, EgressInv, LogInv, CapInv,
     BeyondCapMeansWritten,
      Undecided, BeforeBytes, Result, Replies, Outcomes
<1> QED
  BY <1>1, <1>2, <1>3, <1>4, <1>5, <1>6, <1>7, <1>8, <1>9, <1>10, <1>11,
     <1>12, <1>13, <1>14, <1>15 DEF Next

LEMMA SpecInv == Spec => []UploadInv
BY InitInv, StepInv, PTL DEF Spec

-----------------------------------------------------------------------------
\* Type correctness of the upload, whatever the cap and the sizes.
THEOREM TypesHold == Spec => []TypeOK
<1>1. UploadInv => TypeOK
  BY DEF UploadInv
<1> QED
  BY <1>1, SpecInv, PTL

\* One call posts its file at most once, for all the retries of its API calls
\* (upload.go:157 repeats none that took effect).
THEOREM PostsOnce == Spec => []PostedAtMostOnce
<1>1. UploadInv => PostedAtMostOnce
  BY DEF UploadInv, EgressInv, PostedAtMostOnce
<1> QED
  BY <1>1, SpecInv, PTL

\* "ok" is said only of a file that is posted with every byte of the length the
\* agent is told, however the file changes under the three steps.
THEOREM OkIsPosted == Spec => []OkMeansPosted
<1>1. UploadInv => OkMeansPosted
  BY DEF UploadInv, EgressInv, OkMeansPosted
<1> QED
  BY <1>1, SpecInv, PTL

\* A call after which bytes have left the machine ends with its record in the
\* log, or with an Append that failed.
THEOREM EgressLeavesRecord == Spec => []EgressIsLogged
<1>1. UploadInv => EgressIsLogged
  BY DEF UploadInv, TypeOK, EgressInv, LogInv, EgressIsLogged
<1> QED
  BY <1>1, SpecInv, PTL

\* What is sent is beyond the cap only if the file was written to after the
\* policy had measured it.
THEOREM CapHoldsUnlessWritten == Spec => []BeyondCapMeansWritten
<1>1. UploadInv => BeyondCapMeansWritten
  BY DEF UploadInv, CapInv
<1> QED
  BY <1>1, SpecInv, PTL
=============================================================================
