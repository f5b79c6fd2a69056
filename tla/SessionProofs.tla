--------------------------- MODULE SessionProofs ---------------------------
(***************************************************************************)
(* Theorems about Session, for any number of requests and of sessions the  *)
(* upstream hands out.                                                     *)
(*                                                                         *)
(* A line is followed from the agent's pen to the POST: it is written once,*)
(* waits in stdin once, and is in readAgent's hand until the upstream has  *)
(* taken it up or Send has failed.  A session is followed from the answer  *)
(* that names it: the upstream knows none but the client's, those the      *)
(* client has replaced, and those it was never told of.                    *)
(***************************************************************************)
EXTENDS Session, TLAPS

\* The agent has written line l.
Written(l) == IF l \in Requests THEN l <= asked
                                ELSE ask[l - N] \notin {"no", "asked"}

\* It waits in stdin.
Waits(l) == \E k \in 1..Len(stdin) : stdin[k] = l

StdinInv ==
    /\ \A l \in Lines : Waits(l) => taken[l] = 0 /\ Written(l) /\ l # line
    /\ \A j, k \in 1..Len(stdin) : stdin[j] = stdin[k] => j = k

\* The line in readAgent's hand; its bytes are in the buffer as long as Send
\* lasts.
HandInv ==
    /\ turn \in {"send", "post"} => line \in Lines /\ taken[line] = 0 /\ buf = line
    /\ turn = "wait" => line \in Requests
    /\ turn \in {"read", "close", "exit"} => line = 0
    /\ turn = "post" => post.line = line /\ post.session = sid
    /\ line \in Lines => Written(line)
    /\ early # {} => buf \in Lines

TakenInv == \A l \in Lines : taken[l] <= 1 /\ (taken[l] # 0 => Written(l))

\* A reply that is not sent yet is neither heard nor lost.
ReplyInv ==
    \A r \in Requests : Waits(Reply(r)) \/ line = Reply(r) => ask[r] = "replied"

\* The upstream knows the session of the client, those it replaced and those it
\* was not told of.
AliveInv ==
    /\ 0 \notin alive
    /\ alive \subseteq retired \cup {sid}
    /\ deleted => turn = "exit" /\ alive \subseteq retired

\* A request is answered in the session of the client or in a replaced one, and
\* not before the agent's reply is heard.
OpenInv ==
    \A r \in Requests :
        /\ open[r] \in retired \cup {0, sid, Done}
        /\ ask[r] \notin {"no", "heard"} => open[r] # Done

SessionInv ==
    /\ TypeOK
    /\ StdinInv /\ HandInv /\ TakenInv /\ ReplyInv
    /\ BodyIntact
    /\ AliveInv /\ OpenInv

-----------------------------------------------------------------------------
(* Lines and sequences *)

LEMMA LineKinds ==
    /\ N \in Nat /\ 0 \notin Lines /\ Requests \subseteq Lines
    /\ Lines \subseteq Nat
    /\ \A r \in Requests : /\ Reply(r) \in Lines \ Requests
                           /\ Reply(r) - N = r
    /\ \A l \in Lines \ Requests : l - N \in Requests /\ Reply(l - N) = l
BY SessionAssumption DEF Lines, Requests, Reply

LEMMA AppendLine ==
    ASSUME NEW S, NEW s \in Seq(S), NEW e \in S
    PROVE  /\ Append(s, e) \in Seq(S)
           /\ Len(s) \in Nat
           /\ Len(Append(s, e)) = Len(s) + 1
           /\ \A k \in 1..Len(s) : s[k] \in S /\ Append(s, e)[k] = s[k]
           /\ Append(s, e)[Len(s) + 1] = e
OBVIOUS

LEMMA TakeLine ==
    ASSUME NEW S, NEW s \in Seq(S), s # <<>>
    PROVE  /\ Tail(s) \in Seq(S)
           /\ Len(s) \in Nat \ {0}
           /\ Head(s) = s[1] /\ Head(s) \in S
           /\ Len(Tail(s)) = Len(s) - 1
           /\ \A k \in 1..Len(Tail(s)) : Tail(s)[k] = s[k + 1]
OBVIOUS

\* What is written stays written.
LEMMA WrittenStays ==
    ASSUME TypeOK, asked' \in Nat, asked <= asked',
           \A r \in Requests : ask[r] \notin {"no", "asked"} =>
                               ask'[r] \notin {"no", "asked"},
           NEW l \in Lines
    PROVE  Written(l) => Written(l)'
BY LineKinds DEF Written, TypeOK

-----------------------------------------------------------------------------
(* What becomes of a POST *)

\* The line is posted again after a 401, or Send has failed.
LEMMA UnservedMoves ==
    ASSUME TypeOK, NEW why, Unserved(why)
    PROVE  /\ post' = Nothing /\ retried' \in BOOLEAN
           /\ \/ /\ turn' = "send" /\ why = "401"
                 /\ UNCHANGED <<line, ask>>
              \/ /\ turn' = "read" /\ line' = 0
                 /\ ask' = Lost(post.line)
BY DEF Unserved, Retries, SendFails, BackToReading, TypeOK

LEMMA LostMoves ==
    ASSUME TypeOK, NEW l
    PROVE  /\ Lost(l) \in [Requests -> {"no", "asked", "replied", "heard", "lost"}]
           /\ \A r \in Requests :
                 Lost(l)[r] = IF l = Reply(r) THEN "lost" ELSE ask[r]
BY DEF Lost, TypeOK

\* The line of the POST is in hand, its bytes are in the buffer and it was not
\* taken up before; then readAgent posts it again, waits for the answer to a
\* request, or goes on.  If it is posted again the upstream has not taken it up.
LEMMA ExchangeMoves ==
    ASSUME TypeOK, HandInv, Exchange
    PROVE  /\ turn = "post" /\ line \in Lines /\ buf = line
           /\ post.line = line /\ post.session = sid
           /\ UNCHANGED <<stdin, asked, left, buf, deleted>>
           /\ post' = Nothing
           /\ \/ turn' = "send" /\ line' = line /\ UNCHANGED <<taken, got, ask>>
              \/ turn' = "read" /\ line' = 0
              \/ turn' = "wait" /\ line' = line /\ line \in Requests
           /\ \/ UNCHANGED taken
              \/ taken' = [taken EXCEPT ![line] = @ + 1]
           /\ \/ UNCHANGED got
              \/ got' = [got EXCEPT ![line] = @ \cup {line}]
           /\ early \subseteq early' /\ early' \subseteq early \cup {line}
           /\ \A r \in Requests :
                 \/ ask'[r] = ask[r]
                 \/ line = Reply(r) /\ ask'[r] \in {"heard", "lost"}
           /\ ask' \in [Requests -> {"no", "asked", "replied", "heard", "lost"}]
           /\ retried' \in BOOLEAN
<1> USE DEF agentVars, sessions
<1>0. post # Nothing
  BY DEF Exchange, Unauthorized, Refused, Broken, Served, Accepts
<1>1. /\ turn = "post" /\ line \in Lines /\ buf = line
      /\ post.line = line /\ post.session = sid
  BY <1>0 DEF TypeOK, HandInv
<1>2. \A r \in Requests : ask[r] \in {"no", "asked", "replied", "heard", "lost"}
  BY DEF TypeOK
<1>3. CASE Unauthorized
  <2>1. Unserved("401") /\ UNCHANGED <<stdin, asked, left, buf, deleted, taken,
                                       got, early>>
    BY <1>3 DEF Unauthorized
  <2>2. CASE turn' = "send" /\ UNCHANGED <<line, ask>>
    BY <1>1, <2>1, <2>2, UnservedMoves DEF TypeOK
  <2>3. CASE turn' = "read" /\ line' = 0 /\ ask' = Lost(post.line)
    BY <1>1, <2>1, <2>3, UnservedMoves, LostMoves
  <2> QED
    BY <2>1, <2>2, <2>3, UnservedMoves
<1>4. CASE Refused
  <2>1. UNCHANGED <<stdin, asked, left, buf, deleted, taken, got, early>>
    BY <1>4 DEF Refused
  <2>2. CASE Unserved("refused")
    <3>1. post' = Nothing /\ retried' \in BOOLEAN
          /\ turn' = "read" /\ line' = 0 /\ ask' = Lost(post.line)
      BY <2>2, UnservedMoves
    <3> QED
      BY <1>1, <2>1, <3>1, LostMoves
  <2>3. CASE /\ post.line \in Requests
             /\ post' = Nothing
             /\ turn' = "wait"
             /\ UNCHANGED <<line, retried, ask>>
    BY <1>1, <2>1, <2>3 DEF TypeOK
  <2> QED
    BY <1>4, <2>2, <2>3 DEF Refused
<1>5. CASE Broken
  <2>1. UNCHANGED <<stdin, asked, left, buf, deleted, early>>
    BY <1>5 DEF Broken
  <2>2. post' = Nothing /\ retried' \in BOOLEAN
        /\ turn' = "read" /\ line' = 0 /\ ask' = Lost(post.line)
    BY <1>5, UnservedMoves DEF Broken
  <2>3. /\ \/ UNCHANGED taken
           \/ taken' = [taken EXCEPT ![line] = @ + 1]
        /\ \/ UNCHANGED got
           \/ got' = [got EXCEPT ![line] = @ \cup {line}]
    BY <1>1, <1>5 DEF Broken
  <2> QED
    BY <1>1, <2>1, <2>2, <2>3, LostMoves
<1>6. ASSUME NEW readFirst \in BOOLEAN, Served(readFirst)
      PROVE  /\ UNCHANGED <<stdin, asked, left, buf, deleted>>
             /\ post' = Nothing
             /\ \/ turn' = "read" /\ line' = 0
                \/ turn' = "wait" /\ line' = line /\ line \in Requests
             /\ taken' = [taken EXCEPT ![line] = @ + 1]
             /\ \/ UNCHANGED got
                \/ got' = [got EXCEPT ![line] = @ \cup {line}]
             /\ early \subseteq early' /\ early' \subseteq early \cup {line}
             /\ \A r \in Requests :
                   \/ ask'[r] = ask[r]
                   \/ line = Reply(r) /\ ask'[r] \in {"heard", "lost"}
             /\ ask' \in [Requests -> {"no", "asked", "replied", "heard", "lost"}]
             /\ retried' \in BOOLEAN
  <2>1. ask' = [r \in Requests |-> IF line = Reply(r) THEN "heard" ELSE ask[r]]
    BY <1>1, <1>6 DEF Served
  <2>2. /\ \A r \in Requests :
                   \/ ask'[r] = ask[r]
                   \/ line = Reply(r) /\ ask'[r] \in {"heard", "lost"}
        /\ ask' \in [Requests -> {"no", "asked", "replied", "heard", "lost"}]
    BY <1>2, <2>1
  <2>3. /\ UNCHANGED <<stdin, asked, left, buf, deleted>>
        /\ post' = Nothing
        /\ taken' = [taken EXCEPT ![line] = @ + 1]
        /\ \/ UNCHANGED got
           \/ got' = [got EXCEPT ![line] = @ \cup {line}]
        /\ early \subseteq early' /\ early' \subseteq early \cup {line}
    BY <1>1, <1>6 DEF Served
  <2>4. /\ \/ turn' = "read" /\ line' = 0
           \/ turn' = "wait" /\ line' = line /\ line \in Requests
        /\ retried' \in BOOLEAN
    BY <1>1, <1>6 DEF Served, BackToReading, TypeOK
  <2> QED
    BY <2>2, <2>3, <2>4
<1> QED
  BY <1>1, <1>3, <1>4, <1>5, <1>6 DEF Exchange

\* An answer that is heard names a session, which replaces the one it was posted
\* in; of a session in an answer that is lost the client does not know.
Told ==
    /\ sid' \in Sessions \ {0} /\ issued' \in Sessions
    /\ alive' = alive \cup {sid'}
    /\ retired' = retired \cup ({sid} \ {0})

NotTold ==
    /\ UNCHANGED sid /\ issued' \in Sessions
    /\ \E n \in Sessions \ {0} : /\ alive' = alive \cup {n}
                                /\ retired' = retired \cup {n}

SessionsMove == UNCHANGED <<sid, issued, alive, retired>> \/ Told \/ NotTold

LEMMA IssuesSession ==
    ASSUME TypeOK, NEW named \in Sessions, Issues(named)
    PROVE  /\ named # 0 /\ issued' = named
           /\ alive' = alive \cup {named}
BY DEF Issues, TypeOK, Sessions

LEMMA NamesMoves ==
    ASSUME TypeOK, HandInv, post # Nothing,
           NEW named \in Sessions, NamesSession(named)
    PROVE  /\ UNCHANGED <<sid, issued, alive, retired>> \/ Told
           /\ sid' = IF named = 0 THEN sid ELSE named
<1>1. post.session = sid
  BY DEF TypeOK, HandInv
<1>2. sid' = IF named = 0 THEN sid ELSE named
  BY DEF NamesSession, TakeSession
<1>3. CASE named = 0 /\ UNCHANGED sessions
  BY <1>2, <1>3 DEF sessions
<1>4. CASE Issues(named) /\ retired' = retired \cup ({post.session} \ {0})
  BY <1>1, <1>2, <1>4, IssuesSession DEF Told
<1> QED
  BY <1>2, <1>3, <1>4 DEF NamesSession

LEMMA UntoldMoves ==
    ASSUME TypeOK, Untold
    PROVE  UNCHANGED <<sid, issued, alive, retired>> \/ NotTold
<1>1. UNCHANGED sid
  BY DEF Untold
<1>2. CASE UNCHANGED sessions
  BY <1>1, <1>2 DEF sessions
<1>3. CASE \E named \in Sessions : Issues(named) /\ retired' = retired \cup {named}
  BY <1>1, <1>3, IssuesSession DEF NotTold
<1> QED
  BY <1>2, <1>3 DEF Untold

\* What an exchange does to the sessions; a request that is taken up is answered
\* in the one that is known then.
LEMMA ExchangeSessions ==
    ASSUME TypeOK, HandInv, Exchange
    PROVE  /\ SessionsMove
           /\ sid' \in Sessions /\ issued' \in Sessions
           /\ \A r \in Requests : open'[r] = open[r] \/ open'[r] = sid'
           /\ open' \in [Requests -> Sessions \cup {Done}]
           /\ \A r \in Requests : ask'[r] = "heard" /\ ask[r] # "heard" =>
                 line = Reply(r)
<1>1. post.line = line /\ post.session = sid /\ turn = "post" /\ post # Nothing
  BY ExchangeMoves DEF TypeOK
<1>2. \A r \in Requests : ask'[r] = "heard" /\ ask[r] # "heard" =>
         line = Reply(r)
  BY ExchangeMoves
<1>3. SessionsMove
  <2>1. \/ UNCHANGED <<sid, sessions>>
        \/ \E named \in Sessions : NamesSession(named)
        \/ Untold
    BY DEF Exchange, Unauthorized, Refused, Broken, Served
  <2> QED
    BY <1>1, <2>1, NamesMoves, UntoldMoves DEF SessionsMove, sessions
<1>4. sid' \in Sessions /\ issued' \in Sessions
  BY <1>3 DEF SessionsMove, Told, NotTold, TypeOK
<1>5. CASE Unauthorized \/ Refused \/ Broken
  BY <1>2, <1>3, <1>4, <1>5 DEF Unauthorized, Refused, Broken, TypeOK
<1>6. ASSUME NEW readFirst \in BOOLEAN, Served(readFirst)
      PROVE  /\ \A r \in Requests : open'[r] = open[r] \/ open'[r] = sid'
             /\ open' \in [Requests -> Sessions \cup {Done}]
  <2>1. PICK named \in Sessions :
          /\ NamesSession(named)
          /\ open' = [r \in Requests |-> IF r # post.line THEN open[r]
                                          ELSE IF named = 0 THEN post.session
                                                            ELSE named]
    BY <1>6 DEF Served
  <2>2. sid' = IF named = 0 THEN sid ELSE named
    BY <1>1, <2>1, NamesMoves
  <2>3. \A r \in Requests :
           open'[r] = IF r # post.line THEN open[r] ELSE sid'
    BY <1>1, <2>1, <2>2
  <2>4. open' \in [Requests -> Sessions \cup {Done}]
    BY <1>1, <2>1 DEF TypeOK
  <2> QED
    BY <2>3, <2>4
<1> QED
  BY <1>2, <1>3, <1>4, <1>5, <1>6 DEF Exchange

-----------------------------------------------------------------------------
(* Every step preserves SessionInv *)

LEMMA SessionInit == Init => SessionInv
<1> SUFFICES ASSUME Init PROVE SessionInv
  OBVIOUS
<1>1. TypeOK
  <2>1. 0 \in Sessions /\ 0 \in 0..N /\ 0 \in 0..(2 * N) /\ 0 \in 0..2
    BY SessionAssumption DEF Sessions
  <2>2. /\ taken \in [Lines -> 0..2] /\ got \in [Lines -> SUBSET Lines]
        /\ open \in [Requests -> Sessions \cup {Done}]
        /\ ask \in [Requests -> {"no", "asked", "replied", "heard", "lost"}]
    BY <2>1 DEF Init
  <2>3. stdin \in Seq(Lines)
    BY DEF Init
  <2>4. post \in [line : 0..(2 * N), session : Sessions]
    BY <2>1 DEF Init, Nothing
  <2> QED
    BY <2>1, <2>2, <2>3, <2>4 DEF Init, TypeOK
<1>2. StdinInv /\ HandInv /\ TakenInv /\ ReplyInv /\ BodyIntact
  BY LineKinds
     DEF Init, StdinInv, Waits, HandInv, TakenInv, ReplyInv, BodyIntact
<1>3. AliveInv /\ OpenInv
  BY DEF Init, AliveInv, OpenInv
<1> QED
  BY <1>1, <1>2, <1>3 DEF SessionInv

\* What is added to the count of a line is the first.
LEMMA TypeStep ==
    ASSUME TypeOK, StdinInv, HandInv, [Next]_vars
    PROVE  TypeOK'
<1> USE DEF TypeOK, agentVars, clientVars, sessions, serverVars
<1>0. Nothing = [line |-> 0, session |-> 0] /\ 0 \in Sessions /\ 0 \in 0..(2 * N)
  BY SessionAssumption DEF Nothing, Sessions
<1>1. CASE Writes
  <2>1. asked' \in 0..N /\ asked' \in Lines
    BY <1>1, SessionAssumption DEF Writes, Lines
  <2>2. stdin' \in Seq(Lines)
    BY <1>1, <2>1, AppendLine DEF Writes
  <2> QED
    BY <1>1, <2>1, <2>2 DEF Writes
<1>2. CASE \E r \in Requests : Replies(r)
  <2>1. PICK r \in Requests : Replies(r)
    BY <1>2
  <2>2. stdin' \in Seq(Lines)
    BY <2>1, LineKinds, AppendLine DEF Replies
  <2> QED
    BY <2>1, <2>2 DEF Replies
<1>3. CASE Leaves
  BY <1>3 DEF Leaves
<1>4. CASE ReadLine
  <2>1. stdin' \in Seq(Lines) /\ line' \in Lines /\ buf' = line'
    BY <1>4, TakeLine DEF ReadLine
  <2>2. line' \in 0..(2 * N)
    BY <2>1 DEF Lines
  <2> QED
    BY <1>4, <2>1, <2>2 DEF ReadLine
<1>5. CASE DoPost
  <2>1. line \in Lines /\ turn' = "post"
    BY <1>5 DEF DoPost, HandInv, Posting
  <2>2. /\ post' = [line |-> line, session |-> sid]
        /\ UNCHANGED <<stdin, asked, left, line, buf, retried, sid, issued, alive,
                       retired, taken, got, early, open, ask, deleted>>
    BY <1>5 DEF DoPost
  <2>3. post'.line # Nothing.line
    BY <2>1, <2>2, <1>0, LineKinds
  <2>4. post' # Nothing /\ post' \in [line : 0..(2 * N), session : Sessions]
    BY <2>2, <2>3
  <2> QED
    BY <2>1, <2>2, <2>4
<1>6. CASE NoToken
  <2>1. /\ post' = Nothing /\ turn' = "read" /\ line' = 0 /\ retried' = FALSE
        /\ ask' = Lost(line)
    BY <1>6 DEF NoToken, SendFails, BackToReading
  <2>2. ask' \in [Requests -> {"no", "asked", "replied", "heard", "lost"}]
    BY <2>1, LostMoves
  <2> QED
    BY <1>0, <1>6, <2>1, <2>2 DEF NoToken
<1>7. CASE Exchange
  <2>1. /\ post' = Nothing /\ turn' \in {"read", "send", "wait"}
        /\ line' \in {0, line} /\ retried' \in BOOLEAN
        /\ UNCHANGED <<stdin, asked, left, buf, deleted>>
        /\ ask' \in [Requests -> {"no", "asked", "replied", "heard", "lost"}]
    BY <1>7, ExchangeMoves
  <2>2. taken' \in [Lines -> 0..2]
    <3>1. line \in Lines /\ taken[line] = 0
      BY <1>7, ExchangeMoves DEF HandInv
    <3> QED
      BY <1>7, <3>1, ExchangeMoves
  <2>3. got' \in [Lines -> SUBSET Lines] /\ early' \subseteq Lines
    BY <1>7, ExchangeMoves
  <2>4. /\ sid' \in Sessions /\ issued' \in Sessions
        /\ open' \in [Requests -> Sessions \cup {Done}]
        /\ SessionsMove
    BY <1>7, ExchangeSessions
  <2>5. alive' \subseteq Sessions /\ retired' \subseteq Sessions
    BY <2>4 DEF SessionsMove, Told, NotTold
  <2> QED
    BY <1>0, <2>1, <2>2, <2>3, <2>4, <2>5
<1>8. CASE Expire \/ Close
  BY <1>0, <1>8 DEF Expire, BackToReading, Close
<1>9. CASE Delete
  BY <1>9 DEF Delete
<1>10. CASE \E r \in Requests : Asks(r)
  BY <1>10 DEF Asks
<1>11. CASE \E r \in Requests : Answers(r)
  BY <1>0, <1>11 DEF Answers, BackToReading
<1>12. CASE \E l \in Lines : ReadsBody(l)
  <2>1. PICK l \in Lines : ReadsBody(l)
    BY <1>12
  <2>2. buf \in Lines
    BY <2>1 DEF ReadsBody, HandInv
  <2> QED
    BY <2>1, <2>2 DEF ReadsBody
<1>13. CASE \E s \in alive : Forgets(s)
  BY <1>13 DEF Forgets
<1>14. CASE UNCHANGED vars
  BY <1>14 DEF vars
<1> QED
  BY <1>1, <1>2, <1>3, <1>4, <1>5, <1>6, <1>7, <1>8, <1>9, <1>10, <1>11, <1>12,
     <1>13, <1>14 DEF Next, Terminated

\* No line is unwritten, whatever the step.
LEMMA WrittenStep ==
    ASSUME TypeOK, HandInv, [Next]_vars, NEW l \in Lines
    PROVE  Written(l) => Written(l)'
<1> USE DEF agentVars, clientVars, sessions, serverVars
<1>1. asked' \in Nat /\ asked <= asked'
  <2>1. asked' = asked \/ asked' = asked + 1
    <3>1. CASE Exchange
      BY <3>1, ExchangeMoves
    <3> QED
      BY <3>1
         DEF Next, Terminated, vars, Writes, Replies, Leaves, ReadLine, DoPost,
             NoToken, Expire, Close, Delete, Asks, Answers, ReadsBody, Forgets
  <2> QED
    BY <2>1, SessionAssumption DEF TypeOK
<1>2. \A r \in Requests : ask[r] \notin {"no", "asked"} =>
                          ask'[r] \notin {"no", "asked"}
  <2>1. CASE Exchange
    BY <2>1, ExchangeMoves
  <2>2. CASE NoToken
    BY <2>2, LostMoves DEF NoToken, SendFails
  <2>3. CASE \E r \in Requests : Replies(r) \/ Asks(r)
    BY <2>3 DEF Replies, Asks, TypeOK
  <2>4. CASE UNCHANGED ask
    BY <2>4
  <2> QED
    BY <2>1, <2>2, <2>3, <2>4
       DEF Next, Terminated, vars, Writes, Leaves, ReadLine, DoPost, Expire,
           Close, Delete, Answers, ReadsBody, Forgets
<1> QED
  BY <1>1, <1>2, WrittenStays

LinesInv == StdinInv /\ HandInv /\ TakenInv

\* The agent writes a line it has not written before.
LEMMA NewLine ==
    ASSUME TypeOK, LinesInv, NEW l \in Lines, ~Written(l), Written(l)',
           \A k \in Lines : Written(k) => Written(k)',
           stdin' = Append(stdin, l),
           UNCHANGED <<turn, line, buf, post, sid, taken, early>>
    PROVE  LinesInv'
<1> USE DEF LinesInv
<1>1. /\ Len(stdin) \in Nat /\ Len(stdin') = Len(stdin) + 1
      /\ \A k \in 1..Len(stdin) : stdin[k] \in Lines /\ stdin'[k] = stdin[k]
      /\ stdin'[Len(stdin) + 1] = l
  BY AppendLine DEF TypeOK
<1>2. taken[l] = 0 /\ l # line
  BY DEF TakenInv, HandInv
<1>3. ~Waits(l)
  BY DEF StdinInv
<1>4. \A k \in Lines : Waits(k)' <=> Waits(k) \/ k = l
  BY <1>1 DEF Waits
<1>5. StdinInv'
  <2>1. \A j, k \in 1..Len(stdin') : stdin'[j] = stdin'[k] => j = k
    BY <1>1, <1>3 DEF StdinInv, Waits
  <2> QED
    BY <1>2, <1>4, <2>1 DEF StdinInv
<1>6. HandInv' /\ TakenInv'
  BY DEF HandInv, TakenInv
<1> QED
  BY <1>5, <1>6

LEMMA LinesStep ==
    ASSUME TypeOK, LinesInv, [Next]_vars
    PROVE  LinesInv'
<1> USE DEF LinesInv, agentVars, clientVars, sessions, serverVars
<1>0. \A l \in Lines : Written(l) => Written(l)'
  BY WrittenStep
<1>w. UNCHANGED stdin => \A l : Waits(l)' <=> Waits(l)
  BY DEF Waits
\* Steps that leave the lines where they are.
<1>q. ASSUME UNCHANGED <<stdin, taken>>,
             \/ UNCHANGED <<turn, line, buf, post, sid, early>>
             \/ /\ UNCHANGED <<buf, early>>
                /\ line' = 0 /\ turn' \in {"read", "close", "exit"}
      PROVE  LinesInv'
  <2>1. StdinInv'
    BY <1>0, <1>w, <1>q, LineKinds DEF StdinInv
  <2>2. HandInv' /\ TakenInv'
    BY <1>0, <1>q, LineKinds DEF HandInv, TakenInv
  <2> QED
    BY <2>1, <2>2
<1>1. CASE Writes
  <2>1. asked' \in Lines /\ asked' \in Requests /\ asked' = asked + 1
        /\ asked \in Nat /\ asked' \in Nat
    BY <1>1, SessionAssumption DEF Writes, Lines, Requests, TypeOK
  <2> PICK l \in Lines : l = asked'
    BY <2>1
  <2>2. ~Written(l) /\ Written(l)'
    BY <2>1 DEF Written
  <2>3. /\ stdin' = Append(stdin, l)
        /\ UNCHANGED <<turn, line, buf, post, sid, taken, early>>
    BY <1>1 DEF Writes
  <2> QED
    BY <1>0, <2>2, <2>3, NewLine
<1>2. CASE \E r \in Requests : Replies(r)
  <2>1. PICK r \in Requests : Replies(r)
    BY <1>2
  <2>2. Reply(r) \in Lines \ Requests /\ Reply(r) - N = r
    BY LineKinds
  <2> PICK l \in Lines : l = Reply(r)
    BY <2>2
  <2>3. ask[r] = "asked" /\ ask'[r] = "replied"
    BY <2>1 DEF Replies, TypeOK
  <2>4. ~Written(l) /\ Written(l)'
    BY <2>2, <2>3 DEF Written
  <2>5. /\ stdin' = Append(stdin, l)
        /\ UNCHANGED <<turn, line, buf, post, sid, taken, early>>
    BY <2>1 DEF Replies
  <2> QED
    BY <1>0, <2>4, <2>5, NewLine
<1>3. CASE ReadLine
  <2>1. /\ turn = "read" /\ turn' = "send" /\ stdin # <<>>
        /\ line' = Head(stdin) /\ buf' = Head(stdin) /\ stdin' = Tail(stdin)
        /\ UNCHANGED <<taken, early, post, sid>>
    BY <1>3 DEF ReadLine
  <2>2. /\ Len(stdin) \in Nat \ {0} /\ Len(stdin') = Len(stdin) - 1
        /\ line' = stdin[1] /\ line' \in Lines
        /\ \A k \in 1..Len(stdin') : stdin'[k] = stdin[k + 1]
    BY <2>1, TakeLine DEF TypeOK
  <2>3. Waits(line')
    BY <2>2 DEF Waits
  <2>4. taken[line'] = 0 /\ Written(line')
    BY <2>2, <2>3 DEF StdinInv
  <2>5. \A l \in Lines : Waits(l)' => Waits(l) /\ l # line'
    BY <2>2 DEF Waits, StdinInv
  <2>6. StdinInv'
    <3>1. \A j, k \in 1..Len(stdin') : stdin'[j] = stdin'[k] => j = k
      BY <2>2 DEF StdinInv
    <3> QED
      BY <1>0, <2>1, <2>5, <3>1 DEF StdinInv
  <2>7. HandInv'
    <3> PICK l \in Lines : l = line'
      BY <2>2
    <3>1. taken[l] = 0 /\ Written(l)'
      BY <1>0, <2>4
    <3>2. Written(line)'
      BY <3>1 DEF Written
    <3> QED
      BY <2>1, <2>2, <3>1, <3>2 DEF HandInv
  <2>8. TakenInv'
    BY <1>0, <2>1 DEF TakenInv
  <2> QED
    BY <2>6, <2>7, <2>8
<1>4. CASE DoPost
  <2>1. /\ turn = "send" /\ turn' = "post"
        /\ post' = [line |-> line, session |-> sid]
        /\ UNCHANGED <<stdin, line, buf, sid, taken, early, ask, asked>>
    BY <1>4 DEF DoPost, Posting
  <2>2. StdinInv'
    BY <1>0, <1>w, <2>1 DEF StdinInv
  <2>3. HandInv'
    BY <2>1 DEF HandInv, Written
  <2>4. TakenInv'
    BY <1>0, <2>1 DEF TakenInv
  <2> QED
    BY <2>2, <2>3, <2>4
<1>5. CASE NoToken
  BY <1>5, <1>q DEF NoToken, SendFails, BackToReading
<1>6. CASE Exchange
  <2> PICK m \in Lines : m = line
    BY <1>6, ExchangeMoves
  <2>1. /\ turn = "post" /\ buf = m /\ taken[m] = 0 /\ Written(m)
        /\ UNCHANGED <<stdin, buf>> /\ post' = Nothing
        /\ \/ turn' = "send" /\ line' = m /\ UNCHANGED taken
           \/ turn' = "read" /\ line' = 0
           \/ turn' = "wait" /\ line' = m /\ m \in Requests
        /\ UNCHANGED taken \/ taken' = [taken EXCEPT ![m] = @ + 1]
    BY <1>6, ExchangeMoves DEF HandInv
  <2>2. \A l \in Lines : taken'[l] = taken[l] \/ (l = m /\ taken'[l] = 1)
    <3>1. CASE taken' = [taken EXCEPT ![m] = @ + 1]
      <4>1. \A l \in Lines : taken'[l] = IF l = m THEN taken[m] + 1 ELSE taken[l]
        BY <3>1 DEF TypeOK
      <4> QED
        BY <2>1, <4>1
    <3> QED
      BY <2>1, <3>1
  <2>3. StdinInv'
    <3>1. ~Waits(m)
      BY DEF StdinInv
    <3>2. 0 \notin Lines
      BY LineKinds
    <3>3. \A l \in Lines : Waits(l)' =>
             taken'[l] = 0 /\ Written(l)' /\ l # line'
      BY <1>0, <1>w, <2>1, <2>2, <3>1, <3>2 DEF StdinInv
    <3>4. \A j, k \in 1..Len(stdin') : stdin'[j] = stdin'[k] => j = k
      BY <2>1 DEF StdinInv
    <3> QED
      BY <3>3, <3>4 DEF StdinInv
  <2>4. HandInv'
    <3>1. Written(m)'
      BY <1>0, <2>1
    <3>2. line' = m => Written(line)'
      BY <3>1 DEF Written
    <3> QED
      BY <2>1, <3>2, LineKinds DEF HandInv
  <2>5. TakenInv'
    BY <1>0, <2>1, <2>2 DEF TakenInv
  <2> QED
    BY <2>3, <2>4, <2>5
<1>7. CASE Expire
  BY <1>7, <1>q DEF Expire, BackToReading
<1>8. CASE Close \/ Delete
  BY <1>8, <1>q DEF Close, Delete, HandInv
<1>9. CASE \E r \in Requests : Answers(r)
  BY <1>9, <1>q DEF Answers, BackToReading
<1>10. CASE \/ Leaves
            \/ \E r \in Requests : Asks(r)
            \/ \E l \in Lines : ReadsBody(l)
            \/ \E s \in alive : Forgets(s)
            \/ UNCHANGED vars
  BY <1>10, <1>q DEF Leaves, Asks, ReadsBody, Forgets, vars
<1> QED
  BY <1>1, <1>2, <1>3, <1>4, <1>5, <1>6, <1>7, <1>8, <1>9, <1>10
     DEF Next, Terminated

LEMMA ReplyStep ==
    ASSUME TypeOK, LinesInv, ReplyInv, [Next]_vars
    PROVE  ReplyInv'
<1> USE DEF LinesInv, agentVars, clientVars, sessions, serverVars
<1>0. \A r \in Requests : Reply(r) \in Lines \ Requests /\ Reply(r) # 0
  BY LineKinds
<1>w. UNCHANGED stdin => \A l : Waits(l)' <=> Waits(l)
  BY DEF Waits
<1>1. CASE Writes \/ \E r \in Requests : Replies(r)
  <2>1. PICK l \in Lines : /\ stdin' = Append(stdin, l) /\ UNCHANGED line
                           /\ \A r \in Requests :
                                 \/ Replies(r) /\ l = Reply(r)
                                 \/ ask'[r] = ask[r] /\ l # Reply(r)
    <3>1. CASE Writes
      <4>1. asked' \in Lines /\ asked' \in Requests
        BY <3>1, SessionAssumption DEF Writes, Lines, Requests, TypeOK
      <4> QED
        BY <1>0, <3>1, <4>1 DEF Writes
    <3>2. CASE \E r \in Requests : Replies(r)
      <4>1. PICK q \in Requests : Replies(q)
        BY <3>2
      <4>2. \A r \in Requests : r # q => ask'[r] = ask[r] /\ Reply(r) # Reply(q)
        BY <4>1, LineKinds DEF Replies, TypeOK
      <4>3. stdin' = Append(stdin, Reply(q)) /\ UNCHANGED line
        BY <4>1 DEF Replies
      <4> QED
        BY <1>0, <4>1, <4>2, <4>3
    <3> QED
      BY <1>1, <3>1, <3>2
  <2>2. \A k : Waits(k)' <=> Waits(k) \/ k = l
    <3>1. /\ Len(stdin) \in Nat /\ Len(stdin') = Len(stdin) + 1
          /\ \A k \in 1..Len(stdin) : stdin'[k] = stdin[k]
          /\ stdin'[Len(stdin) + 1] = l
      BY <2>1, AppendLine DEF TypeOK
    <3> QED
      BY <3>1 DEF Waits
  <2>3. \A r \in Requests : Replies(r) => ask'[r] = "replied"
    BY DEF Replies, TypeOK
  <2> QED
    BY <2>1, <2>2, <2>3 DEF ReplyInv
<1>2. CASE ReadLine
  <2>1. /\ line' = stdin[1] /\ UNCHANGED ask
        /\ Len(stdin) \in Nat \ {0} /\ Len(stdin') = Len(stdin) - 1
        /\ \A k \in 1..Len(stdin') : stdin'[k] = stdin[k + 1]
    BY <1>2, TakeLine DEF ReadLine, TypeOK
  <2>2. \A l : Waits(l)' \/ line' = l => Waits(l)
    BY <2>1 DEF Waits
  <2> QED
    BY <2>1, <2>2 DEF ReplyInv
<1>3. CASE NoToken
  <2>1. /\ turn = "send" /\ line' = 0 /\ ask' = Lost(line) /\ UNCHANGED stdin
        /\ line \in Lines
    BY <1>3 DEF NoToken, SendFails, BackToReading, HandInv
  <2>2. ~Waits(line)
    BY <2>1 DEF StdinInv
  <2> QED
    BY <1>0, <1>w, <2>1, <2>2, LostMoves DEF ReplyInv
<1>4. CASE Exchange
  <2>1. /\ line \in Lines /\ UNCHANGED stdin
        /\ \/ line' = line /\ UNCHANGED ask
           \/ line' = 0
           \/ line' = line /\ line \in Requests
        /\ \A r \in Requests : ask'[r] = ask[r] \/ line = Reply(r)
    BY <1>4, ExchangeMoves
  <2>2. ~Waits(line)
    BY <2>1 DEF StdinInv
  <2> QED
    BY <1>0, <1>w, <2>1, <2>2 DEF ReplyInv
<1>5. CASE \E r \in Requests : Asks(r)
  <2>1. PICK q \in Requests : Asks(q)
    BY <1>5
  <2>2. \A r \in Requests : r # q => ask'[r] = ask[r]
    BY <2>1 DEF Asks, TypeOK
  <2> QED
    BY <1>w, <2>1, <2>2 DEF Asks, ReplyInv
<1>6. CASE UNCHANGED <<stdin, ask>> /\ line' \in {0, line}
  BY <1>0, <1>w, <1>6 DEF ReplyInv
<1> QED
  BY <1>1, <1>2, <1>3, <1>4, <1>5, <1>6
     DEF Next, Terminated, vars, Leaves, DoPost, Expire, BackToReading, Close,
         Delete, Answers, ReadsBody, Forgets

LEMMA BodyStep ==
    ASSUME TypeOK, LinesInv, BodyIntact, [Next]_vars
    PROVE  BodyIntact'
<1> USE DEF TypeOK, LinesInv, agentVars, clientVars, sessions, serverVars
<1>1. CASE Exchange
  <2>1. line \in Lines /\ early \subseteq early'
        /\ (UNCHANGED got \/ got' = [got EXCEPT ![line] = @ \cup {line}])
    BY <1>1, ExchangeMoves
  <2>2. \A l \in Lines : got'[l] = got[l] \/ (l = line /\ got'[l] = got[l] \cup {l})
    BY <2>1
  <2> QED
    BY <2>1, <2>2 DEF BodyIntact
<1>2. CASE \E l \in Lines : ReadsBody(l)
  <2>1. PICK l \in Lines : ReadsBody(l)
    BY <1>2
  <2>2. \A k \in Lines \ early : got'[k] = got[k]
    BY <2>1 DEF ReadsBody
  <2> QED
    BY <2>1, <2>2 DEF ReadsBody, BodyIntact
<1>3. CASE UNCHANGED <<got, early>>
  BY <1>3 DEF BodyIntact
<1> QED
  BY <1>1, <1>2, <1>3
     DEF Next, Terminated, vars, Writes, Replies, Leaves, ReadLine, DoPost,
         NoToken, Expire, Close, Delete, Asks, Answers, Forgets

LEMMA AliveStep ==
    ASSUME TypeOK, LinesInv, AliveInv, [Next]_vars
    PROVE  AliveInv'
<1> USE DEF TypeOK, LinesInv, agentVars, clientVars, sessions, serverVars, AliveInv
<1>1. CASE Exchange
  <2>1. turn = "post" /\ deleted' = deleted
    BY <1>1, ExchangeMoves
  <2>2. CASE UNCHANGED <<sid, issued, alive, retired>>
    BY <2>1, <2>2
  <2>3. CASE Told
    BY <2>1, <2>3 DEF Told
  <2>4. CASE NotTold
    BY <2>1, <2>4 DEF NotTold
  <2> QED
    BY <1>1, <2>2, <2>3, <2>4, ExchangeSessions DEF SessionsMove
<1>2. CASE Delete
  BY <1>2 DEF Delete
<1>3. CASE \E s \in alive : Forgets(s)
  BY <1>3 DEF Forgets
<1>4. CASE UNCHANGED <<sid, alive, retired, deleted>> /\ (turn = "exit" => turn' = "exit")
  BY <1>4
<1> QED
  BY <1>1, <1>2, <1>3, <1>4
     DEF Next, Terminated, vars, Writes, Replies, Leaves, ReadLine, DoPost,
         NoToken, SendFails, BackToReading, Expire, Close, Asks, Answers,
         ReadsBody

\* The upstream answers no request before the reply it asked for is heard.
LEMMA OpenStep ==
    ASSUME TypeOK, LinesInv, ReplyInv, OpenInv, [Next]_vars
    PROVE  OpenInv'
<1> USE DEF TypeOK, LinesInv, agentVars, clientVars, sessions, serverVars, OpenInv
<1>0. \A s \in Sessions : s # Done
  BY SessionAssumption DEF Sessions, Done
<1>1. CASE Exchange
  <2>1. \A r \in Requests :
           /\ open'[r] = open[r] \/ open'[r] = sid'
           /\ \/ ask'[r] = ask[r]
              \/ line = Reply(r) /\ ask'[r] \in {"heard", "lost"}
    BY <1>1, ExchangeMoves, ExchangeSessions
  <2>2. /\ retired \subseteq retired'
        /\ sid \in retired' \cup {0, sid'}
    BY <1>1, ExchangeSessions DEF SessionsMove, Told, NotTold
  <2>3. sid' \in Sessions
    BY <1>1, ExchangeSessions
  <2>4. \A r \in Requests : line = Reply(r) => ask[r] = "replied"
    BY DEF ReplyInv
  <2>5. ASSUME NEW r \in Requests
        PROVE  /\ open'[r] \in retired' \cup {0, sid', Done}
               /\ ask'[r] \notin {"no", "heard"} => open'[r] # Done
    <3>1. open'[r] \in retired' \cup {0, sid', Done}
      BY <2>1, <2>2
    <3>2. open'[r] = open[r] \/ open'[r] # Done
      BY <1>0, <2>1, <2>3
    <3>3. ASSUME ask'[r] \notin {"no", "heard"}, open'[r] = open[r]
          PROVE  open[r] # Done
      BY <2>1, <2>4, <3>3
    <3> QED
      BY <3>1, <3>2, <3>3
  <2> QED
    BY <2>5
<1>2. CASE NoToken
  <2>1. turn = "send" /\ ask' = Lost(line) /\ UNCHANGED <<sid, retired, open>>
    BY <1>2 DEF NoToken, SendFails
  <2>2. \A r \in Requests :
           ask'[r] = ask[r] \/ (ask'[r] = "lost" /\ ask[r] = "replied")
    BY <2>1, LostMoves DEF ReplyInv
  <2> QED
    BY <2>1, <2>2
<1>3. CASE \E r \in Requests : Replies(r)
  BY <1>3 DEF Replies
<1>4. CASE \E r \in Requests : Asks(r)
  BY <1>4 DEF Asks
<1>5. CASE \E r \in Requests : Answers(r)
  BY <1>5 DEF Answers
<1>6. CASE UNCHANGED <<sid, retired, open, ask>>
  BY <1>6
<1> QED
  BY <1>1, <1>2, <1>3, <1>4, <1>5, <1>6
     DEF Next, Terminated, vars, Writes, Leaves, ReadLine, DoPost, Expire,
         Close, Delete, ReadsBody, Forgets

LEMMA SessionStep == SessionInv /\ [Next]_vars => SessionInv'
<1> SUFFICES ASSUME SessionInv, [Next]_vars PROVE SessionInv'
  OBVIOUS
<1>1. /\ TypeOK /\ LinesInv /\ ReplyInv /\ BodyIntact /\ AliveInv /\ OpenInv
      /\ StdinInv /\ HandInv
  BY DEF SessionInv, LinesInv
<1>2. TypeOK' /\ LinesInv'
  BY <1>1, TypeStep, LinesStep
<1>3. ReplyInv' /\ BodyIntact' /\ AliveInv' /\ OpenInv'
  BY <1>1, ReplyStep, BodyStep, AliveStep, OpenStep
<1> QED
  BY <1>2, <1>3 DEF SessionInv, LinesInv

-----------------------------------------------------------------------------
(* Theorems *)

\* TypeOK holds in every state: among others, a POST is on its way exactly
\* while readAgent is in Send.
THEOREM TypesHold == Spec => []TypeOK
<1>1. SessionInv => TypeOK
  BY DEF SessionInv
<1> QED
  BY <1>1, SessionInit, SessionStep, PTL DEF Spec

\* The one retry of Send repeats nothing the upstream has done: no line of the
\* agent is taken up twice, however the POSTs end.
THEOREM LinesServedOnce == Spec => []ServedOnce
<1>1. SessionInv => ServedOnce
  BY DEF SessionInv, TakenInv, ServedOnce
<1> QED
  BY <1>1, SessionInit, SessionStep, PTL DEF Spec

\* The upstream reads the bytes the agent wrote, although the scanner's buffer
\* is handed to net/http as it is, but where it answered a line before it read
\* it.
THEOREM BodiesIntact == Spec => []BodyIntact
<1>1. SessionInv => BodyIntact
  BY DEF SessionInv
<1> QED
  BY <1>1, SessionInit, SessionStep, PTL DEF Spec

\* The DELETE of Close, once accepted, leaves no session but those the client
\* had replaced or was never told of; and a client that knows of no session
\* leaves no other either, although sessions are handed out in answers that are
\* lost, in error answers and in bodies that break off.
THEOREM NothingLeftBehind == Spec => []NoSessionLeft
<1>1. SessionInv => NoSessionLeft
  BY DEF SessionInv, AliveInv, NoSessionLeft
<1> QED
  BY <1>1, SessionInit, SessionStep, PTL DEF Spec

\* The agent's reply to a question of the upstream is heard in the session of
\* the question, or that session has been replaced.
THEOREM RepliesKeepSession == Spec => RepliesInSession
<1>1. SessionInv /\ [Next]_vars =>
         [\A r \in Requests : (ask[r] # "heard" /\ ask'[r] = "heard") =>
            post.session = open[r] \/ open[r] \in retired \cup {0}]_vars
  <2> SUFFICES ASSUME SessionInv, [Next]_vars, NEW r \in Requests,
                      ask[r] # "heard", ask'[r] = "heard"
               PROVE  post.session = open[r] \/ open[r] \in retired \cup {0}
    OBVIOUS
  <2>1. TypeOK /\ HandInv /\ ReplyInv /\ OpenInv
    BY DEF SessionInv
  <2>2. Exchange
    <3>1. ~NoToken
      <4>1. NoToken => ask' = Lost(line)
        BY DEF NoToken, SendFails
      <4> QED
        BY <2>1, <4>1, LostMoves
    <3>2. \A q \in Requests : ~Replies(q) /\ ~Asks(q)
      BY <2>1 DEF Replies, Asks, TypeOK
    <3>3. ask' # ask
      OBVIOUS
    <3> QED
      BY <3>1, <3>2, <3>3
         DEF Next, Terminated, vars, serverVars, Writes, Leaves, ReadLine,
             DoPost, Expire, Close, Delete, Answers, ReadsBody, Forgets
  <2>3. line = Reply(r) /\ post.session = sid
    BY <2>1, <2>2, ExchangeSessions, ExchangeMoves
  <2>4. ask[r] = "replied"
    BY <2>1, <2>3 DEF ReplyInv
  <2> QED
    BY <2>1, <2>3, <2>4 DEF OpenInv
<1> QED
  BY <1>1, SessionInit, SessionStep, PTL DEF Spec, RepliesInSession
=============================================================================
