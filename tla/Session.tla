------------------------------- MODULE Session -------------------------------
(***************************************************************************)
(* One conversation with the upstream, end to end: the agent's lines, Send *)
(* (internal/transport/sse.go) as readAgent (internal/proxy/proxy.go) calls*)
(* it, the session id, the retry after a 401, what the upstream asks the   *)
(* agent before it answers, and Close.                                     *)
(*                                                                         *)
(* readAgent is serial: it reads no line while Send or a request's wait    *)
(* lasts, and every line stands behind the ones the agent wrote before.  A *)
(* line is handed to net/http in the scanner's own buffer, which the next  *)
(* read overwrites (at the latest when the buffer has been used up).       *)
(*                                                                         *)
(* Abstractions.  The queue between the consumers and readUpstream is in   *)
(* Proxy: here a message of the upstream arrives when it is sent.  Which   *)
(* token a request carries is in TokenStore: here any POST may be answered  *)
(* with a 401.  A session is the number under which the upstream handed it *)
(* out, 0 is the empty id.                                                 *)
(***************************************************************************)
EXTENDS Naturals, Sequences

CONSTANTS N,           \* the agent's requests
          MaxSessions  \* bound: sessions the upstream hands out

ASSUME SessionAssumption == N \in Nat \ {0} /\ MaxSessions \in Nat \ {0}

Requests == 1..N
Reply(r) == N + r          \* the agent's reply to what was asked during r
Lines    == 1..(2 * N)
Sessions == 0..MaxSessions

Nothing == [line |-> 0, session |-> 0]
Done    == MaxSessions + 1

VARIABLES
    stdin,     \* lines written by the agent and not read yet
    asked,     \* requests the agent has written
    left,      \* the agent has closed its end
    turn,      \* where readAgent is
    line,      \* the line it has in hand
    buf,       \* the line whose bytes the scanner's buffer holds
    post,      \* the POST the upstream has not answered
    retried,   \* this line has used its one retry
    sid,       \* sseClientTransport.sessionID
    issued,    \* sessions the upstream has handed out
    alive,     \* the sessions it knows
    retired,   \* sessions the client replaced by a newer one, or was not told of
    taken,     \* taken[l]: how often the upstream took up line l
    got,       \* got[l]: the lines whose bytes it read as the body of l
    early,     \* the lines it answered before it had read their body
    open,      \* the session in which it still has to answer a request, or Done
    ask,       \* its question to the agent in the course of a request
    deleted    \* the DELETE was accepted

agentVars  == <<stdin, asked, left>>
clientVars == <<turn, line, buf, post, retried, sid>>
sessions   == <<issued, alive, retired>>
serverVars == <<sessions, taken, got, early, open, ask>>
vars == <<agentVars, clientVars, serverVars, deleted>>

Init ==
    /\ stdin = <<>> /\ asked = 0 /\ left = FALSE
    /\ turn = "read" /\ line = 0 /\ buf = 0 /\ post = Nothing
    /\ retried = FALSE
    /\ sid = 0
    /\ issued = 0 /\ alive = {} /\ retired = {}
    /\ taken = [l \in Lines |-> 0]
    /\ got = [l \in Lines |-> {}]
    /\ early = {}
    /\ open = [r \in Requests |-> Done]
    /\ ask = [r \in Requests |-> "no"]
    /\ deleted = FALSE

-----------------------------------------------------------------------------
(* The agent *)

Writes ==
    /\ ~left /\ asked < N
    /\ asked' = asked + 1
    /\ stdin' = Append(stdin, asked')
    /\ UNCHANGED <<left, clientVars, serverVars, deleted>>

Replies(r) ==
    /\ ~left /\ ask[r] = "asked"
    /\ ask' = [ask EXCEPT ![r] = "replied"]
    /\ stdin' = Append(stdin, Reply(r))
    /\ UNCHANGED <<asked, left, clientVars, sessions, taken, got, early,
                   open, deleted>>

Leaves ==
    /\ ~left
    /\ left' = TRUE
    /\ UNCHANGED <<stdin, asked, clientVars, serverVars, deleted>>

-----------------------------------------------------------------------------
(* readAgent and Send *)

\* Done with the line: its answer is written, or its failure.
BackToReading == turn' = "read" /\ line' = 0 /\ retried' = FALSE

ReadLine ==
    /\ turn = "read" /\ stdin # <<>>
    /\ line' = Head(stdin)
    /\ buf' = Head(stdin)
    /\ stdin' = Tail(stdin)
    /\ turn' = "send"
    /\ UNCHANGED <<asked, left, post, retried, sid, serverVars, deleted>>

\* Mutant: what is no request is sent without waiting for the upstream.
Posting_Forgets(l) == IF l \in Requests THEN "post" ELSE "read"

\* Send returns when the upstream has answered.
Posting(l) == "post"

\* doPost: the session id is the one that is known now.
DoPost ==
    /\ turn = "send" /\ post = Nothing
    /\ post' = [line |-> line, session |-> sid]
    /\ turn' = Posting(line)
    /\ UNCHANGED <<agentVars, line, buf, retried, sid, serverVars, deleted>>

Lost(l) == [r \in Requests |-> IF l = Reply(r) THEN "lost" ELSE ask[r]]

\* Send has failed: a request is answered with an error, the failure of
\* anything else is logged.
SendFails(l) ==
    /\ ask' = Lost(l)
    /\ post' = Nothing
    /\ BackToReading

\* Mutant: a POST that failed on the way is tried again as well.
Retries_Always(why) == ~retried

Retries(why) == why = "401" /\ ~retried

\* The line is posted again, or Send fails.
Unserved(why) ==
    \/ /\ Retries(why)
       /\ retried' = TRUE
       /\ post' = Nothing
       /\ turn' = "send"
       /\ UNCHANGED <<line, ask>>
    \/ /\ ~Retries(why)
       /\ SendFails(post.line)

\* Token has none to give: the first time, or after the 401 has invalidated
\* the one there was.
NoToken ==
    /\ turn = "send"
    /\ SendFails(line)
    /\ UNCHANGED <<agentVars, buf, sid, sessions, taken, got, early, open, deleted>>

\* A 401: Invalidate, and the second POST has the token that Token finds then.
Unauthorized ==
    /\ post # Nothing
    /\ Unserved("401")
    /\ UNCHANGED <<agentVars, buf, sid, sessions, taken, got, early, open, deleted>>

Accepts == post # Nothing /\ post.session \in alive \cup {0}

\* Mutants: only the first id is taken; an answer without one clears it.
TakeSession_First(old, named)  == IF old = 0 THEN named ELSE old
TakeSession_Clears(old, named) == named

\* handleResponse, before it looks at the status or the body.
TakeSession(old, named) == IF named # 0 THEN named ELSE old

Issues(named) ==
    /\ issued < MaxSessions
    /\ named = issued + 1
    /\ issued' = named
    /\ alive' = alive \cup {named}

\* An answer may name a session: the first one, or another in its place.
NamesSession(named) ==
    /\ sid' = TakeSession(sid, named)
    /\ \/ /\ named = 0
          /\ UNCHANGED sessions
       \/ /\ Issues(named)
          /\ retired' = retired \cup ({post.session} \ {0})

\* The upstream may hand out a session in an answer that is lost.
Untold ==
    /\ \/ UNCHANGED sessions
       \/ \E named \in Sessions : Issues(named) /\ retired' = retired \cup {named}
    /\ UNCHANGED sid

\* An error answer: the session is forgotten, and its id stays, or whatever else.
\* It is an error of Send, unless it has a JSON body: that is queued like an
\* answer, and if it is none to this request, the request waits for its timer.
Refused ==
    /\ post # Nothing
    /\ \E named \in Sessions : NamesSession(named)
    /\ \/ Unserved("refused")
       \/ /\ post.line \in Requests
          /\ post' = Nothing
          /\ turn' = "wait"
          /\ UNCHANGED <<line, retried, ask>>
    /\ UNCHANGED <<agentVars, buf, taken, got, early, open, deleted>>

\* The connection breaks before the upstream has the line; or after it took it
\* up, and then before its answer is there or in the middle of the body.
Broken ==
    /\ \/ /\ post # Nothing
          /\ UNCHANGED <<sid, sessions, taken, got>>
       \/ /\ Accepts
          /\ taken' = [taken EXCEPT ![post.line] = @ + 1]
          /\ got' = [got EXCEPT ![post.line] = @ \cup {buf}]
          /\ Untold \/ \E named \in Sessions : NamesSession(named)
    /\ Unserved("broken")
    /\ UNCHANGED <<agentVars, buf, early, open, deleted>>

\* The answer to a request comes later, on a stream; what is no request is done
\* with.  Most upstreams read
\* the body before they answer, none has to.
Served(readFirst) ==
    /\ Accepts
    /\ \E named \in Sessions :
          /\ NamesSession(named)
          /\ open' = [r \in Requests |-> IF r # post.line THEN open[r]
                                          ELSE IF named = 0 THEN post.session
                                                            ELSE named]
    /\ taken' = [taken EXCEPT ![post.line] = @ + 1]
    /\ \/ /\ readFirst
          /\ got' = [got EXCEPT ![post.line] = @ \cup {buf}]
          /\ UNCHANGED early
       \/ /\ ~readFirst
          /\ early' = early \cup {post.line}
          /\ UNCHANGED got
    /\ ask' = [r \in Requests |-> IF post.line = Reply(r) THEN "heard" ELSE ask[r]]
    /\ \/ /\ post.line \in Requests
          /\ turn' = "wait"
          /\ UNCHANGED <<line, retried>>
       \/ /\ post.line \notin Requests
          /\ BackToReading
    /\ post' = Nothing
    /\ UNCHANGED <<agentVars, buf, deleted>>

\* Mutant: no timer.
Expires_Never == FALSE

Expires == TRUE

\* The timer: the agent gets an error, the upstream's stream stays.
Expire ==
    /\ turn = "wait" /\ Expires
    /\ BackToReading
    /\ UNCHANGED <<agentVars, buf, post, sid, serverVars, deleted>>

\* The agent has left and everything it wrote is read: Run returns and Close
\* ends the last session, once and without a retry.  Nothing bounds the DELETE.
Close ==
    /\ turn = "read" /\ left /\ stdin = <<>>
    /\ turn' = IF sid = 0 THEN "exit" ELSE "close"
    /\ UNCHANGED <<agentVars, line, buf, post, retried, sid, serverVars,
                   deleted>>

Delete ==
    /\ turn = "close"
    /\ \/ /\ alive' = alive \ {sid}
          /\ deleted' = TRUE
       \/ UNCHANGED <<alive, deleted>>
    /\ turn' = "exit"
    /\ UNCHANGED <<agentVars, line, buf, post, retried, sid, issued, retired,
                   taken, got, early, open, ask>>

-----------------------------------------------------------------------------
(* The upstream, beside its answers to a POST *)

\* It asks the agent something, and answers no sooner than it has the reply.
Asks(r) ==
    /\ open[r] # Done /\ ask[r] = "no" /\ turn # "exit"
    /\ ask' = [ask EXCEPT ![r] = "asked"]
    /\ UNCHANGED <<agentVars, clientVars, sessions, taken, got, early, open,
                   deleted>>

\* Its answer: in time, or for an agent that has its timeout already.
Answers(r) ==
    /\ open[r] # Done /\ ask[r] \in {"no", "heard"} /\ turn # "exit"
    /\ open' = [open EXCEPT ![r] = Done]
    /\ \/ /\ turn = "wait" /\ line = r
          /\ BackToReading
       \/ /\ ~(turn = "wait" /\ line = r)
          /\ UNCHANGED <<turn, line, retried>>
    /\ UNCHANGED <<agentVars, buf, post, sid, sessions, taken, got, early, ask, deleted>>

ReadsBody(l) ==
    /\ l \in early /\ got[l] = {}
    /\ got' = [got EXCEPT ![l] = {buf}]
    /\ UNCHANGED <<agentVars, clientVars, sessions, taken, early, open, ask,
                   deleted>>

\* Time passes, or the upstream is restarted.
Forgets(s) ==
    /\ alive' = alive \ {s}
    /\ UNCHANGED <<agentVars, clientVars, issued, retired, taken, got, early,
                   open, ask, deleted>>

Terminated == turn = "exit" /\ UNCHANGED vars

\* However it comes out, a POST ends.
Exchange == Unauthorized \/ Refused \/ Broken \/ Served(TRUE) \/ Served(FALSE)

Next ==
    \/ Writes \/ (\E r \in Requests : Replies(r)) \/ Leaves
    \/ ReadLine \/ DoPost \/ NoToken \/ Exchange \/ Expire \/ Close \/ Delete
    \/ \E r \in Requests : Asks(r) \/ Answers(r)
    \/ \E l \in Lines : ReadsBody(l)
    \/ \E s \in alive : Forgets(s)
    \/ Terminated

Spec == Init /\ [][Next]_vars

\* The proxy goes on where it waits for nobody, the timer fires, a POST ends,
\* and an agent that is asked replies.
Fairness ==
    /\ WF_vars(ReadLine) /\ WF_vars(DoPost) /\ WF_vars(Expire)
    /\ WF_vars(Exchange)
    /\ \A r \in Requests : WF_vars(Replies(r))

LiveSpec == Spec /\ Fairness

-----------------------------------------------------------------------------
(* Properties *)

\* Types, and: a POST is on its way exactly while readAgent is in Send.
TypeOK ==
    /\ stdin \in Seq(Lines) /\ asked \in 0..N /\ left \in BOOLEAN
    /\ turn \in {"read", "send", "post", "wait", "close", "exit"}
    /\ line \in 0..(2 * N) /\ buf \in 0..(2 * N)
    /\ post \in [line : 0..(2 * N), session : Sessions]
    /\ retried \in BOOLEAN
    /\ sid \in Sessions
    /\ issued \in Sessions /\ alive \subseteq Sessions /\ retired \subseteq Sessions
    /\ taken \in [Lines -> 0..2] /\ got \in [Lines -> SUBSET Lines]
    /\ early \subseteq Lines /\ open \in [Requests -> Sessions \cup {Done}]
    /\ ask \in [Requests -> {"no", "asked", "replied", "heard", "lost"}]
    /\ deleted \in BOOLEAN
    /\ post # Nothing <=> turn = "post"

\* The retry after a 401 repeats nothing that was done: the upstream takes up
\* each line of the agent once at most, although some are posted twice.
ServedOnce == \A l \in Lines : taken[l] <= 1

\* proxy.go:5, "byte for byte": the upstream reads what the agent wrote, unless
\* it answered before it had read the line: then the next one may be in the
\* buffer already.
BodyIntact == \A l \in Lines \ early : got[l] \subseteq {l}

\* sse.go:22, "session affinity": a reply comes in the session of the question,
\* unless the upstream has replaced that session meanwhile.
RepliesInSession ==
    [][\A r \in Requests : (ask[r] # "heard" /\ ask'[r] = "heard") =>
           post.session = open[r] \/ open[r] \in retired \cup {0}]_vars

\* sse.go:173, "terminating the server session if one was established": what is
\* left of sessions at the end, after a DELETE that was accepted or without any,
\* the client had replaced, or was never told of.
NoSessionLeft ==
    (turn = "exit" /\ (deleted \/ sid = 0)) => alive \subseteq retired

\* What the upstream asks while a request waits is never stuck behind that
\* request for good: the timer lets readAgent go on to the reply, which is
\* heard, or lost with a POST that failed.  (An agent that leaves owes nothing.)
AskSettled == \A r \in Requests :
    ask[r] = "asked" ~> (ask[r] \in {"heard", "lost"} \/ left)
=============================================================================
