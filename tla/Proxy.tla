------------------------------- MODULE Proxy -------------------------------
(***************************************************************************)
(* The pipe of internal/proxy/proxy.go and the Streamable HTTP transport   *)
(* under it (internal/transport/sse.go): two goroutines and the consumers  *)
(* of the upstream's event streams, around one map of pending requests.    *)
(*                                                                         *)
(*   readAgent      reads one line of the agent at a time and finishes it  *)
(*                  (HTTP exchange, wait, answer) before the next; its     *)
(*                  program counter is pc.                                 *)
(*   readUpstream   takes the messages of the bounded channel `incoming`   *)
(*                  one at a time; its program counter is rx.              *)
(*   consumers      one goroutine per event stream, which only enqueues;   *)
(*                  stream[i] is the stream that answers request i.        *)
(*                                                                         *)
(* `incoming` is the part of `wire` behind `taken`: wire is the log of all *)
(* that was ever enqueued, kept for the properties.                        *)
(*                                                                         *)
(* Abstractions.  A request id is used once in a session and the upstream  *)
(* answers a request at most once, on the exchange of that request, as MCP *)
(* has it.  A message is its kind, its id and the shape of its result; that *)
(* writeMessage spells its JSON anew is left out.  What answers a          *)
(* notification or a reply of the agent (202, an error, nothing) changes   *)
(* no state of the pipe.  A write is one step: outMu is held for the whole *)
(* line.                                                                   *)
(***************************************************************************)
EXTENDS Naturals, Sequences

CONSTANTS Ids,        \* the ids of the agent's requests
          MethodOf,   \* [Ids -> Methods]
          Pushes,     \* notifications and requests of the upstream's own
          InCap,      \* capacity of `incoming` (64 in the code)
          Results,    \* shapes of the results the upstream may answer with
          NoMsg       \* no message

\* "list" is tools/list, "call" any other method that is forwarded, "ext" a
\* tools/call of an injected tool.
Methods == {"list", "call", "ext"}

\* "object" is a JSON object whose tools, if any, are an array; "odd" is any
\* other value that is not null.
UpstreamResults == {"object", "odd", "null", "error"}
OwnResults      == {"timeout", "failed", "local"}

Msgs == [kind   : {"answer", "push", "junk"},
         id     : Ids \cup Pushes,
         result : Results \cup OwnResults \cup {"none"}]

Entries == [msg : Msgs, injected : BOOLEAN, raw : BOOLEAN]

ASSUME ConstantsAssumption ==
    /\ MethodOf \in [Ids -> Methods]
    /\ Ids \cap Pushes = {}
    /\ InCap \in Nat \ {0}
    /\ Results \subseteq UpstreamResults
    /\ NoMsg \notin Msgs

VARIABLES
    pc,       \* where readAgent is
    cur,      \* the request readAgent handles, or NoMsg
    hand,     \* the message readAgent is about to enqueue or to write
    asked,    \* the requests read so far
    pending,  \* the keys of Proxy.pending
    chan,     \* chan[i]: what the buffered channel of request i holds
    rx,       \* where readUpstream is
    rxMsg,    \* the message readUpstream handles
    wire,     \* everything ever enqueued to `incoming`
    taken,    \* how much of wire readUpstream has taken
    stream,   \* stream[i]: the event stream that answers request i
    out       \* the lines written to the agent

agentVars    == <<pc, cur, hand, asked>>
upstreamVars == <<rx, rxMsg, taken>>
netVars      == <<wire, stream>>
vars == <<pc, cur, hand, asked, pending, chan, rx, rxMsg, wire, taken, stream,
          out>>

-----------------------------------------------------------------------------
(* Messages *)

Message(kind, id, result) == [kind |-> kind, id |-> id, result |-> result]

\* What the upstream may answer request i with.
Answers(i) == {Message("answer", i, r) : r \in Results}

\* A body that is no JSON-RPC message (a batch array, an HTML error page).
Junk(i) == Message("junk", i, "none")

\* Mutant: an error response that lacks the id of its request.
Own_WithoutId(i, result) == Message("answer", NoMsg, result)

\* jsonrpc.NewErrorResponse and NewResultResponse: an answer of the proxy's own.
Own(i, result) == Message("answer", i, result)

\* A line written by writeRaw, byte for byte.
RawLine(m) == [msg |-> m, injected |-> FALSE, raw |-> TRUE]

\* A line written by writeMessage, from a parsed message.
MarshalledLine(m, injected) ==
    [msg |-> m, injected |-> injected, raw |-> FALSE]

Room == Len(wire) - taken < InCap

Enqueued(m) == wire' = Append(wire, m)

-----------------------------------------------------------------------------
Init ==
    /\ pc = "scan"
    /\ cur = NoMsg
    /\ hand = NoMsg
    /\ asked = {}
    /\ pending = {}
    /\ chan = [i \in Ids |-> NoMsg]
    /\ rx = "idle"
    /\ rxMsg = NoMsg
    /\ wire = <<>>
    /\ taken = 0
    /\ stream = [i \in Ids |-> "none"]
    /\ out = <<>>

-----------------------------------------------------------------------------
(* readAgent *)

\* Mutant: the key is not deleted.
Unregister_Forgotten(i) == UNCHANGED pending

\* The map of pending requests, changed under Proxy.mu only.
Register(i)   == pending' = pending \cup {i}
Unregister(i) == pending' = pending \ {i}

\* A request of the agent: an injected tool is run here, everything else is
\* registered and posted upstream.
ReadRequest(i) ==
    /\ pc = "scan"
    /\ i \notin asked
    /\ asked' = asked \cup {i}
    /\ cur' = i
    /\ \/ /\ MethodOf[i] = "ext"
          /\ pc' = "local"
          /\ UNCHANGED pending
       \/ /\ MethodOf[i] # "ext"
          /\ pc' = "post"
          /\ Register(i)
    /\ UNCHANGED <<hand, chan, upstreamVars, netVars, out>>

\* A notification of the agent, or its reply to a request of the upstream.
ReadRelayed ==
    /\ pc = "scan"
    /\ pc' = "relay"
    /\ UNCHANGED <<cur, hand, asked, pending, chan, upstreamVars, netVars, out>>

\* Its exchange ends, well or not: an error is logged and nothing is written.
RelayDone ==
    /\ pc = "relay"
    /\ pc' = "scan"
    /\ UNCHANGED <<cur, hand, asked, pending, chan, upstreamVars, netVars, out>>

\* The POST is answered with a JSON body, whatever its status.
PostJSON ==
    /\ pc = "post"
    /\ \E m \in Answers(cur) \cup {Junk(cur)} : hand' = m
    /\ pc' = "enqueue"
    /\ UNCHANGED <<cur, asked, pending, chan, upstreamVars, netVars, out>>

\* The body is queued inside Send, which blocks while `incoming` is full.
Enqueue ==
    /\ pc = "enqueue"
    /\ Room
    /\ Enqueued(hand)
    /\ hand' = NoMsg
    /\ pc' = "wait"
    /\ UNCHANGED <<cur, asked, pending, chan, upstreamVars, stream, out>>

\* The POST is answered with an event stream, read by a goroutine of its own.
PostStream ==
    /\ pc = "post"
    /\ stream' = [stream EXCEPT ![cur] = "owing"]
    /\ pc' = "wait"
    /\ UNCHANGED <<cur, hand, asked, pending, chan, upstreamVars, wire, out>>

\* The POST is answered with an empty body of another type (202 Accepted).
PostEmpty ==
    /\ pc = "post"
    /\ pc' = "wait"
    /\ UNCHANGED <<cur, hand, asked, pending, chan, upstreamVars, netVars, out>>

\* Mutant: the failure is logged and the agent is not told.
RouteError_Silent == pc' = "scan" /\ cur' = NoMsg /\ UNCHANGED hand

\* A request whose routing fails gets an error for an answer.
RouteError ==
    /\ hand' = Own(cur, "failed")
    /\ pc' = "answer"
    /\ UNCHANGED cur

\* Send fails: the request is forgotten.
PostFail ==
    /\ pc = "post"
    /\ Unregister(cur)
    /\ RouteError
    /\ UNCHANGED <<asked, chan, upstreamVars, netVars, out>>

\* The select of forwardRequest, when the answer is in the channel.
Receive ==
    /\ pc = "wait"
    /\ chan[cur] # NoMsg
    /\ hand' = chan[cur]
    /\ chan' = [chan EXCEPT ![cur] = NoMsg]
    /\ pc' = "answer"
    /\ UNCHANGED <<cur, asked, pending, upstreamVars, netVars, out>>

\* Mutant: the timer is not armed.
Expire_Never == FALSE

\* The same select, when the timer fires: the channel may be full already.
Expire ==
    /\ pc = "wait"
    /\ pc' = "expired"
    /\ UNCHANGED <<cur, hand, asked, pending, chan, upstreamVars, netVars, out>>

\* The branch of the timer, which takes the lock only now.
GiveUp ==
    /\ pc = "expired"
    /\ Unregister(cur)
    /\ hand' = Own(cur, "timeout")
    /\ pc' = "answer"
    /\ UNCHANGED <<cur, asked, chan, upstreamVars, netVars, out>>

\* The line that ends a request; the agent's next line is read after it.
Write(line) ==
    /\ out' = Append(out, line)
    /\ pc' = "scan"
    /\ cur' = NoMsg
    /\ hand' = NoMsg

\* Mutant: the tools are merged into any result.
Merges_Always == hand.result = "object"

\* handleToolsList merges the injected tools into the result of tools/list.
Merges == MethodOf[cur] = "list" /\ hand.result = "object"

\* MergeToolsListResult stores into a nil map when the result is null.
Crashes == MethodOf[cur] = "list" /\ hand.result = "null"

\* What is in hand is written: an answer, an error of the proxy's own.
Answer ==
    /\ pc = "answer"
    /\ \/ /\ ~Crashes
          /\ Write(MarshalledLine(hand, Merges))
       \/ /\ Crashes
          /\ pc' = "panic"
          /\ UNCHANGED <<cur, hand, out>>
    /\ UNCHANGED <<asked, pending, chan, upstreamVars, netVars>>

\* The injected tool returns.
LocalDone ==
    /\ pc = "local"
    /\ Write(MarshalledLine(Own(cur, "local"), FALSE))
    /\ UNCHANGED <<asked, pending, chan, upstreamVars, netVars>>

\* The agent closes its side, or a line of it is too long for the scanner:
\* Run returns and its caller closes the transport.
Eof ==
    /\ pc = "scan"
    /\ pc' = "closed"
    /\ UNCHANGED <<cur, hand, asked, pending, chan, upstreamVars, netVars, out>>

-----------------------------------------------------------------------------
(* The consumers of the event streams: a closed transport lets them go on    *)
(* or not, a panic stops them all.                                           *)

\* The stream of request i carries its answer.
StreamAnswer(i) ==
    /\ pc # "panic"
    /\ stream[i] = "owing"
    /\ Room
    /\ \E m \in Answers(i) : Enqueued(m)
    /\ stream' = [stream EXCEPT ![i] = "answered"]
    /\ UNCHANGED <<agentVars, pending, chan, upstreamVars, out>>

Sent(p) == \E k \in 1..Len(wire) : wire[k].kind = "push" /\ wire[k].id = p

\* The stream of request i carries a message of the upstream's own.
StreamPush(i, p) ==
    /\ pc # "panic"
    /\ stream[i] \in {"owing", "answered"}
    /\ ~Sent(p)
    /\ Room
    /\ Enqueued(Message("push", p, "none"))
    /\ UNCHANGED <<agentVars, pending, chan, upstreamVars, stream, out>>

\* The stream ends, its answer given or not; a line of it is too long.
StreamEnd(i) ==
    /\ pc # "panic"
    /\ stream[i] \in {"owing", "answered"}
    /\ stream' = [stream EXCEPT ![i] = "ended"]
    /\ UNCHANGED <<agentVars, pending, chan, upstreamVars, wire, out>>

-----------------------------------------------------------------------------
(* readUpstream *)

\* Mutant: a response nobody waits for is dropped.
Destination_Drops(m) ==
    IF m.kind = "push" THEN "out"
    ELSE IF m.kind = "answer" /\ m.id \in pending THEN "chan"
    ELSE "idle"

\* Where a message goes, decided under Proxy.mu: a response that is awaited
\* to its channel, a line that does not parse nowhere, the rest to the agent.
Destination(m) ==
    IF m.kind = "junk" THEN "idle"
    ELSE IF m.kind = "answer" /\ m.id \in pending THEN "chan"
    ELSE "out"

\* Mutant: the next message is read before the last one is written.
Free_Early == rx \in {"idle", "out"}

\* readUpstream has finished with the last message.
Free == rx = "idle"

\* ReadLine, Parse and the lookup, which removes what it finds.
UpstreamRead ==
    /\ pc # "panic"
    /\ Free
    /\ taken < Len(wire)
    /\ taken' = taken + 1
    /\ LET m == wire[taken + 1] IN
         /\ rx' = Destination(m)
         /\ rxMsg' = IF Destination(m) = "idle" THEN NoMsg ELSE m
         /\ IF Destination(m) = "chan" THEN Unregister(m.id)
                                       ELSE UNCHANGED pending
    /\ UNCHANGED <<agentVars, chan, netVars, out>>

\* Mutant: the channel is not buffered.
CanSend_Unbuffered(i) == pc = "wait" /\ cur = i

\* A send on a buffered channel of capacity one.
CanSend(i) == chan[i] = NoMsg

\* Mutant: what is resolved is relayed as well.
Resolved_FallsThrough == rx' = "out" /\ UNCHANGED rxMsg

Resolved == rx' = "idle" /\ rxMsg' = NoMsg

UpstreamResolve ==
    /\ pc # "panic"
    /\ rx = "chan"
    /\ CanSend(rxMsg.id)
    /\ chan' = [chan EXCEPT ![rxMsg.id] = rxMsg]
    /\ Resolved
    /\ UNCHANGED <<agentVars, pending, taken, netVars, out>>

UpstreamRelay ==
    /\ pc # "panic"
    /\ rx = "out"
    /\ out' = Append(out, RawLine(rxMsg))
    /\ rx' = "idle"
    /\ rxMsg' = NoMsg
    /\ UNCHANGED <<agentVars, pending, chan, taken, netVars>>

\* ReadLine finds the transport closed (or the process exits).
UpstreamStop ==
    /\ pc = "closed"
    /\ rx = "idle"
    /\ rx' = "stopped"
    /\ UNCHANGED <<agentVars, pending, chan, rxMsg, taken, netVars, out>>

Terminated ==
    /\ pc = "panic" \/ rx = "stopped"
    /\ UNCHANGED vars

-----------------------------------------------------------------------------
Exchange == PostJSON \/ PostStream \/ PostEmpty \/ PostFail

AgentStep == Enqueue \/ Receive \/ Expire \/ GiveUp \/ Answer

UpstreamStep == UpstreamRead \/ UpstreamResolve \/ UpstreamRelay

Next ==
    \/ \E i \in Ids : ReadRequest(i)
    \/ ReadRelayed \/ RelayDone \/ Eof
    \/ Exchange \/ LocalDone
    \/ AgentStep
    \/ \E i \in Ids : StreamAnswer(i) \/ StreamEnd(i)
    \/ \E i \in Ids, p \in Pushes : StreamPush(i, p)
    \/ UpstreamStep
    \/ UpstreamStop
    \/ Terminated

Spec == Init /\ [][Next]_vars

\* The two goroutines run whenever they can and the timer fires.  Nothing is
\* assumed of an HTTP exchange, of the streams or of the agent.
CodeFairness == WF_vars(AgentStep) /\ WF_vars(UpstreamStep)

CodeSpec == Spec /\ CodeFairness

-----------------------------------------------------------------------------
(* Properties *)

\* Types of the variables.
TypeOK ==
    /\ pc \in {"scan", "relay", "post", "enqueue", "wait", "expired", "answer",
               "local", "closed", "panic"}
    /\ cur \in Ids \cup {NoMsg}
    /\ hand \in Msgs \cup {NoMsg}
    /\ asked \subseteq Ids
    /\ pending \subseteq Ids
    /\ chan \in [Ids -> Msgs \cup {NoMsg}]
    /\ rx \in {"idle", "chan", "out", "stopped"}
    /\ rxMsg \in Msgs \cup {NoMsg}
    /\ wire \in Seq(Msgs)
    /\ taken \in 0..Len(wire)
    /\ stream \in [Ids -> {"none", "owing", "answered", "ended"}]
    /\ out \in Seq(Entries)

AnswersTo(i) == {k \in 1..Len(out) : out[k].msg.kind = "answer"
                                     /\ out[k].msg.id = i}
Answered(i)  == AnswersTo(i) # {}
Settled(i)   == \E k \in AnswersTo(i) : ~out[k].raw
RelayedRaw(i) == \E k \in AnswersTo(i) : out[k].raw
TimedOut(i)  == \E k \in AnswersTo(i) : out[k].msg.result = "timeout"

\* Proxy.pending never outlives the request it was made for: a key is there
\* only while readAgent is in forwardRequest for that very id, so the map
\* cannot grow with the session and a later answer cannot meet a stale entry.
PendingIsInFlight ==
    pending # {} => /\ pending = {cur}
                    /\ pc \in {"post", "enqueue", "wait", "expired"}

\* Before readAgent reads another line, and before it leaves, every request it
\* has read is answered on some path: the upstream's answer, a timeout, a
\* failed Send, an injected tool.
AnsweredBeforeNextLine ==
    pc \in {"scan", "relay", "closed"} => \A i \in asked : Settled(i)

\* The agent gets one answer to a request.  It gets two only around a timeout:
\* the proxy's own error, and the upstream's answer relayed as it came.  They
\* come in either order, for the lock is released before the error is written.
OneAnswer ==
    \A i \in Ids : \A j, k \in AnswersTo(i) :
        j # k => /\ out[j].raw # out[k].raw
                 /\ ~out[j].raw => out[j].msg.result = "timeout"
                 /\ AnswersTo(i) = {j, k}

\* An answer that reached the proxy reaches the agent: it is on its way in
\* readUpstream, in the channel or in hand, or it is written.  It is lost in one
\* case only, in the channel of a request whose timer fired first.
NoAnswerLost ==
    \A k \in 1..taken :
        LET m == wire[k] IN
        m.kind = "answer" =>
            \/ rx \in {"chan", "out"} /\ rxMsg = m
            \/ chan[m.id] = m /\ (cur = m.id \/ TimedOut(m.id))
            \/ hand = m
            \/ \E j \in AnswersTo(m.id) : out[j].msg.result = m.result

\* What the upstream sent before an answer (progress, a log line) is written
\* before it, although two goroutines write to the agent.
PushBeforeAnswer ==
    \A a, b \in 1..Len(wire) : \A j \in 1..Len(out) :
        (a < b /\ wire[a].kind = "push" /\ out[j].msg.kind = "answer"
         /\ out[j].msg.id = wire[b].id
         /\ out[j].msg.result = wire[b].result) =>
            \E k \in 1..j : out[k].msg = wire[a]

\* The injected tools are in the answer to tools/list whenever the upstream's
\* result can take them and came in time; an answer that came after the
\* timeout shows the agent the upstream's tools alone.
InjectedOnTime ==
    \A k \in 1..Len(out) :
        LET m == out[k].msg IN
        out[k].injected <=> /\ m.kind = "answer" /\ ~out[k].raw
                            /\ MethodOf[m.id] = "list"
                            /\ m.result = "object"

\* Every message of the upstream's own reaches the agent, unless the agent
\* leaves or a null result of tools/list makes the process panic: no timeout, no
\* lost race and no exchange that hangs wedges readUpstream.
PushesRelayed ==
    \A p \in Pushes :
        Sent(p) ~> \/ \E k \in 1..Len(out) : out[k].msg.id = p
                   \/ pc \in {"closed", "panic"}

\* Every request is answered, by the upstream, by a tool or by the timer, but for
\* two ways to fail: the process panics on the result of a tools/list, or the
\* exchange of the request (its POST, or the calls of its injected tool) never
\* ends, which http.Client without a timeout leaves to the other side.  However
\* the upstream answers, late, in a stream, elsewhere or never, nothing else
\* keeps a request: no full channel, no message for another, no lost race.
HungUp(i) == cur = i /\ pc \in {"post", "local"}

RequestsAnswered ==
    \A i \in Ids : i \in asked ~> Settled(i) \/ pc = "panic" \/ []HungUp(i)

-----------------------------------------------------------------------------
(* What the comments of the code say, which the code does not do. *)

\* proxy.go:153: "An unmergeable result is forwarded untouched - degraded (no
\* injected tools this round) beats broken."
DegradedBeatsBroken == pc # "panic"

-----------------------------------------------------------------------------
(* The pipe implements RequestReply. *)

\* What a line is to the agent.
HowOf(e) ==
    IF e.msg.kind = "push" THEN "push"
    ELSE IF e.raw THEN "raw"
    ELSE IF e.msg.result = "timeout" THEN "timeout"
    ELSE IF e.msg.result = "failed" THEN "error"
    ELSE "answer"

Seen(e) == [id |-> e.msg.id, how |-> HowOf(e)]

\* Line by line, so that each line written is a step of the promise.
Promise == INSTANCE RequestReply WITH
    said    <- [k \in 1..Len(out) |-> Seen(out[k])],
    running <- pc \notin {"closed"}

\* Every line the agent gets is one it was promised, at the moment it gets it:
\* one line of readAgent's settles a request, a raw answer comes once and only
\* around a timeout, a push once; and readAgent takes the next request, or
\* leaves, when all it took before is settled.
KeepsPromise == Promise!Spec
=============================================================================
