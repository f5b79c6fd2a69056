---------------------------- MODULE ProxyProofs ----------------------------
(***************************************************************************)
(* Theorems about Proxy, for every set of requests, every capacity of      *)
(* `incoming` and every shape of answer, in six parts:                     *)
(*                                                                         *)
(*   1. types, the map of pending requests, every request answered         *)
(*   2. the agent gets one answer: where an answer of the upstream can be  *)
(*   3. the pipe implements RequestReply                                   *)
(*   4. what the injected tools are merged into                            *)
(*   5. no answer is lost                                                  *)
(*   6. what the upstream sent before an answer is written before it       *)
(***************************************************************************)
EXTENDS Proxy, SequenceTheorems, TLAPS

-----------------------------------------------------------------------------
(* 1. Types, pending requests, every request answered                      *)

Busy == {"post", "enqueue", "wait", "expired", "answer", "local"}

\* What TypeOK needs to be inductive: the registers hold a message wherever
\* the program counters say that one is handled.
RegistersOK ==
    /\ pc \in Busy => cur \in asked
    /\ pc \in {"enqueue", "answer"} => hand \in Msgs
    /\ rx \in {"chan", "out"} => rxMsg \in Msgs
    /\ pending \subseteq asked
    /\ rx = "chan" => rxMsg.kind = "answer" /\ rxMsg.id \in asked

TypeInv == TypeOK /\ RegistersOK

LEMMA MessageType ==
    ASSUME NEW k \in {"answer", "push", "junk"}, NEW i \in Ids \cup Pushes,
           NEW r \in Results \cup OwnResults \cup {"none"}
    PROVE  Message(k, i, r) \in Msgs
BY DEF Message, Msgs

LEMMA OwnType ==
    ASSUME NEW i \in Ids, NEW r \in OwnResults
    PROVE  Own(i, r) \in Msgs
BY ConstantsAssumption DEF Own, Message, Msgs

LEMMA LineTypes ==
    ASSUME NEW m \in Msgs, NEW b \in BOOLEAN
    PROVE  RawLine(m) \in Entries /\ MarshalledLine(m, b) \in Entries
BY ConstantsAssumption DEF RawLine, MarshalledLine, Entries, Msgs

LEMMA AppendType ==
    ASSUME NEW S, NEW s \in Seq(S), NEW e \in S
    PROVE  Append(s, e) \in Seq(S)
OBVIOUS

\* What Answer writes, if anything: what is in hand, re-serialized.
LEMMA AnswerWrites ==
    ASSUME Answer, hand \in Msgs
    PROVE  \/ \E e \in Entries :
                  /\ Write(e)
                  /\ \E b \in BOOLEAN : e = MarshalledLine(hand, b)
           \/ pc' = "panic" /\ UNCHANGED <<cur, hand, out>>
<1>1. CASE Crashes
  BY <1>1 DEF Answer
<1>2. CASE ~Crashes
  <2>1. Merges \in BOOLEAN
    BY DEF Merges
  <2>2. Write(MarshalledLine(hand, Merges))
    BY <1>2 DEF Answer
  <2> QED
    BY <2>1, <2>2, LineTypes
<1> QED
  BY <1>1, <1>2

LEMMA TypeInit == Init => TypeInv
BY ConstantsAssumption
   DEF Init, TypeInv, TypeOK, RegistersOK, Busy, Msgs, Entries

LEMMA TypeStep == TypeInv /\ [Next]_vars => TypeInv'
<1> SUFFICES ASSUME TypeInv, [Next]_vars PROVE TypeInv'
  OBVIOUS
<1> USE ConstantsAssumption DEF TypeInv, TypeOK, RegistersOK, Busy,
        agentVars, upstreamVars, netVars
<1>1. CASE \E i \in Ids : ReadRequest(i)
  BY <1>1 DEF ReadRequest, Register
<1>2. CASE ReadRelayed \/ RelayDone \/ Eof
  BY <1>2 DEF ReadRelayed, RelayDone, Eof
<1>3. CASE PostJSON
  BY <1>3 DEF PostJSON, Answers, Junk, Message, Msgs
<1>4. CASE PostStream \/ PostEmpty
  BY <1>4 DEF PostStream, PostEmpty
<1>5. CASE PostFail
  BY <1>5, OwnType DEF PostFail, RouteError, Unregister, OwnResults
<1>6. CASE Enqueue
  BY <1>6 DEF Enqueue, Enqueued
<1>7. CASE Receive
  BY <1>7 DEF Receive
<1>8. CASE Expire
  BY <1>8 DEF Expire
<1>9. CASE GiveUp
  BY <1>9, OwnType DEF GiveUp, Unregister, OwnResults
<1>10. CASE Answer
  <2>1. CASE \E e \in Entries : Write(e)
    <3>1. PICK e \in Entries : Write(e)
      BY <2>1
    <3>2. out' \in Seq(Entries)
      BY <3>1, AppendType DEF Write
    <3> QED
      BY <1>10, <3>1, <3>2 DEF Answer, Write
  <2>2. CASE pc' = "panic" /\ UNCHANGED <<cur, hand, out>>
    BY <1>10, <2>2 DEF Answer
  <2>3. hand \in Msgs
    BY <1>10 DEF Answer
  <2> QED
    BY <1>10, <2>1, <2>2, <2>3, AnswerWrites
<1>11. CASE LocalDone
  <2>1. cur \in Ids /\ "local" \in OwnResults
    BY <1>11 DEF LocalDone, OwnResults
  <2>2. MarshalledLine(Own(cur, "local"), FALSE) \in Entries
    BY <2>1, OwnType, LineTypes
  <2>3. out' \in Seq(Entries)
    BY <1>11, <2>2, AppendType DEF LocalDone, Write
  <2> QED
    BY <1>11, <2>3 DEF LocalDone, Write
<1>12. CASE \E i \in Ids : StreamAnswer(i)
  BY <1>12 DEF StreamAnswer, Enqueued, Answers, Message, Msgs
<1>13. CASE \E i \in Ids : StreamEnd(i)
  BY <1>13 DEF StreamEnd
<1>14. CASE \E i \in Ids, p \in Pushes : StreamPush(i, p)
  BY <1>14 DEF StreamPush, Enqueued, Message, Msgs
<1>15. CASE UpstreamRead
  BY <1>15 DEF UpstreamRead, Free, Destination, Unregister
<1>16. CASE UpstreamResolve
  BY <1>16 DEF UpstreamResolve, Resolved
<1>17. CASE UpstreamRelay
  <2>1. RawLine(rxMsg) \in Entries
    BY <1>17, LineTypes DEF UpstreamRelay
  <2>2. out' \in Seq(Entries)
    BY <1>17, <2>1, AppendType DEF UpstreamRelay
  <2> QED
    BY <1>17, <2>2 DEF UpstreamRelay
<1>18. CASE UpstreamStop
  BY <1>18 DEF UpstreamStop
<1>19. CASE UNCHANGED vars
  BY <1>19 DEF vars
<1> QED
  BY <1>1, <1>2, <1>3, <1>4, <1>5, <1>6, <1>7, <1>8, <1>9, <1>10, <1>11,
     <1>12, <1>13, <1>14, <1>15, <1>16, <1>17, <1>18, <1>19
     DEF Next, Exchange, AgentStep, UpstreamStep, Terminated

\* TypeOK holds in every state: no message is handled that is not there, and
\* nothing but requests of this session is ever pending.
THEOREM TypesHold == Spec => []TypeOK
<1>1. TypeInv => TypeOK
  BY DEF TypeInv
<1> QED
  BY <1>1, TypeInit, TypeStep, PTL DEF Spec

-----------------------------------------------------------------------------
\* Why the map of pending requests stays clean: a key is removed by whoever
\* gets an answer as far as the channel, before the channel is filled, so a
\* request whose answer is received needs no clean-up of its own.
FlightInv ==
    /\ PendingIsInFlight
    /\ rx = "chan" => rxMsg.id \notin pending
    /\ \A i \in Ids : chan[i] # NoMsg =>
          i \in asked \ pending /\ chan[i].kind = "answer" /\ chan[i].id = i
    /\ pc = "answer" => hand.kind = "answer" /\ hand.id = cur

LEMMA FlightInit == Init => FlightInv
BY DEF Init, FlightInv, PendingIsInFlight

LEMMA FlightStep == TypeInv /\ FlightInv /\ [Next]_vars => FlightInv'
<1> SUFFICES ASSUME TypeInv, FlightInv, [Next]_vars PROVE FlightInv'
  OBVIOUS
<1> USE ConstantsAssumption DEF TypeInv, TypeOK, RegistersOK, Busy, FlightInv,
        PendingIsInFlight, agentVars, upstreamVars, netVars
<1>1. CASE \E i \in Ids : ReadRequest(i)
  BY <1>1 DEF ReadRequest, Register
<1>2. CASE ReadRelayed \/ RelayDone \/ Eof
  BY <1>2 DEF ReadRelayed, RelayDone, Eof
<1>3. CASE PostJSON \/ PostStream \/ PostEmpty
  BY <1>3 DEF PostJSON, PostStream, PostEmpty
<1>4. CASE PostFail
  BY <1>4 DEF PostFail, RouteError, Unregister, Own, Message
<1>5. CASE Enqueue
  BY <1>5 DEF Enqueue
<1>6. CASE Receive
  BY <1>6 DEF Receive
<1>7. CASE Expire
  BY <1>7 DEF Expire
<1>8. CASE GiveUp
  BY <1>8 DEF GiveUp, Unregister, Own, Message
<1>9. CASE Answer
  BY <1>9 DEF Answer, Write
<1>10. CASE LocalDone
  BY <1>10 DEF LocalDone, Write
<1>11. CASE \/ \E i \in Ids : StreamAnswer(i) \/ StreamEnd(i)
            \/ \E i \in Ids, p \in Pushes : StreamPush(i, p)
  BY <1>11 DEF StreamAnswer, StreamEnd, StreamPush
<1>12. CASE UpstreamRead
  BY <1>12 DEF UpstreamRead, Free, Destination, Unregister
<1>13. CASE UpstreamResolve
  BY <1>13 DEF UpstreamResolve, Resolved
<1>14. CASE UpstreamRelay \/ UpstreamStop
  BY <1>14 DEF UpstreamRelay, UpstreamStop
<1>15. CASE UNCHANGED vars
  BY <1>15 DEF vars
<1> QED
  BY <1>1, <1>2, <1>3, <1>4, <1>5, <1>6, <1>7, <1>8, <1>9, <1>10, <1>11,
     <1>12, <1>13, <1>14, <1>15
     DEF Next, Exchange, AgentStep, UpstreamStep, Terminated

\* A key of Proxy.pending never outlives the forwardRequest that made it.
THEOREM PendingStaysInFlight == Spec => []PendingIsInFlight
<1>1. FlightInv => PendingIsInFlight
  BY DEF FlightInv
<1> QED
  BY <1>1, TypeInit, TypeStep, FlightInit, FlightStep, PTL DEF Spec

-----------------------------------------------------------------------------
\* What Settled says, without the set of positions.
LEMMA SettledMeans ==
    ASSUME NEW i
    PROVE  Settled(i) <=> \E k \in 1..Len(out) : /\ out[k].msg.kind = "answer"
                                                 /\ out[k].msg.id = i
                                                 /\ ~out[k].raw
BY DEF Settled, AnswersTo

\* Lines are only ever added to the output, so what is settled stays settled;
\* a line of readAgent's settles the request it answers.
LEMMA SettledGrows ==
    ASSUME out \in Seq(Entries), NEW e, out' = Append(out, e), NEW i
    PROVE  /\ Settled(i) => Settled(i)'
           /\ (e.msg.kind = "answer" /\ e.msg.id = i /\ ~e.raw) => Settled(i)'
<1>1. /\ Len(out') = Len(out) + 1
      /\ Len(out) \in Nat
      /\ \A k \in 1..Len(out) : out'[k] = out[k]
      /\ out'[Len(out')] = e
  OBVIOUS
<1>2. Settled(i)' <=> \E k \in 1..Len(out') : /\ out'[k].msg.kind = "answer"
                                              /\ out'[k].msg.id = i
                                              /\ ~out'[k].raw
  BY DEF Settled, AnswersTo
<1> QED
  BY <1>1, <1>2, SettledMeans

LEMMA SettledStays ==
    ASSUME UNCHANGED out, NEW i
    PROVE  Settled(i)' <=> Settled(i)
BY DEF Settled, AnswersTo

\* Every request read is settled, but for the one readAgent is busy with.
AnsweredInv ==
    \A i \in asked : Settled(i) \/ (i = cur /\ pc \in Busy \cup {"panic"})

LEMMA AnsweredInit == Init => AnsweredInv
BY DEF Init, AnsweredInv

LEMMA AnsweredStep ==
    TypeInv /\ FlightInv /\ AnsweredInv /\ [Next]_vars => AnsweredInv'
<1> SUFFICES ASSUME TypeInv, FlightInv, AnsweredInv, [Next]_vars
             PROVE  AnsweredInv'
  OBVIOUS
<1> USE DEF TypeInv, TypeOK, RegistersOK, Busy, agentVars, upstreamVars, netVars
<1>1. CASE Answer
  <2>1. CASE \E e \in Entries : /\ Write(e)
                                /\ \E b \in BOOLEAN :
                                      e = MarshalledLine(hand, b)
    <3>1. PICK b \in BOOLEAN : Write(MarshalledLine(hand, b))
      BY <2>1
    <3>2. LET e == MarshalledLine(hand, b)
          IN  e.msg.kind = "answer" /\ e.msg.id = cur /\ ~e.raw
      BY <1>1 DEF Answer, FlightInv, MarshalledLine, Msgs
    <3> QED
      BY <1>1, <3>1, <3>2, SettledGrows DEF Answer, Write, AnsweredInv
  <2>2. CASE pc' = "panic" /\ UNCHANGED <<cur, hand, out>>
    BY <1>1, <2>2, SettledStays DEF Answer, AnsweredInv
  <2> QED
    BY <1>1, <2>1, <2>2, AnswerWrites DEF Answer
<1>2. CASE LocalDone
  <2>1. LET e == MarshalledLine(Own(cur, "local"), FALSE)
        IN  e.msg.kind = "answer" /\ e.msg.id = cur /\ ~e.raw
    BY DEF MarshalledLine, Own, Message
  <2> QED
    BY <1>2, <2>1, SettledGrows DEF LocalDone, Write, AnsweredInv
<1>3. CASE UpstreamRelay
  BY <1>3, SettledGrows DEF UpstreamRelay, AnsweredInv
<1>4. CASE \E i \in Ids : ReadRequest(i)
  BY <1>4, SettledStays DEF ReadRequest, AnsweredInv
<1>5. CASE ReadRelayed \/ RelayDone \/ Eof
  BY <1>5, SettledStays DEF ReadRelayed, RelayDone, Eof, AnsweredInv
<1>6. CASE Exchange \/ Enqueue \/ Receive \/ Expire \/ GiveUp
  <2>1. UNCHANGED <<asked, cur, out>> /\ pc' \in Busy
    BY <1>6 DEF Exchange, PostJSON, PostStream, PostEmpty, PostFail,
       RouteError, Enqueue, Receive, Expire, GiveUp
  <2> QED
    BY <1>6, <2>1, SettledStays DEF AnsweredInv, Exchange, PostJSON, PostStream,
       PostEmpty, PostFail, RouteError, Enqueue, Receive, Expire, GiveUp
<1>7. CASE UNCHANGED <<agentVars, out>>
  BY <1>7, SettledStays DEF AnsweredInv
<1> QED
  BY <1>1, <1>2, <1>3, <1>4, <1>5, <1>6, <1>7
     DEF Next, AgentStep, UpstreamStep, Terminated, vars, StreamAnswer,
         StreamEnd, StreamPush, UpstreamRead, UpstreamResolve, UpstreamStop

\* The agent never sends a request that is left without an answer while the
\* proxy goes on to the next line, or leaves.
THEOREM EveryRequestAnswered == Spec => []AnsweredBeforeNextLine
<1>1. AnsweredInv => AnsweredBeforeNextLine
  BY DEF AnsweredInv, AnsweredBeforeNextLine, Busy
<1> QED
  BY <1>1, TypeInit, TypeStep, FlightInit, FlightStep, AnsweredInit,
     AnsweredStep, PTL DEF Spec

-----------------------------------------------------------------------------
(***************************************************************************)
(* 2. The agent gets one answer to a request, or two around a timeout.     *)
(*                                                                         *)
(* The argument follows an answer of the upstream through the program: it  *)
(* is produced once (by an exchange or by a stream), waits on the wire     *)
(* once, and from there on is in one place only: with readUpstream, in the *)
(* channel, in readAgent's hand, or written.                               *)
(***************************************************************************)

IsAnswer(m, i) == m # NoMsg /\ m.kind = "answer" /\ m.id = i

\* The answer of the upstream to request i ...
OnWire(i) == \E k \in 1..Len(wire) : IsAnswer(wire[k], i)
Due(i)    == \E k \in (taken + 1)..Len(wire) : IsAnswer(wire[k], i)
InRx(i)   == rx \in {"chan", "out"} /\ IsAnswer(rxMsg, i)
InChan(i) == chan[i] # NoMsg
InHand(i) == pc = "answer" /\ cur = i /\ hand.result \notin OwnResults

\* ... written raw, or written by readAgent;
FromUpstream(e, i) ==
    IsAnswer(e.msg, i) /\ (e.raw \/ e.msg.result \notin OwnResults)
InOut(i) == \E k \in 1..Len(out) : FromUpstream(out[k], i)

\* ... and an answer to it that the proxy makes up when there is no other.
GivenUp(e, i) ==
    IsAnswer(e.msg, i) /\ ~e.raw /\ e.msg.result \in {"failed", "local"}
GivenUpOut(i) == \E k \in 1..Len(out) : GivenUp(out[k], i)
Hopeless(i) ==
    \/ GivenUpOut(i)
    \/ pc = "answer" /\ cur = i /\ hand.result \in {"failed", "local"}
    \/ pc = "local" /\ cur = i

\* A line of readAgent's that answers the request.
OwnLine(e, i) == IsAnswer(e.msg, i) /\ ~e.raw

\* readAgent has the request in hand and has not settled it.
Working(i) == cur = i /\ pc \in Busy

\* The upstream may still answer.
Unanswered(i) == \/ i \notin asked
                 \/ cur = i /\ pc \in {"post", "enqueue"}
                 \/ stream[i] = "owing"

\* Nothing the upstream says has one of the proxy's own results.
Foreign(m) == m.result \notin OwnResults

ForeignInv ==
    /\ \A k \in 1..Len(wire) : Foreign(wire[k])
    /\ rx \in {"chan", "out"} => Foreign(rxMsg)
    /\ \A i \in Ids : chan[i] # NoMsg => Foreign(chan[i])
    /\ pc = "enqueue" => Foreign(hand) /\ hand.id = cur

\* It is produced once, and waits once.
WireOnce(i) == \A a, b \in 1..Len(wire) :
                  IsAnswer(wire[a], i) /\ IsAnswer(wire[b], i) => a = b

SourceInv(i) ==
    /\ Unanswered(i) => ~OnWire(i)
    /\ stream[i] # "none" =>
          i \in asked /\ ~(cur = i /\ pc \in {"post", "enqueue"})
    /\ WireOnce(i)
    /\ Hopeless(i) => i \in asked /\ ~OnWire(i) /\ stream[i] = "none"

\* It is in one place.
PlaceInv(i) ==
    /\ Due(i) => ~InRx(i) /\ ~InChan(i) /\ ~InHand(i) /\ ~InOut(i)
    /\ InRx(i) => ~InChan(i) /\ ~InHand(i) /\ ~InOut(i)
    /\ InChan(i) => ~InHand(i) /\ ~InOut(i)
    /\ InHand(i) => ~InOut(i)
    /\ InRx(i) \/ InChan(i) \/ InHand(i) \/ InOut(i) => OnWire(i)

\* It is written once, and readAgent writes one line for each request.
OutOnce(i) == \A a, b \in 1..Len(out) :
                 FromUpstream(out[a], i) /\ FromUpstream(out[b], i) => a = b
OwnOnce(i) == \A a, b \in 1..Len(out) :
                 OwnLine(out[a], i) /\ OwnLine(out[b], i) => a = b

OutInv(i) ==
    /\ OutOnce(i)
    /\ OwnOnce(i)
    /\ Settled(i) => i \in asked /\ ~Working(i)

OnceInv == ForeignInv /\ \A i \in Ids : SourceInv(i) /\ PlaceInv(i) /\ OutInv(i)

-----------------------------------------------------------------------------
(* What a step does to the wire and to the output *)

LEMMA AppendFacts ==
    ASSUME NEW S, NEW s \in Seq(S), NEW e, NEW t, t = Append(s, e)
    PROVE  /\ Len(s) \in Nat
           /\ Len(t) = Len(s) + 1
           /\ \A k \in 1..Len(s) : t[k] = s[k]
           /\ t[Len(s) + 1] = e
OBVIOUS

LEMMA WireSame ==
    ASSUME UNCHANGED wire, NEW i
    PROVE  /\ OnWire(i)' <=> OnWire(i)
           /\ WireOnce(i)' <=> WireOnce(i)
           /\ UNCHANGED taken => (Due(i)' <=> Due(i))
BY DEF OnWire, WireOnce, Due, IsAnswer

LEMMA WireGrows ==
    ASSUME TypeOK, NEW m, wire' = Append(wire, m), UNCHANGED taken, NEW i
    PROVE  /\ OnWire(i)' <=> OnWire(i) \/ IsAnswer(m, i)
           /\ Due(i)' <=> Due(i) \/ IsAnswer(m, i)
           /\ WireOnce(i) /\ (IsAnswer(m, i) => ~OnWire(i)) => WireOnce(i)'
<1>1. /\ Len(wire) \in Nat
      /\ Len(wire') = Len(wire) + 1
      /\ \A k \in 1..Len(wire) : wire'[k] = wire[k]
      /\ wire'[Len(wire) + 1] = m
  BY AppendFacts DEF TypeOK
<1>2. taken \in 0..Len(wire) /\ taken' = taken
  BY DEF TypeOK
<1> QED
  BY <1>1, <1>2 DEF OnWire, WireOnce, Due, IsAnswer

LEMMA OutSame ==
    ASSUME UNCHANGED out, NEW i
    PROVE  /\ InOut(i)' <=> InOut(i)
           /\ GivenUpOut(i)' <=> GivenUpOut(i)
           /\ OutOnce(i)' <=> OutOnce(i)
           /\ OwnOnce(i)' <=> OwnOnce(i)
           /\ Settled(i)' <=> Settled(i)
BY SettledStays
   DEF InOut, GivenUpOut, OutOnce, OwnOnce, FromUpstream, GivenUp, OwnLine,
       IsAnswer

LEMMA LineHoldsMessage ==
    ASSUME NEW e \in Entries
    PROVE  e.msg \in Msgs /\ e.msg # NoMsg /\ e.raw \in BOOLEAN
<1>1. e.msg \in Msgs /\ e.raw \in BOOLEAN
  BY DEF Entries
<1> QED
  BY <1>1, ConstantsAssumption

LEMMA SettledIsOwn ==
    ASSUME TypeOK, NEW i
    PROVE  Settled(i) <=> \E k \in 1..Len(out) : OwnLine(out[k], i)
<1>1. \A k \in 1..Len(out) : out[k] \in Entries
  BY DEF TypeOK
<1>2. \A k \in 1..Len(out) : out[k].msg # NoMsg
  BY <1>1, LineHoldsMessage
<1> QED
  BY <1>2, SettledMeans DEF OwnLine, IsAnswer

LEMMA OutGrows ==
    ASSUME TypeOK, NEW e \in Entries, out' = Append(out, e), NEW i
    PROVE  /\ InOut(i)' <=> InOut(i) \/ FromUpstream(e, i)
           /\ GivenUpOut(i)' <=> GivenUpOut(i) \/ GivenUp(e, i)
           /\ Settled(i)' <=> Settled(i) \/ OwnLine(e, i)
           /\ OutOnce(i) /\ (FromUpstream(e, i) => ~InOut(i)) => OutOnce(i)'
           /\ OwnOnce(i) /\ (OwnLine(e, i) => ~Settled(i)) => OwnOnce(i)'
<1>1. /\ Len(out) \in Nat
      /\ Len(out') = Len(out) + 1
      /\ \A k \in 1..Len(out) : out'[k] = out[k]
      /\ out'[Len(out) + 1] = e
  BY AppendFacts DEF TypeOK
<1>2. /\ InOut(i)' <=> InOut(i) \/ FromUpstream(e, i)
      /\ OutOnce(i) /\ (FromUpstream(e, i) => ~InOut(i)) => OutOnce(i)'
  BY <1>1 DEF InOut, OutOnce, FromUpstream, IsAnswer
<1>3. GivenUpOut(i)' <=> GivenUpOut(i) \/ GivenUp(e, i)
  BY <1>1 DEF GivenUpOut, GivenUp, IsAnswer
<1>4. Settled(i)' <=> \E k \in 1..Len(out') : OwnLine(out'[k], i)
  <2>1. \A k \in 1..Len(out') : out'[k].msg # NoMsg
    <3>1. \A k \in 1..Len(out') : out'[k] \in Entries
      BY <1>1 DEF TypeOK
    <3> QED
      BY <3>1, LineHoldsMessage
  <2>2. Settled(i)' <=> \E k \in 1..Len(out') : /\ out'[k].msg.kind = "answer"
                                                /\ out'[k].msg.id = i
                                                /\ ~out'[k].raw
    BY DEF Settled, AnswersTo
  <2> QED
    BY <2>1, <2>2 DEF OwnLine, IsAnswer
<1>5. Settled(i)' <=> Settled(i) \/ OwnLine(e, i)
  BY <1>1, <1>4, SettledIsOwn DEF OwnLine, IsAnswer
<1>6. OwnOnce(i) /\ (OwnLine(e, i) => ~Settled(i)) => OwnOnce(i)'
  BY <1>1, SettledIsOwn DEF OwnOnce, OwnLine, IsAnswer
<1> QED
  BY <1>2, <1>3, <1>5, <1>6

\* readUpstream takes the next message: if it answers request i, no other does.
LEMMA Takes ==
    ASSUME TypeOK, taken < Len(wire), taken' = taken + 1, UNCHANGED wire,
           NEW i, WireOnce(i)
    PROVE  /\ wire[taken + 1] \in Msgs
           /\ IsAnswer(wire[taken + 1], i) => Due(i) /\ OnWire(i) /\ ~Due(i)'
           /\ Due(i)' => Due(i)
<1>1. /\ taken \in Nat
      /\ Len(wire) \in Nat
      /\ taken + 1 \in 1..Len(wire)
      /\ wire[taken + 1] \in Msgs
  BY DEF TypeOK
<1>2. IsAnswer(wire[taken + 1], i) => Due(i) /\ OnWire(i)
  BY <1>1 DEF Due, OnWire
<1>3. Due(i)' <=> \E k \in (taken + 2)..Len(wire) : IsAnswer(wire[k], i)
  BY <1>1 DEF Due, IsAnswer
<1>4. Due(i)' => Due(i)
  BY <1>1, <1>3 DEF Due
<1>5. IsAnswer(wire[taken + 1], i) => ~Due(i)'
  BY <1>1, <1>3 DEF WireOnce
<1> QED
  BY <1>1, <1>2, <1>4, <1>5

\* A request the proxy has made up an answer to is settled.
LEMMA GivenUpSettles ==
    ASSUME TypeOK, NEW i
    PROVE  GivenUpOut(i) => Settled(i)
BY SettledIsOwn DEF GivenUpOut, GivenUp, OwnLine

-----------------------------------------------------------------------------
LEMMA OnceInit == Init => OnceInv
BY DEF Init, OnceInv, ForeignInv, SourceInv, PlaceInv, OutInv, OnWire, Due,
       InRx, InChan, InHand, InOut, GivenUpOut, Hopeless, Working, Busy,
       Unanswered, WireOnce, OutOnce, OwnOnce, Settled, AnswersTo

LEMMA ForeignGrows ==
    ASSUME TypeOK, ForeignInv, NEW m, wire' = Append(wire, m), Foreign(m)
    PROVE  \A k \in 1..Len(wire') : Foreign(wire'[k])
<1>1. /\ Len(wire) \in Nat
      /\ Len(wire') = Len(wire) + 1
      /\ \A k \in 1..Len(wire) : wire'[k] = wire[k]
      /\ wire'[Len(wire) + 1] = m
  BY AppendFacts DEF TypeOK
<1> QED
  BY <1>1 DEF ForeignInv

LEMMA ForeignStep == TypeInv /\ ForeignInv /\ [Next]_vars => ForeignInv'
<1> SUFFICES ASSUME TypeInv, ForeignInv, [Next]_vars PROVE ForeignInv'
  OBVIOUS
<1> USE DEF TypeInv, TypeOK, agentVars, upstreamVars, netVars
<1>1. CASE PostJSON
  <2>1. \A m \in Answers(cur) \cup {Junk(cur)} : Foreign(m) /\ m.id = cur
    BY ConstantsAssumption
       DEF Answers, Junk, Message, Foreign, OwnResults, UpstreamResults
  <2> QED
    BY <1>1, <2>1 DEF PostJSON, ForeignInv, Foreign
<1>2. CASE Enqueue
  <2>1. Foreign(hand)
    BY <1>2 DEF Enqueue, ForeignInv
  <2>2. \A k \in 1..Len(wire') : Foreign(wire'[k])
    BY <1>2, <2>1, ForeignGrows DEF Enqueue, Enqueued
  <2> QED
    BY <1>2, <2>2 DEF Enqueue, ForeignInv, Foreign
<1>3. CASE \E i \in Ids : StreamAnswer(i)
  <2> PICK i \in Ids : StreamAnswer(i)
    BY <1>3
  <2>1. PICK m \in Answers(i) : Enqueued(m)
    BY DEF StreamAnswer
  <2>2. Foreign(m)
    BY ConstantsAssumption
       DEF Answers, Message, Foreign, OwnResults, UpstreamResults
  <2>3. \A k \in 1..Len(wire') : Foreign(wire'[k])
    BY <2>1, <2>2, ForeignGrows DEF Enqueued
  <2> QED
    BY <2>3 DEF StreamAnswer, ForeignInv, Foreign
<1>4. CASE \E i \in Ids, p \in Pushes : StreamPush(i, p)
  <2>1. PICK i \in Ids, p \in Pushes : StreamPush(i, p)
    BY <1>4
  <2>2. Foreign(Message("push", p, "none"))
    BY DEF Message, Foreign, OwnResults
  <2>3. \A k \in 1..Len(wire') : Foreign(wire'[k])
    BY <2>1, <2>2, ForeignGrows DEF StreamPush, Enqueued
  <2> QED
    BY <2>1, <2>3 DEF StreamPush, ForeignInv, Foreign
<1>5. CASE UpstreamRead
  BY <1>5 DEF UpstreamRead, Destination, ForeignInv, Foreign
<1>6. CASE UpstreamResolve
  BY <1>6 DEF UpstreamResolve, Resolved, ForeignInv, Foreign
<1>7. CASE Receive
  BY <1>7 DEF Receive, ForeignInv, Foreign
<1>8. CASE /\ UNCHANGED <<wire, chan>>
           /\ pc' # "enqueue" \/ UNCHANGED agentVars
           /\ rx' \notin {"chan", "out"} \/ UNCHANGED <<rx, rxMsg>>
  BY <1>8 DEF ForeignInv, Foreign
<1> QED
  BY <1>1, <1>2, <1>3, <1>4, <1>5, <1>6, <1>7, <1>8
     DEF Next, Exchange, AgentStep, UpstreamStep, Terminated, vars,
         ReadRequest, ReadRelayed, RelayDone, Eof, PostStream, PostEmpty,
         PostFail, RouteError, Expire, GiveUp, Answer, Write, LocalDone,
         StreamEnd, UpstreamRelay, UpstreamStop

OnceFor(i) == SourceInv(i) /\ PlaceInv(i) /\ OutInv(i)

LEMMA OnceStep ==
    ASSUME TypeInv, FlightInv, OnceInv, [Next]_vars, NEW i \in Ids
    PROVE  OnceFor(i)'
<1> USE DEF TypeInv, TypeOK, RegistersOK, FlightInv, Busy, agentVars,
            upstreamVars, netVars
<1>0. OnceFor(i) /\ ForeignInv
  BY DEF OnceInv, OnceFor
<1> USE DEF OnceFor, SourceInv, PlaceInv, OutInv, Unanswered, Hopeless, InRx,
            InChan, InHand, Working, IsAnswer, OwnResults
<1>w. UNCHANGED wire => /\ OnWire(i)' <=> OnWire(i)
                        /\ WireOnce(i)' <=> WireOnce(i)
                        /\ UNCHANGED taken => (Due(i)' <=> Due(i))
  BY WireSame
<1>o. UNCHANGED out => /\ InOut(i)' <=> InOut(i)
                       /\ GivenUpOut(i)' <=> GivenUpOut(i)
                       /\ OutOnce(i)' <=> OutOnce(i)
                       /\ OwnOnce(i)' <=> OwnOnce(i)
                       /\ Settled(i)' <=> Settled(i)
  BY OutSame
<1>g. GivenUpOut(i) => Settled(i)
  BY GivenUpSettles
<1>1. CASE \E j \in Ids : ReadRequest(j)
  BY <1>0, <1>1, <1>w, <1>o DEF ReadRequest
<1>2. CASE ReadRelayed \/ RelayDone \/ Eof
  BY <1>0, <1>2, <1>w, <1>o DEF ReadRelayed, RelayDone, Eof
<1>3. CASE PostJSON
  BY <1>0, <1>3, <1>w, <1>o DEF PostJSON
<1>4. CASE PostStream
  BY <1>0, <1>4, <1>w, <1>o, <1>g DEF PostStream
<1>5. CASE PostEmpty
  BY <1>0, <1>5, <1>w, <1>o DEF PostEmpty
<1>6. CASE PostFail
  BY <1>0, <1>6, <1>w, <1>o DEF PostFail, RouteError, Own, Message
<1>7. CASE Enqueue
  <2>1. wire' = Append(wire, hand) /\ UNCHANGED <<taken, out>>
    BY <1>7 DEF Enqueue, Enqueued
  <2>2. /\ OnWire(i)' <=> OnWire(i) \/ IsAnswer(hand, i)
        /\ Due(i)' <=> Due(i) \/ IsAnswer(hand, i)
        /\ WireOnce(i) /\ (IsAnswer(hand, i) => ~OnWire(i)) => WireOnce(i)'
    BY <2>1, WireGrows
  <2>3. IsAnswer(hand, i) => cur = i
    BY <1>0, <1>7 DEF Enqueue, ForeignInv
  <2> QED
    BY <1>0, <1>7, <1>o, <1>g, <2>1, <2>2, <2>3 DEF Enqueue
<1>8. CASE Receive
  BY <1>0, <1>8, <1>w, <1>o DEF Receive, ForeignInv, Foreign
<1>9. CASE Expire
  BY <1>0, <1>9, <1>w, <1>o DEF Expire
<1>10. CASE GiveUp
  BY <1>0, <1>10, <1>w, <1>o DEF GiveUp, Own, Message
<1>11. CASE Answer
  <2>1. CASE \E e \in Entries : /\ Write(e)
                                /\ \E b \in BOOLEAN :
                                      e = MarshalledLine(hand, b)
    <3>1. PICK e \in Entries : /\ Write(e)
                               /\ \E b \in BOOLEAN :
                                     e = MarshalledLine(hand, b)
      BY <2>1
    <3>2. e.msg = hand /\ e.raw = FALSE
      BY <3>1 DEF MarshalledLine
    <3>3. hand \in Msgs /\ hand.kind = "answer" /\ hand.id = cur
      BY <1>11 DEF Answer
    <3>4. /\ InOut(i)' <=> InOut(i) \/ FromUpstream(e, i)
          /\ GivenUpOut(i)' <=> GivenUpOut(i) \/ GivenUp(e, i)
          /\ Settled(i)' <=> Settled(i) \/ OwnLine(e, i)
          /\ OutOnce(i) /\ (FromUpstream(e, i) => ~InOut(i)) => OutOnce(i)'
          /\ OwnOnce(i) /\ (OwnLine(e, i) => ~Settled(i)) => OwnOnce(i)'
      BY <3>1, OutGrows DEF Write
    <3>5. /\ FromUpstream(e, i) <=> InHand(i)
          /\ GivenUp(e, i) <=> cur = i /\ hand.result \in {"failed", "local"}
          /\ OwnLine(e, i) <=> cur = i
      BY <1>11, <3>2, <3>3, ConstantsAssumption
         DEF Answer, FromUpstream, GivenUp, OwnLine
    <3> QED
      BY <1>0, <1>11, <1>w, <3>1, <3>4, <3>5, ConstantsAssumption
         DEF Answer, Write
  <2>2. CASE pc' = "panic" /\ UNCHANGED <<cur, hand, out>>
    BY <1>0, <1>11, <2>2, <1>w, <1>o DEF Answer
  <2> QED
    BY <1>11, <2>1, <2>2, AnswerWrites DEF Answer
<1>12. CASE LocalDone
  <2> DEFINE e == MarshalledLine(Own(cur, "local"), FALSE)
  <2>1. cur \in Ids /\ "local" \in OwnResults
    BY <1>12 DEF LocalDone
  <2>2. e \in Entries /\ Own(cur, "local") \in Msgs
    BY <2>1, OwnType, LineTypes
  <2>3. /\ e.msg # NoMsg
        /\ e.msg.kind = "answer" /\ e.msg.id = cur /\ e.msg.result = "local"
        /\ e.raw = FALSE
    BY <2>2, ConstantsAssumption DEF MarshalledLine, Own, Message
  <2>4. out' = Append(out, e)
    BY <1>12 DEF LocalDone, Write
  <2> HIDE DEF e
  <2>5. /\ InOut(i)' <=> InOut(i) \/ FromUpstream(e, i)
        /\ GivenUpOut(i)' <=> GivenUpOut(i) \/ GivenUp(e, i)
        /\ Settled(i)' <=> Settled(i) \/ OwnLine(e, i)
        /\ OutOnce(i) /\ (FromUpstream(e, i) => ~InOut(i)) => OutOnce(i)'
        /\ OwnOnce(i) /\ (OwnLine(e, i) => ~Settled(i)) => OwnOnce(i)'
    BY <2>2, <2>4, OutGrows
  <2>6. /\ ~FromUpstream(e, i)
        /\ GivenUp(e, i) <=> cur = i
        /\ OwnLine(e, i) <=> cur = i
    BY <2>3 DEF FromUpstream, GivenUp, OwnLine
  <2> QED
    BY <1>0, <1>12, <1>w, <2>5, <2>6, ConstantsAssumption DEF LocalDone, Write
<1>13. CASE \E j \in Ids : StreamAnswer(j)
  <2> PICK j \in Ids : StreamAnswer(j)
    BY <1>13
  <2>1. PICK m \in Answers(j) : Enqueued(m)
    BY DEF StreamAnswer
  <2>2. m.id = j
    BY DEF Answers, Message
  <2>3. /\ OnWire(i)' <=> OnWire(i) \/ IsAnswer(m, i)
        /\ Due(i)' <=> Due(i) \/ IsAnswer(m, i)
        /\ WireOnce(i) /\ (IsAnswer(m, i) => ~OnWire(i)) => WireOnce(i)'
    BY <2>1, WireGrows DEF StreamAnswer, Enqueued
  <2>4. IsAnswer(m, i) => i = j
    BY <2>2
  <2> HIDE DEF IsAnswer
  <2> QED
    BY <1>0, <1>o, <2>3, <2>4 DEF StreamAnswer
<1>14. CASE \E j \in Ids : StreamEnd(j)
  BY <1>0, <1>14, <1>w, <1>o DEF StreamEnd
<1>15. CASE \E j \in Ids, p \in Pushes : StreamPush(j, p)
  <2> PICK j \in Ids, p \in Pushes : StreamPush(j, p)
    BY <1>15
  <2> DEFINE m == Message("push", p, "none")
  <2>1. ~IsAnswer(m, i)
    BY DEF Message
  <2>2. /\ OnWire(i)' <=> OnWire(i) \/ IsAnswer(m, i)
        /\ Due(i)' <=> Due(i) \/ IsAnswer(m, i)
        /\ WireOnce(i) /\ (IsAnswer(m, i) => ~OnWire(i)) => WireOnce(i)'
    BY WireGrows DEF StreamPush, Enqueued
  <2> HIDE DEF m
  <2> QED
    BY <1>0, <1>o, <2>1, <2>2 DEF StreamPush
<1>16. CASE UpstreamRead
  <2> DEFINE m == wire[taken + 1]
  <2>1. /\ m \in Msgs
        /\ IsAnswer(m, i) => Due(i) /\ OnWire(i) /\ ~Due(i)'
        /\ Due(i)' => Due(i)
    BY <1>0, <1>16, Takes DEF UpstreamRead
  <2>2. InRx(i)' => IsAnswer(m, i)
    BY <1>16 DEF UpstreamRead, Destination
  <2>3. ~InRx(i)
    BY <1>16 DEF UpstreamRead, Free
  <2> HIDE DEF m
  <2> QED
    BY <1>0, <1>16, <1>w, <1>o, <2>1, <2>2, <2>3 DEF UpstreamRead
<1>17. CASE UpstreamResolve
  BY <1>0, <1>17, <1>w, <1>o DEF UpstreamResolve, Resolved, CanSend
<1>18. CASE UpstreamRelay
  <2> DEFINE e == RawLine(rxMsg)
  <2>1. e \in Entries /\ e.msg = rxMsg /\ e.raw = TRUE
    BY <1>18, LineTypes DEF UpstreamRelay, RawLine
  <2>2. out' = Append(out, e)
    BY <1>18 DEF UpstreamRelay
  <2> HIDE DEF e
  <2>3. /\ InOut(i)' <=> InOut(i) \/ FromUpstream(e, i)
        /\ GivenUpOut(i)' <=> GivenUpOut(i) \/ GivenUp(e, i)
        /\ Settled(i)' <=> Settled(i) \/ OwnLine(e, i)
        /\ OutOnce(i) /\ (FromUpstream(e, i) => ~InOut(i)) => OutOnce(i)'
        /\ OwnOnce(i) /\ (OwnLine(e, i) => ~Settled(i)) => OwnOnce(i)'
    BY <2>1, <2>2, OutGrows
  <2>4. /\ FromUpstream(e, i) <=> InRx(i)
        /\ ~GivenUp(e, i)
        /\ ~OwnLine(e, i)
    BY <1>18, <2>1 DEF UpstreamRelay, FromUpstream, GivenUp, OwnLine
  <2> QED
    BY <1>0, <1>18, <1>w, <2>3, <2>4 DEF UpstreamRelay
<1>19. CASE UpstreamStop
  BY <1>0, <1>19, <1>w, <1>o DEF UpstreamStop
<1>20. CASE UNCHANGED vars
  BY <1>0, <1>20, <1>w, <1>o DEF vars
<1> QED
  BY <1>1, <1>2, <1>3, <1>4, <1>5, <1>6, <1>7, <1>8, <1>9, <1>10, <1>11,
     <1>12, <1>13, <1>14, <1>15, <1>16, <1>17, <1>18, <1>19, <1>20
     DEF Next, Exchange, AgentStep, UpstreamStep, Terminated

LEMMA OnceSteps == TypeInv /\ FlightInv /\ OnceInv /\ [Next]_vars => OnceInv'
<1> SUFFICES ASSUME TypeInv, FlightInv, OnceInv, [Next]_vars PROVE OnceInv'
  OBVIOUS
<1>1. ForeignInv'
  BY ForeignStep DEF OnceInv
<1>2. \A i \in Ids : OnceFor(i)'
  BY OnceStep
<1> QED
  BY <1>1, <1>2 DEF OnceInv, OnceFor

LEMMA OnceMeans ==
    ASSUME TypeOK, OnceInv, NEW i \in Ids,
           NEW j \in AnswersTo(i), NEW k \in AnswersTo(i), j # k
    PROVE  /\ out[j].raw # out[k].raw
           /\ ~out[j].raw => out[j].msg.result = "timeout"
<1>1. /\ j \in 1..Len(out) /\ IsAnswer(out[j].msg, i)
      /\ k \in 1..Len(out) /\ IsAnswer(out[k].msg, i)
  <2>1. \A l \in 1..Len(out) : out[l] \in Entries
    BY DEF TypeOK
  <2>2. \A l \in 1..Len(out) : out[l].msg # NoMsg
    BY <2>1, LineHoldsMessage
  <2> QED
    BY <2>2 DEF AnswersTo, IsAnswer
<1>2. out[j].raw \in BOOLEAN /\ out[k].raw \in BOOLEAN
  <2>1. out[j] \in Entries /\ out[k] \in Entries
    BY <1>1 DEF TypeOK
  <2> QED
    BY <2>1, LineHoldsMessage
<1>3. ~(~out[j].raw /\ ~out[k].raw)
  BY <1>1 DEF OnceInv, OutInv, OwnOnce, OwnLine
<1>4. ~(FromUpstream(out[j], i) /\ FromUpstream(out[k], i))
  BY <1>1 DEF OnceInv, OutInv, OutOnce
<1>5. ~(out[j].raw /\ out[k].raw)
  BY <1>1, <1>4 DEF FromUpstream
<1>6. ASSUME ~out[j].raw PROVE out[j].msg.result = "timeout"
  <2>1. out[k].raw
    BY <1>3, <1>6
  <2>2. OnWire(i)
    BY <1>1, <2>1 DEF OnceInv, PlaceInv, InOut, FromUpstream
  <2>3. ~GivenUp(out[j], i)
    BY <1>1, <2>2 DEF OnceInv, SourceInv, Hopeless, GivenUpOut
  <2> QED
    BY <1>1, <1>4, <1>6, <2>1, <2>3 DEF FromUpstream, GivenUp, OwnResults
<1> QED
  BY <1>2, <1>3, <1>5, <1>6

\* The agent gets one answer to a request, or two around a timeout: whatever
\* the two goroutines and the streams do in whatever order, no answer is both
\* received by forwardRequest and relayed, and none is written after readAgent
\* has made up one for a request that had failed.
THEOREM AgentGetsOneAnswer == Spec => []OneAnswer
<1>1. TypeInv /\ OnceInv => OneAnswer
  <2> SUFFICES ASSUME TypeOK, OnceInv, NEW i \in Ids,
                      NEW j \in AnswersTo(i), NEW k \in AnswersTo(i), j # k
               PROVE  /\ out[j].raw # out[k].raw
                      /\ ~out[j].raw => out[j].msg.result = "timeout"
                      /\ AnswersTo(i) = {j, k}
    BY DEF TypeInv, OneAnswer
  <2>1. \A l \in AnswersTo(i) : out[l].raw \in BOOLEAN
    <3>1. \A l \in AnswersTo(i) : out[l] \in Entries
      BY DEF TypeOK, AnswersTo
    <3> QED
      BY <3>1, LineHoldsMessage
  <2>2. \A l \in AnswersTo(i) : l # j /\ l # k => /\ out[l].raw # out[j].raw
                                                  /\ out[l].raw # out[k].raw
    BY OnceMeans
  <2>3. /\ out[j].raw # out[k].raw
        /\ ~out[j].raw => out[j].msg.result = "timeout"
    BY OnceMeans
  <2> QED
    BY <2>1, <2>2, <2>3
<1> QED
  BY <1>1, TypeInit, TypeStep, FlightInit, FlightStep, OnceInit, OnceSteps, PTL
     DEF Spec

-----------------------------------------------------------------------------
(***************************************************************************)
(* 3. The pipe implements RequestReply: initial states map to initial      *)
(* states, and every step of Proxy to a step of RequestReply or to a       *)
(* stutter.                                                                *)
(*                                                                         *)
(* Only a line written to the agent, a request read and the end of the     *)
(* input are seen.  That what is written is promised follows from where    *)
(* an answer can be (part 2), and from the same argument, made here,       *)
(* about a message of the upstream's own.                                  *)
(***************************************************************************)

\* What has an id of the agent's answers, what has one of the upstream's asks.
Shaped(m) == /\ m.kind = "answer" => m.id \in Ids
             /\ m.kind = "push" => m.id \in Pushes

ShapeInv ==
    /\ \A k \in 1..Len(wire) : Shaped(wire[k])
    /\ pc = "enqueue" => Shaped(hand) /\ hand.kind # "push"
    /\ rx = "out" => Shaped(rxMsg) /\ rxMsg.kind # "junk"

\* A message p of the upstream's own: on the wire, with readUpstream, written.
IsPush(m, p)  == m.kind = "push" /\ m.id = p
PushDue(p)    == \E k \in (taken + 1)..Len(wire) : IsPush(wire[k], p)
PushInRx(p)   == rx = "out" /\ IsPush(rxMsg, p)
PushOut(p)    == \E k \in 1..Len(out) : out[k].msg.id = p
PushOnce(p)   == \A a, b \in 1..Len(wire) :
                    IsPush(wire[a], p) /\ IsPush(wire[b], p) => a = b

\* It is sent once and is in one place.
PushInv(p) ==
    /\ PushOnce(p)
    /\ PushDue(p) => ~PushInRx(p) /\ ~PushOut(p)
    /\ PushInRx(p) => ~PushOut(p)
    /\ PushInRx(p) \/ PushOut(p) => Sent(p)

PushesInv == ShapeInv /\ \A p \in Pushes : PushInv(p)

-----------------------------------------------------------------------------
(* The pushes *)

LEMMA PushInit == Init => PushesInv
BY DEF Init, PushesInv, ShapeInv, PushInv, PushOnce, PushDue, PushInRx, PushOut

LEMMA ShapeGrows ==
    ASSUME TypeOK, ShapeInv, NEW m, Shaped(m), wire' = Append(wire, m)
    PROVE  \A k \in 1..Len(wire') : Shaped(wire'[k])
<1>1. /\ Len(wire) \in Nat
      /\ Len(wire') = Len(wire) + 1
      /\ \A k \in 1..Len(wire) : wire'[k] = wire[k]
      /\ wire'[Len(wire) + 1] = m
  BY AppendFacts DEF TypeOK
<1> QED
  BY <1>1 DEF ShapeInv

LEMMA ShapeStep == TypeInv /\ ShapeInv /\ [Next]_vars => ShapeInv'
<1> SUFFICES ASSUME TypeInv, ShapeInv, [Next]_vars PROVE ShapeInv'
  OBVIOUS
<1> USE DEF TypeInv, TypeOK, RegistersOK, Busy, agentVars, upstreamVars, netVars
<1>1. CASE PostJSON
  <2>1. \A m \in Answers(cur) \cup {Junk(cur)} : Shaped(m) /\ m.kind # "push"
    BY <1>1 DEF PostJSON, Answers, Junk, Message, Shaped
  <2> QED
    BY <1>1, <2>1 DEF PostJSON, ShapeInv, Shaped
<1>2. CASE Enqueue
  <2>1. \A k \in 1..Len(wire') : Shaped(wire'[k])
    BY <1>2, ShapeGrows DEF Enqueue, Enqueued, ShapeInv
  <2> QED
    BY <1>2, <2>1 DEF Enqueue, ShapeInv, Shaped
<1>3. CASE \E i \in Ids : StreamAnswer(i)
  <2> PICK i \in Ids : StreamAnswer(i)
    BY <1>3
  <2>1. PICK m \in Answers(i) : Enqueued(m)
    BY DEF StreamAnswer
  <2>2. Shaped(m)
    BY DEF Answers, Message, Shaped
  <2>3. \A k \in 1..Len(wire') : Shaped(wire'[k])
    BY <2>1, <2>2, ShapeGrows DEF Enqueued
  <2> QED
    BY <2>3 DEF StreamAnswer, ShapeInv, Shaped
<1>4. CASE \E i \in Ids, p \in Pushes : StreamPush(i, p)
  <2>1. PICK i \in Ids, p \in Pushes : StreamPush(i, p)
    BY <1>4
  <2>2. Shaped(Message("push", p, "none"))
    BY DEF Message, Shaped
  <2>3. \A k \in 1..Len(wire') : Shaped(wire'[k])
    BY <2>1, <2>2, ShapeGrows DEF StreamPush, Enqueued
  <2> QED
    BY <2>1, <2>3 DEF StreamPush, ShapeInv, Shaped
<1>5. CASE UpstreamRead
  BY <1>5 DEF UpstreamRead, Destination, ShapeInv, Shaped
<1>6. CASE /\ UNCHANGED wire
           /\ pc' # "enqueue" \/ UNCHANGED agentVars
           /\ rx' # "out" \/ UNCHANGED <<rx, rxMsg>>
  BY <1>6 DEF ShapeInv, Shaped
<1> QED
  BY <1>1, <1>2, <1>3, <1>4, <1>5, <1>6
     DEF Next, Exchange, AgentStep, UpstreamStep, Terminated, vars,
         ReadRequest, ReadRelayed, RelayDone, Eof, PostStream, PostEmpty,
         PostFail, RouteError, Receive, Expire, GiveUp, Answer, Write, LocalDone,
         StreamEnd, UpstreamResolve, Resolved, UpstreamRelay, UpstreamStop

\* What a message added to the wire does to the pushes there.
LEMMA PushWireGrows ==
    ASSUME TypeOK, NEW m, wire' = Append(wire, m), UNCHANGED taken, NEW p
    PROVE  /\ Sent(p)' <=> Sent(p) \/ IsPush(m, p)
           /\ PushDue(p)' <=> PushDue(p) \/ IsPush(m, p)
           /\ PushOnce(p) /\ (IsPush(m, p) => ~Sent(p)) => PushOnce(p)'
<1>1. /\ Len(wire) \in Nat
      /\ Len(wire') = Len(wire) + 1
      /\ \A k \in 1..Len(wire) : wire'[k] = wire[k]
      /\ wire'[Len(wire) + 1] = m
  BY AppendFacts DEF TypeOK
<1>2. taken \in 0..Len(wire) /\ taken' = taken
  BY DEF TypeOK
<1> QED
  BY <1>1, <1>2 DEF Sent, PushOnce, PushDue, IsPush

LEMMA PushWireSame ==
    ASSUME UNCHANGED wire, NEW p
    PROVE  /\ Sent(p)' <=> Sent(p)
           /\ PushOnce(p)' <=> PushOnce(p)
           /\ UNCHANGED taken => (PushDue(p)' <=> PushDue(p))
BY DEF Sent, PushOnce, PushDue, IsPush

LEMMA PushOutGrows ==
    ASSUME TypeOK, NEW e, out' = Append(out, e), NEW p
    PROVE  PushOut(p)' <=> PushOut(p) \/ e.msg.id = p
<1>1. /\ Len(out) \in Nat
      /\ Len(out') = Len(out) + 1
      /\ \A k \in 1..Len(out) : out'[k] = out[k]
      /\ out'[Len(out) + 1] = e
  BY AppendFacts DEF TypeOK
<1> QED
  BY <1>1 DEF PushOut

LEMMA PushOutSame ==
    ASSUME UNCHANGED out, NEW p
    PROVE  PushOut(p)' <=> PushOut(p)
BY DEF PushOut

\* The line readAgent writes in a step, if any, has the id of its request.
LEMMA OwnLines ==
    ASSUME TypeInv, FlightInv, Answer \/ LocalDone
    PROVE  \/ \E e \in Entries : /\ Write(e)
                                 /\ IsAnswer(e.msg, cur) /\ ~e.raw
                                 /\ \/ Answer /\ e.msg = hand
                                    \/ LocalDone /\ e.msg.result = "local"
           \/ Answer /\ pc' = "panic" /\ UNCHANGED <<cur, hand, out>>
<1>1. CASE Answer
  <2>1. hand \in Msgs /\ hand.kind = "answer" /\ hand.id = cur /\ hand # NoMsg
    BY <1>1, ConstantsAssumption
       DEF Answer, TypeInv, RegistersOK, FlightInv
  <2>2. CASE \E e \in Entries : /\ Write(e)
                                /\ \E b \in BOOLEAN :
                                      e = MarshalledLine(hand, b)
    <3>1. PICK e \in Entries : /\ Write(e)
                               /\ \E b \in BOOLEAN :
                                     e = MarshalledLine(hand, b)
      BY <2>2
    <3>2. e.msg = hand /\ e.raw = FALSE
      BY <3>1 DEF MarshalledLine
    <3> QED
      BY <1>1, <2>1, <3>1, <3>2 DEF IsAnswer
  <2> QED
    BY <1>1, <2>1, <2>2, AnswerWrites
<1>2. CASE LocalDone
  <2> DEFINE e == MarshalledLine(Own(cur, "local"), FALSE)
  <2>1. cur \in Ids /\ "local" \in OwnResults
    BY <1>2 DEF LocalDone, OwnResults, TypeInv, TypeOK, RegistersOK, Busy
  <2>2. e \in Entries
    BY <2>1, OwnType, LineTypes
  <2>3. /\ e.msg.kind = "answer" /\ e.msg.id = cur /\ e.msg.result = "local"
        /\ e.raw = FALSE
    BY DEF MarshalledLine, Own, Message
  <2>4. e.msg # NoMsg
    BY <2>2, LineHoldsMessage
  <2>5. Write(e)
    BY <1>2 DEF LocalDone
  <2> HIDE DEF e
  <2> QED
    BY <1>2, <2>2, <2>3, <2>4, <2>5 DEF IsAnswer
<1> QED
  BY <1>1, <1>2

LEMMA PushStep ==
    ASSUME TypeInv, FlightInv, PushesInv, [Next]_vars, NEW p \in Pushes
    PROVE  PushInv(p)'
<1> USE DEF TypeInv, PushInv, PushInRx
<1>0. PushInv(p) /\ ShapeInv
  BY DEF PushesInv
<1>w. UNCHANGED wire => /\ Sent(p)' <=> Sent(p)
                        /\ PushOnce(p)' <=> PushOnce(p)
                        /\ UNCHANGED taken => (PushDue(p)' <=> PushDue(p))
  BY PushWireSame
<1>o. UNCHANGED out => (PushOut(p)' <=> PushOut(p))
  BY PushOutSame
<1>1. CASE Enqueue
  <2>1. ~IsPush(hand, p)
    BY <1>0, <1>1 DEF Enqueue, ShapeInv, IsPush
  <2>2. wire' = Append(wire, hand) /\ UNCHANGED <<taken, rx, rxMsg, out>>
    BY <1>1 DEF Enqueue, Enqueued, upstreamVars
  <2> QED
    BY <1>0, <1>o, <2>1, <2>2, PushWireGrows DEF IsPush
<1>2. CASE \E i \in Ids : StreamAnswer(i)
  <2> PICK i \in Ids : StreamAnswer(i)
    BY <1>2
  <2>1. PICK m \in Answers(i) : wire' = Append(wire, m)
    BY DEF StreamAnswer, Enqueued
  <2>2. ~IsPush(m, p)
    BY DEF Answers, Message, IsPush
  <2>3. UNCHANGED <<taken, rx, rxMsg, out>>
    BY DEF StreamAnswer, upstreamVars
  <2> QED
    BY <1>0, <1>o, <2>1, <2>2, <2>3, PushWireGrows DEF IsPush
<1>3. CASE \E i \in Ids, q \in Pushes : StreamPush(i, q)
  <2> PICK i \in Ids, q \in Pushes : StreamPush(i, q)
    BY <1>3
  <2> DEFINE m == Message("push", q, "none")
  <2>1. wire' = Append(wire, m) /\ UNCHANGED <<taken, rx, rxMsg, out>> /\ ~Sent(q)
    BY DEF StreamPush, Enqueued, upstreamVars
  <2>2. IsPush(m, p) <=> p = q
    BY DEF Message, IsPush
  <2>3. /\ Sent(p)' <=> Sent(p) \/ IsPush(m, p)
        /\ PushDue(p)' <=> PushDue(p) \/ IsPush(m, p)
        /\ PushOnce(p) /\ (IsPush(m, p) => ~Sent(p)) => PushOnce(p)'
    BY <2>1, PushWireGrows
  <2> HIDE DEF m
  <2> QED
    BY <1>0, <1>o, <2>1, <2>2, <2>3 DEF IsPush
<1>4. CASE UpstreamRead
  <2> DEFINE m == wire[taken + 1]
  <2>1. /\ taken \in Nat /\ Len(wire) \in Nat /\ taken + 1 \in 1..Len(wire)
        /\ taken' = taken + 1 /\ wire' = wire /\ out' = out /\ rx = "idle"
    BY <1>4 DEF UpstreamRead, Free, TypeOK, netVars
  <2>2. PushDue(p)' <=> \E k \in (taken + 2)..Len(wire) : IsPush(wire[k], p)
    BY <2>1 DEF PushDue, IsPush
  <2>3. /\ PushDue(p)' => PushDue(p)
        /\ IsPush(m, p) => PushDue(p) /\ Sent(p)
        /\ IsPush(m, p) /\ PushOnce(p) => ~PushDue(p)'
    BY <2>1, <2>2 DEF PushDue, Sent, PushOnce, IsPush
  <2>4. PushInRx(p)' => IsPush(m, p)
    BY <1>4 DEF UpstreamRead, Destination, IsPush
  <2> HIDE DEF m, PushInRx
  <2>5. ~PushInRx(p)
    BY <2>1 DEF PushInRx
  <2> QED
    BY <1>0, <1>w, <1>o, <2>1, <2>3, <2>4, <2>5
<1>5. CASE UpstreamRelay
  <2> DEFINE e == RawLine(rxMsg)
  <2>1. e.msg = rxMsg /\ out' = Append(out, e)
    BY <1>5 DEF UpstreamRelay, RawLine
  <2>2. UNCHANGED <<wire, taken>> /\ rx' = "idle" /\ rx = "out"
    BY <1>5 DEF UpstreamRelay, netVars
  <2>3. PushOut(p)' <=> PushOut(p) \/ rxMsg.id = p
    BY <2>1, PushOutGrows
  <2>4. rxMsg.id = p => IsPush(rxMsg, p)
    BY <1>0, <2>2, <1>5, ConstantsAssumption
       DEF ShapeInv, Shaped, IsPush, Msgs, RegistersOK
  <2> QED
    BY <1>0, <1>w, <2>2, <2>3, <2>4
<1>6. CASE Answer \/ LocalDone
  <2>1. UNCHANGED <<wire, taken, rx, rxMsg>>
    BY <1>6 DEF Answer, LocalDone, netVars, upstreamVars
  <2>2. PushOut(p)' <=> PushOut(p)
    <3>1. CASE \E e \in Entries : Write(e) /\ IsAnswer(e.msg, cur)
      <4> PICK e \in Entries : Write(e) /\ IsAnswer(e.msg, cur)
        BY <3>1
      <4>1. cur \in Ids /\ e.msg.id = cur /\ out' = Append(out, e)
        BY <1>6 DEF Write, IsAnswer, Answer, LocalDone, RegistersOK, Busy, TypeOK
      <4> QED
        BY <4>1, PushOutGrows, ConstantsAssumption
    <3>2. CASE UNCHANGED out
      BY <1>o, <3>2
    <3> QED
      BY <1>6, <3>1, <3>2, OwnLines
  <2> QED
    BY <1>0, <1>w, <2>1, <2>2 DEF IsPush
<1>7. CASE /\ UNCHANGED <<wire, taken, out>>
           /\ rx' # "out" \/ UNCHANGED <<rx, rxMsg>>
  BY <1>0, <1>w, <1>o, <1>7 DEF IsPush
<1> QED
  BY <1>1, <1>2, <1>3, <1>4, <1>5, <1>6, <1>7
     DEF Next, Exchange, AgentStep, UpstreamStep, Terminated, vars, netVars,
         upstreamVars, ReadRequest, ReadRelayed, RelayDone, Eof, PostJSON,
         PostStream, PostEmpty, PostFail, Receive, Expire, GiveUp, StreamEnd,
         UpstreamResolve, Resolved, UpstreamStop

LEMMA PushSteps == TypeInv /\ FlightInv /\ PushesInv /\ [Next]_vars => PushesInv'
<1> SUFFICES ASSUME TypeInv, FlightInv, PushesInv, [Next]_vars PROVE PushesInv'
  OBVIOUS
<1>1. ShapeInv'
  BY ShapeStep DEF PushesInv
<1>2. \A p \in Pushes : PushInv(p)'
  BY PushStep
<1> QED
  BY <1>1, <1>2 DEF PushesInv
-----------------------------------------------------------------------------
(* What the agent sees *)

Said == [k \in 1..Len(out) |-> Seen(out[k])]

\* A line holds an answer or a message of the upstream's own, and readAgent
\* writes answers only.
LineInv ==
    \A k \in 1..Len(out) : /\ Shaped(out[k].msg)
                           /\ out[k].msg.kind # "junk"
                           /\ ~out[k].raw => out[k].msg.kind = "answer"

LEMMA LineGrows ==
    ASSUME TypeOK, LineInv, NEW e, out' = Append(out, e), Shaped(e.msg),
           e.msg.kind # "junk", ~e.raw => e.msg.kind = "answer"
    PROVE  LineInv'
<1>1. /\ Len(out) \in Nat
      /\ Len(out') = Len(out) + 1
      /\ \A k \in 1..Len(out) : out'[k] = out[k]
      /\ out'[Len(out) + 1] = e
  BY AppendFacts DEF TypeOK
<1> QED
  BY <1>1 DEF LineInv, Shaped

LEMMA LineStep ==
    ASSUME TypeInv, FlightInv, ShapeInv, LineInv, [Next]_vars
    PROVE  LineInv'
<1> USE DEF TypeInv
<1>1. CASE Answer \/ LocalDone
  <2>1. CASE \E e \in Entries : Write(e) /\ IsAnswer(e.msg, cur) /\ ~e.raw
    <3> PICK e \in Entries : Write(e) /\ IsAnswer(e.msg, cur) /\ ~e.raw
      BY <2>1
    <3>1. cur \in Ids /\ out' = Append(out, e)
      BY <1>1 DEF Write, Answer, LocalDone, RegistersOK, Busy, TypeOK
    <3> QED
      BY <3>1, LineGrows DEF IsAnswer, Shaped
  <2>2. CASE UNCHANGED out
    BY <2>2 DEF LineInv
  <2> QED
    BY <1>1, <2>1, <2>2, OwnLines
<1>2. CASE UpstreamRelay
  <2> DEFINE e == RawLine(rxMsg)
  <2>1. e.msg = rxMsg /\ e.raw = TRUE /\ out' = Append(out, e)
    BY <1>2 DEF UpstreamRelay, RawLine
  <2>2. Shaped(rxMsg) /\ rxMsg.kind # "junk"
    BY <1>2 DEF UpstreamRelay, ShapeInv
  <2> HIDE DEF e
  <2> QED
    BY <2>1, <2>2, LineGrows
<1>3. CASE UNCHANGED out
  BY <1>3 DEF LineInv
<1> QED
  BY <1>1, <1>2, <1>3
     DEF Next, Exchange, AgentStep, UpstreamStep, Terminated, vars,
         ReadRequest, ReadRelayed, RelayDone, Eof, PostJSON, PostStream,
         PostEmpty, PostFail, Enqueue, Receive, Expire, GiveUp, StreamAnswer,
         StreamEnd, StreamPush, UpstreamRead, UpstreamResolve, UpstreamStop

\* What the agent has got, in the words of Proxy.
LEMMA GotMeans ==
    ASSUME TypeOK, NEW id, NEW how
    PROVE  Promise!Got(id, how) <=>
              \E k \in 1..Len(out) : out[k].msg.id = id /\ HowOf(out[k]) = how
<1>1. Len(Said) = Len(out) /\ Len(out) \in Nat
  BY DEF Said, TypeOK
<1>2. Promise!Got(id, how) <=>
         \E k \in 1..Len(out) : Seen(out[k]) = [id |-> id, how |-> how]
  BY <1>1 DEF Promise!Got, Promise!Line, Said
<1> QED
  BY <1>2 DEF Seen

LEMMA GotFacts ==
    ASSUME TypeOK, LineInv
    PROVE  /\ \A i \in Ids : Promise!Got(i, "raw") => RelayedRaw(i)
           /\ \A i \in Ids : Promise!Settled(i) <=> Settled(i)
           /\ \A p \in Pushes : Promise!Got(p, "push") => PushOut(p)
<1>1. ASSUME NEW i \in Ids, Promise!Got(i, "raw") PROVE RelayedRaw(i)
  <2>1. PICK k \in 1..Len(out) : out[k].msg.id = i /\ HowOf(out[k]) = "raw"
    BY <1>1, GotMeans
  <2>2. out[k].raw /\ out[k].msg.kind = "answer"
    <3>1. out[k].raw /\ out[k].msg.kind \notin {"push", "junk"}
      BY <2>1 DEF HowOf, LineInv
    <3>2. out[k] \in Entries
      BY DEF TypeOK
    <3>3. out[k].msg \in Msgs
      BY <3>2 DEF Entries
    <3>4. out[k].msg.kind \in {"answer", "push", "junk"}
      BY <3>3 DEF Msgs
    <3> QED
      BY <3>1, <3>4
  <2> QED
    BY <2>1, <2>2 DEF RelayedRaw, AnswersTo
<1>2. ASSUME NEW i \in Ids, Settled(i) PROVE Promise!Settled(i)
  <2>1. PICK k \in 1..Len(out) : /\ out[k].msg.kind = "answer"
                                 /\ out[k].msg.id = i
                                 /\ ~out[k].raw
    BY <1>2, SettledMeans
  <2>2. HowOf(out[k]) \in {"answer", "error", "timeout"}
    BY <2>1 DEF HowOf
  <2>3. Promise!Got(i, HowOf(out[k]))
    BY <2>1, GotMeans
  <2> QED
    BY <2>2, <2>3 DEF Promise!Settled, Promise!Settling
<1>3. ASSUME NEW i \in Ids, Promise!Settled(i) PROVE Settled(i)
  <2>1. PICK how \in {"answer", "error", "timeout"} : Promise!Got(i, how)
    BY <1>3 DEF Promise!Settled, Promise!Settling
  <2>2. PICK k \in 1..Len(out) : out[k].msg.id = i /\ HowOf(out[k]) = how
    BY <2>1, GotMeans
  <2>3. ~out[k].raw
    BY <2>2 DEF HowOf
  <2>4. out[k].msg.kind = "answer"
    BY <2>3 DEF LineInv
  <2> QED
    BY <2>2, <2>3, <2>4, SettledMeans
<1>4. ASSUME NEW p \in Pushes, Promise!Got(p, "push") PROVE PushOut(p)
  BY <1>4, GotMeans DEF PushOut
<1> QED
  BY <1>1, <1>2, <1>3, <1>4

\* A line written is a line the agent gets.
LEMMA Says ==
    ASSUME TypeOK, NEW e, out' = Append(out, e), UNCHANGED asked,
           pc' = "closed" <=> pc = "closed"
    PROVE  Promise!Say(e.msg.id, HowOf(e))
<1>1. /\ Len(out) \in Nat
      /\ Len(out') = Len(out) + 1
      /\ \A k \in 1..Len(out) : out'[k] = out[k]
      /\ out'[Len(out) + 1] = e
  BY AppendFacts DEF TypeOK
<1>2. Len(Said) = Len(out)
  BY <1>1 DEF Said
<1>3. Said' = Append(Said, Seen(e))
  BY <1>1, <1>2 DEF Said
<1>4. (pc \notin {"closed"})' = (pc \notin {"closed"})
  OBVIOUS
<1> QED
  BY <1>3, <1>4 DEF Promise!Say, Promise!Line, Said, Seen

\* What may be relayed has been asked, and what is asked is relayed once.
LEMMA RawIsFromUpstream ==
    ASSUME TypeOK, NEW i \in Ids
    PROVE  RelayedRaw(i) => InOut(i)
<1>1. \A k \in 1..Len(out) : out[k] \in Entries
  BY DEF TypeOK
<1>2. \A k \in 1..Len(out) : out[k].msg # NoMsg
  BY <1>1, LineHoldsMessage
<1> QED
  BY <1>2 DEF RelayedRaw, AnswersTo, InOut, FromUpstream, IsAnswer

\* A request that is settled while the upstream's answer is on its way to be
\* relayed was settled by the timer.
LEMMA SettledBefore ==
    ASSUME TypeOK, OnceInv, NEW i \in Ids, InRx(i), Settled(i)
    PROVE  \E k \in 1..Len(out) : /\ OwnLine(out[k], i)
                                      /\ out[k].msg.result = "timeout"
<1>1. PICK k \in 1..Len(out) : OwnLine(out[k], i)
  BY SettledIsOwn
<1>2. OnWire(i) /\ ~InOut(i)
  BY DEF OnceInv, PlaceInv
<1>3. ~GivenUp(out[k], i)
  BY <1>2 DEF OnceInv, SourceInv, Hopeless, GivenUpOut
<1>4. ~FromUpstream(out[k], i)
  BY <1>2 DEF InOut
<1>5. out[k].msg.result = "timeout"
  BY <1>1, <1>3, <1>4 DEF OwnLine, FromUpstream, GivenUp, OwnResults
<1> QED
  BY <1>1, <1>5

PromiseInv == /\ TypeInv /\ FlightInv /\ AnsweredInv /\ OnceInv /\ PushesInv
              /\ LineInv

\* A line of readAgent's settles its request.
LEMMA OwnLineSettles ==
    ASSUME PromiseInv, Answer \/ LocalDone, NEW e \in Entries, Write(e),
           IsAnswer(e.msg, cur), ~e.raw,
           \/ Answer /\ e.msg = hand
           \/ LocalDone /\ e.msg.result = "local"
    PROVE  \E i \in Ids, how \in Promise!Settling : Promise!Settle(i, how)
<1> USE DEF PromiseInv, TypeInv, TypeOK
<1>1. /\ cur \in Ids /\ cur \in asked /\ pc \in Busy /\ pc \in {"answer", "local"}
      /\ asked' = asked /\ out' = Append(out, e) /\ pc' = "scan"
  BY DEF Answer, LocalDone, Write, RegistersOK, Busy
<1> PICK i \in Ids : i = cur
  BY <1>1
<1>2. ~Settled(i)
  BY <1>1 DEF OnceInv, OutInv, Working
<1>3. HowOf(e) \in Promise!Settling /\ (e.msg.result = "timeout" => HowOf(e) = "timeout")
  BY DEF HowOf, IsAnswer, Promise!Settling
<1>4. Promise!Say(i, HowOf(e))
  <2>1. pc' = "closed" <=> pc = "closed"
    BY <1>1
  <2>2. Promise!Say(e.msg.id, HowOf(e))
    BY <1>1, <2>1, Says
  <2>3. e.msg.id = i
    BY DEF IsAnswer
  <2> QED
    BY <2>2, <2>3
<1>5. RelayedRaw(i) => e.msg.result = "timeout"
  <2> SUFFICES ASSUME RelayedRaw(i) PROVE e.msg.result = "timeout"
    OBVIOUS
  <2>1. InOut(i) /\ OnWire(i)
    BY <1>1, RawIsFromUpstream DEF OnceInv, PlaceInv
  <2>2. ~InHand(i) /\ ~Hopeless(i)
    BY <1>1, <2>1 DEF OnceInv, PlaceInv, SourceInv
  <2>3. Answer /\ pc = "answer" /\ e.msg = hand
    BY <1>1, <2>2 DEF Hopeless, Answer, LocalDone
  <2> QED
    BY <2>2, <2>3 DEF InHand, Hopeless, OwnResults
<1>6. /\ ~Promise!Settled(i)
      /\ Promise!Got(i, "raw") => HowOf(e) = "timeout"
  BY <1>2, <1>3, <1>5, GotFacts
<1>7. Promise!Settle(i, HowOf(e))
  BY <1>1, <1>4, <1>6 DEF Promise!Settle
<1> QED
  BY <1>3, <1>7

\* A line of readUpstream's is an answer that comes while the proxy gives up,
\* or after that, or a message of the upstream's own.
LEMMA RelayIsPromised ==
    ASSUME PromiseInv, UpstreamRelay
    PROVE  Promise!Next
<1> USE DEF PromiseInv, TypeInv, TypeOK
<1> DEFINE e == RawLine(rxMsg)
<1>1. /\ rx = "out" /\ rxMsg \in Msgs /\ rxMsg # NoMsg
      /\ rxMsg.kind \in {"answer", "push"} /\ Shaped(rxMsg)
  BY ConstantsAssumption
     DEF UpstreamRelay, RegistersOK, PushesInv, ShapeInv, Msgs
<1>2. e.msg = rxMsg /\ e.raw = TRUE
  BY DEF RawLine
<1>3. out' = Append(out, e) /\ UNCHANGED <<asked, pc>>
  BY DEF UpstreamRelay, agentVars
<1> HIDE DEF e
<1>4. Promise!Say(rxMsg.id, HowOf(e))
  BY <1>2, <1>3, Says
<1>5. CASE rxMsg.kind = "answer"
  <2> PICK i \in Ids : i = rxMsg.id
    BY <1>1, <1>5 DEF Shaped
  <2>1. IsAnswer(rxMsg, i) /\ InRx(i)
    BY <1>1, <1>5 DEF IsAnswer, InRx
  <2>2. ~InOut(i) /\ i \in asked
    BY <2>1 DEF OnceInv, PlaceInv, SourceInv, Unanswered
  <2>3. ~Promise!Got(i, "raw")
    BY <2>2, RawIsFromUpstream, GotFacts
  <2>4. Promise!Settled(i) => Promise!Got(i, "timeout")
    <3> SUFFICES ASSUME Promise!Settled(i) PROVE Promise!Got(i, "timeout")
      OBVIOUS
    <3>1. Settled(i)
      BY GotFacts
    <3>2. PICK k \in 1..Len(out) : /\ OwnLine(out[k], i)
                                   /\ out[k].msg.result = "timeout"
      BY <2>1, <3>1, SettledBefore
    <3>3. out[k].msg.id = i /\ HowOf(out[k]) = "timeout"
      BY <3>2 DEF OwnLine, IsAnswer, HowOf
    <3> QED
      BY <3>3, GotMeans
  <2>5. HowOf(e) = "raw"
    BY <1>2, <1>5 DEF HowOf
  <2>6. Promise!RelayAnswer(i)
    BY <1>4, <2>2, <2>3, <2>4, <2>5 DEF Promise!RelayAnswer
  <2> QED
    BY <2>6 DEF Promise!Next
<1>6. CASE rxMsg.kind = "push"
  <2> PICK p \in Pushes : p = rxMsg.id
    BY <1>1, <1>6 DEF Shaped
  <2>1. PushInRx(p)
    BY <1>1, <1>6 DEF PushInRx, IsPush
  <2>2. ~Promise!Got(p, "push")
    BY <2>1, GotFacts DEF PushesInv, PushInv
  <2>3. HowOf(e) = "push"
    BY <1>2, <1>6 DEF HowOf
  <2>4. Promise!RelayPush(p)
    BY <1>4, <2>2, <2>3 DEF Promise!RelayPush
  <2> QED
    BY <2>4 DEF Promise!Next
<1> QED
  BY <1>1, <1>5, <1>6

\* readAgent asks when it has settled all it asked before.
LEMMA ReadIsPromised ==
    ASSUME PromiseInv, NEW i \in Ids, ReadRequest(i)
    PROVE  Promise!Ask(i)
<1>1. /\ pc = "scan" /\ i \notin asked /\ asked' = asked \cup {i}
      /\ UNCHANGED out /\ pc' \in {"local", "post"}
  BY DEF ReadRequest
<1>2. \A j \in asked : Promise!Settled(j)
  BY <1>1, GotFacts DEF PromiseInv, TypeInv, TypeOK, AnsweredInv, Busy
<1>3. UNCHANGED Said
  BY <1>1 DEF Said
<1>4. pc \notin {"closed"} /\ (pc \notin {"closed"})' = (pc \notin {"closed"})
  BY <1>1
<1> QED
  BY <1>1, <1>2, <1>3, <1>4 DEF Promise!Ask, Said

LEMMA EofIsPromised ==
    ASSUME PromiseInv, Eof
    PROVE  Promise!Leave
<1>1. pc = "scan" /\ pc' = "closed" /\ UNCHANGED <<asked, out>>
  BY DEF Eof
<1>2. \A j \in asked : Promise!Settled(j)
  BY <1>1, GotFacts DEF PromiseInv, TypeInv, TypeOK, AnsweredInv, Busy
<1>3. UNCHANGED Said
  BY <1>1 DEF Said
<1>4. pc \notin {"closed"} /\ (pc \notin {"closed"})' = FALSE
  BY <1>1
<1> QED
  BY <1>1, <1>2, <1>3, <1>4 DEF Promise!Leave, Said

LEMMA InitIsPromised == Init => Promise!Init
<1> SUFFICES ASSUME Init PROVE Promise!Init
  OBVIOUS
<1>1. Said = <<>>
  BY DEF Init, Said
<1>2. asked = {} /\ pc \notin {"closed"}
  BY DEF Init
<1> QED
  BY <1>1, <1>2 DEF Promise!Init, Said

LEMMA StepIsPromised == PromiseInv /\ [Next]_vars => [Promise!Next]_(Promise!vars)
<1> SUFFICES ASSUME PromiseInv, [Next]_vars
             PROVE  Promise!Next \/ UNCHANGED Promise!vars
  OBVIOUS
<1>1. CASE \E i \in Ids : ReadRequest(i)
  BY <1>1, ReadIsPromised DEF Promise!Next
<1>2. CASE Eof
  BY <1>2, EofIsPromised DEF Promise!Next
<1>3. CASE UpstreamRelay
  BY <1>3, RelayIsPromised
<1>4. CASE UNCHANGED <<asked, out>> /\ (pc' = "closed" <=> pc = "closed")
  <2>1. UNCHANGED <<asked, Said>>
    BY <1>4 DEF Said
  <2>2. (pc \notin {"closed"})' = (pc \notin {"closed"})
    BY <1>4
  <2> QED
    BY <2>1, <2>2 DEF Promise!vars, Said
<1>5. CASE Answer \/ LocalDone
  <2>1. CASE \E e \in Entries : /\ Write(e)
                                /\ IsAnswer(e.msg, cur) /\ ~e.raw
                                /\ \/ Answer /\ e.msg = hand
                                   \/ LocalDone /\ e.msg.result = "local"
    BY <1>5, <2>1, OwnLineSettles DEF Promise!Next
  <2>2. CASE Answer /\ pc' = "panic" /\ UNCHANGED <<cur, hand, out>>
    BY <1>4, <2>2 DEF Answer
  <2> QED
    BY <1>5, <2>1, <2>2, OwnLines DEF PromiseInv
<1> QED
  BY <1>1, <1>2, <1>3, <1>4, <1>5
     DEF Next, Exchange, AgentStep, UpstreamStep, Terminated, vars, agentVars,
         ReadRelayed, RelayDone, PostJSON, PostStream, PostEmpty, PostFail,
         RouteError, Enqueue, Receive, Expire, GiveUp, StreamAnswer, StreamEnd,
         StreamPush, UpstreamRead, UpstreamResolve, UpstreamStop

LEMMA PromiseSteps == PromiseInv /\ [Next]_vars => PromiseInv'
BY TypeStep, FlightStep, AnsweredStep, OnceSteps, PushSteps, LineStep
   DEF PromiseInv, PushesInv

LEMMA PromiseStarts == Init => PromiseInv
BY TypeInit, FlightInit, AnsweredInit, OnceInit, PushInit
   DEF PromiseInv, LineInv, Init

\* The goroutines, the bounded channel and the streams keep what RequestReply
\* promises the agent, for any number of requests and of upstream messages: no
\* line is written that is not promised, and none twice.
THEOREM PipeKeepsPromise == Spec => KeepsPromise
BY InitIsPromised, StepIsPromised, PromiseStarts, PromiseSteps, PTL
   DEF Spec, KeepsPromise, Promise!Spec

-----------------------------------------------------------------------------
(***************************************************************************)
(* 4. What the injected tools are merged into, and what a merge can break. *)
(***************************************************************************)

\* What InjectedOnTime says of one line.
WellInjected(e) ==
    e.injected <=> /\ e.msg.kind = "answer" /\ ~e.raw
                   /\ MethodOf[e.msg.id] = "list"
                   /\ e.msg.result = "object"

LEMMA InjectedGrows ==
    ASSUME TypeOK, InjectedOnTime, NEW e, out' = Append(out, e), WellInjected(e)
    PROVE  InjectedOnTime'
<1>1. /\ Len(out) \in Nat
      /\ Len(out') = Len(out) + 1
      /\ \A k \in 1..Len(out) : out'[k] = out[k]
      /\ out'[Len(out) + 1] = e
  BY AppendFacts DEF TypeOK
<1>2. \A k \in 1..Len(out) : WellInjected(out[k])
  BY DEF InjectedOnTime, WellInjected
<1>3. \A k \in 1..Len(out') : WellInjected(out'[k])
  BY <1>1, <1>2
<1> QED
  BY <1>3 DEF InjectedOnTime, WellInjected

LEMMA InjectedStep ==
    TypeInv /\ FlightInv /\ InjectedOnTime /\ [Next]_vars => InjectedOnTime'
<1> SUFFICES ASSUME TypeInv, FlightInv, InjectedOnTime, [Next]_vars
             PROVE  InjectedOnTime'
  OBVIOUS
<1> USE DEF TypeInv
<1>1. CASE Answer
  <2>1. CASE Crashes
    <3>1. out' = out
      BY <1>1, <2>1 DEF Answer
    <3> QED
      BY <3>1 DEF InjectedOnTime
  <2>2. CASE ~Crashes
    <3> DEFINE e == MarshalledLine(hand, Merges)
    <3>1. out' = Append(out, e)
      BY <1>1, <2>2 DEF Answer, Write
    <3>2. hand.kind = "answer" /\ hand.id = cur
      BY <1>1 DEF Answer, FlightInv
    <3>3. e.msg = hand /\ e.raw = FALSE /\ e.injected = Merges
      BY DEF MarshalledLine
    <3>4. WellInjected(e)
      BY <3>2, <3>3 DEF WellInjected, Merges
    <3> HIDE DEF e
    <3> QED
      BY <3>1, <3>4, InjectedGrows
  <2> QED
    BY <2>1, <2>2
<1>2. CASE LocalDone
  <2> DEFINE e == MarshalledLine(Own(cur, "local"), FALSE)
  <2>1. out' = Append(out, e)
    BY <1>2 DEF LocalDone, Write
  <2>2. WellInjected(e)
    BY DEF WellInjected, MarshalledLine, Own, Message
  <2> HIDE DEF e
  <2> QED
    BY <2>1, <2>2, InjectedGrows
<1>3. CASE UpstreamRelay
  <2> DEFINE e == RawLine(rxMsg)
  <2>1. out' = Append(out, e)
    BY <1>3 DEF UpstreamRelay
  <2>2. WellInjected(e)
    BY DEF WellInjected, RawLine
  <2> HIDE DEF e
  <2> QED
    BY <2>1, <2>2, InjectedGrows
<1>4. CASE UNCHANGED out
  BY <1>4 DEF InjectedOnTime
<1> QED
  BY <1>1, <1>2, <1>3, <1>4
     DEF Next, Exchange, AgentStep, UpstreamStep, Terminated, vars, agentVars,
         upstreamVars, netVars, ReadRequest, ReadRelayed, RelayDone, Eof,
         PostJSON, PostStream, PostEmpty, PostFail, Enqueue, Receive, Expire,
         GiveUp, StreamAnswer, StreamEnd, StreamPush, UpstreamRead,
         UpstreamResolve, UpstreamStop

\* The injected tools are merged into every answer to tools/list that came in
\* time and can take them, and into nothing else that is written.
THEOREM ToolsInjectedOnTime == Spec => []InjectedOnTime
<1>1. Init => InjectedOnTime
  BY DEF Init, InjectedOnTime
<1> QED
  BY <1>1, InjectedStep, TypeInit, TypeStep, FlightInit, FlightStep, PTL
     DEF Spec

\* A result of null is the only thing that breaks the merge: an upstream that
\* never answers with one never makes the proxy panic, whatever else it sends.
THEOREM OnlyNullBreaks ==
    ASSUME "null" \notin Results
    PROVE  Spec => []DegradedBeatsBroken
<1>1. Init => DegradedBeatsBroken
  BY DEF Init, DegradedBeatsBroken
<1>2. TypeInv /\ DegradedBeatsBroken /\ [Next]_vars => DegradedBeatsBroken'
  <2> SUFFICES ASSUME TypeInv, DegradedBeatsBroken, [Next]_vars
               PROVE  DegradedBeatsBroken'
    OBVIOUS
  <2>1. ~(Answer /\ Crashes)
    BY DEF Answer, Crashes, TypeInv, RegistersOK, Msgs, OwnResults
  <2>2. CASE Answer
    BY <2>1, <2>2 DEF Answer, Write, DegradedBeatsBroken
  <2>3. CASE UNCHANGED agentVars
    BY <2>3 DEF agentVars, DegradedBeatsBroken
  <2> QED
    BY <2>2, <2>3
       DEF DegradedBeatsBroken, Next, Exchange, AgentStep, UpstreamStep,
           Terminated, vars, agentVars, ReadRequest, ReadRelayed, RelayDone,
           Eof, PostJSON, PostStream, PostEmpty, PostFail, RouteError, Enqueue,
           Receive, Expire, GiveUp, LocalDone, Write, StreamAnswer, StreamEnd,
           StreamPush, UpstreamRead, UpstreamResolve, UpstreamRelay,
           UpstreamStop
<1> QED
  BY <1>1, <1>2, TypeInit, TypeStep, PTL DEF Spec

-----------------------------------------------------------------------------
(***************************************************************************)
(* 5. No answer is lost: every answer readUpstream has taken is kept in    *)
(* one of the places of part 2, and the channel it may be left in is read  *)
(* unless the timer of its request fired.                                  *)
(***************************************************************************)

\* What is said to the agent of message m.
WrittenAs(m) == \E j \in AnswersTo(m.id) : out[j].msg.result = m.result

\* Where an answer taken from the wire is.
Kept(m) ==
    \/ rx \in {"chan", "out"} /\ rxMsg = m
    \/ chan[m.id] = m
    \/ pc \in {"answer", "panic"} /\ hand = m
    \/ WrittenAs(m)

\* The answer to request i is with readUpstream, bound for the channel, or
\* in the channel.
Resolving(i) == (rx = "chan" /\ rxMsg.id = i) \/ chan[i] # NoMsg

\* readAgent still listens to the channel of i, or has given up on it.
Awaited(i) ==
    \/ TimedOut(i)
    \/ /\ cur = i
       /\ \/ pc \in {"wait", "expired"}
          \/ pc = "answer" /\ hand.result = "timeout"

Taken(m) == \E k \in 1..taken : wire[k] = m

KeptInv ==
    /\ \A i \in Ids : Resolving(i) => Awaited(i)
    /\ \A m \in Msgs : Taken(m) /\ m.kind = "answer" => Kept(m)

LEMMA WrittenGrows ==
    ASSUME TypeOK, NEW e, out' = Append(out, e), NEW m
    PROVE  /\ WrittenAs(m) => WrittenAs(m)'
           /\ e.msg = m /\ m.kind = "answer" => WrittenAs(m)'
           /\ TimedOut(m.id) => TimedOut(m.id)'
<1>1. /\ Len(out) \in Nat
      /\ Len(out') = Len(out) + 1
      /\ \A k \in 1..Len(out) : out'[k] = out[k]
      /\ out'[Len(out) + 1] = e
  BY AppendFacts DEF TypeOK
<1>2. \A k \in AnswersTo(m.id) : k \in AnswersTo(m.id)' /\ out'[k] = out[k]
  BY <1>1 DEF AnswersTo
<1>3. e.msg = m /\ m.kind = "answer" => Len(out) + 1 \in AnswersTo(m.id)'
  BY <1>1 DEF AnswersTo
<1> QED
  BY <1>1, <1>2, <1>3 DEF WrittenAs, TimedOut

LEMMA WrittenSame ==
    ASSUME UNCHANGED out, NEW m, NEW i
    PROVE  /\ WrittenAs(m)' <=> WrittenAs(m)
           /\ TimedOut(i)' <=> TimedOut(i)
BY DEF WrittenAs, TimedOut, AnswersTo

LEMMA TimedOutGrows ==
    ASSUME TypeOK, NEW e, out' = Append(out, e), NEW i
    PROVE  /\ TimedOut(i) => TimedOut(i)'
           /\ /\ e.msg.kind = "answer" /\ e.msg.id = i
              /\ e.msg.result = "timeout"
              => TimedOut(i)'
<1>1. /\ Len(out) \in Nat
      /\ Len(out') = Len(out) + 1
      /\ \A k \in 1..Len(out) : out'[k] = out[k]
      /\ out'[Len(out) + 1] = e
  BY AppendFacts DEF TypeOK
<1> QED
  BY <1>1 DEF TimedOut, AnswersTo

\* What is taken stays as it was when the wire grows.
LEMMA TakenStays ==
    ASSUME TypeOK, UNCHANGED taken,
           UNCHANGED wire \/ \E m : wire' = Append(wire, m)
    PROVE  /\ taken \in Nat
           /\ \A k \in 1..taken : k \in 1..Len(wire) /\ wire'[k] = wire[k]
           /\ \A m : Taken(m)' <=> Taken(m)
<1>1. taken \in Nat /\ \A k \in 1..taken : k \in 1..Len(wire)
  BY DEF TypeOK
<1>2. \A k \in 1..taken : wire'[k] = wire[k]
  <2>1. CASE \E m : wire' = Append(wire, m)
    <3>1. PICK m : wire' = Append(wire, m)
      BY <2>1
    <3>2. \A k \in 1..Len(wire) : wire'[k] = wire[k]
      BY <3>1, AppendFacts DEF TypeOK
    <3> QED
      BY <1>1, <3>2
  <2> QED
    BY <2>1
<1> QED
  BY <1>1, <1>2 DEF Taken

\* An answer on the wire is the only one to its request, which is no longer
\* with the exchange.
LEMMA WireAnswer ==
    ASSUME TypeInv, OnceInv, ShapeInv, NEW k \in 1..Len(wire),
           wire[k].kind = "answer"
    PROVE  /\ wire[k] \in Msgs /\ wire[k] # NoMsg
           /\ wire[k].id \in Ids
           /\ IsAnswer(wire[k], wire[k].id)
           /\ OnWire(wire[k].id)
           /\ ~(cur = wire[k].id /\ pc \in {"post", "enqueue"})
<1>1. wire[k] \in Msgs /\ wire[k] # NoMsg
  BY ConstantsAssumption DEF TypeInv, TypeOK
<1>2. wire[k].id \in Ids
  BY DEF ShapeInv, Shaped
<1>3. IsAnswer(wire[k], wire[k].id) /\ OnWire(wire[k].id)
  BY <1>1 DEF IsAnswer, OnWire
<1> QED
  BY <1>1, <1>2, <1>3 DEF OnceInv, SourceInv, Unanswered

\* A step that moves no answer of the upstream.
LEMMA KeptQuietly ==
    ASSUME TypeInv, KeptInv, UNCHANGED <<taken, chan, rx, rxMsg, out>>,
           UNCHANGED wire \/ \E m : wire' = Append(wire, m),
           \/ UNCHANGED <<pc, hand, cur>>
           \/ pc \notin {"wait", "expired", "answer", "panic"}
           \/ UNCHANGED cur /\ pc = "wait" /\ pc' = "expired"
           \/ UNCHANGED cur /\ pc = "expired" /\ pc' = "answer"
              /\ hand'.result = "timeout"
           \/ UNCHANGED <<cur, hand>> /\ pc = "answer" /\ pc' = "panic"
              /\ hand.result # "timeout"
    PROVE  KeptInv'
<1>1. \A m : Taken(m)' <=> Taken(m)
  BY TakenStays DEF TypeInv
<1>2. ASSUME NEW i \in Ids, Resolving(i)' PROVE Awaited(i)'
  <2>1. Resolving(i)
    BY <1>2 DEF Resolving
  <2>2. Awaited(i)
    BY <2>1 DEF KeptInv
  <2>3. TimedOut(i)' <=> TimedOut(i)
    BY WrittenSame
  <2> QED
    BY <2>2, <2>3 DEF Awaited
<1>3. ASSUME NEW m \in Msgs, Taken(m)', m.kind = "answer"
      PROVE  Kept(m)'
  <2>1. Kept(m)
    BY <1>1, <1>3 DEF KeptInv
  <2>2. WrittenAs(m)' <=> WrittenAs(m)
    BY WrittenSame
  <2> QED
    BY <2>1, <2>2 DEF Kept
<1> QED
  BY <1>2, <1>3 DEF KeptInv

\* A line is written, and no answer of the upstream is moved but the one in it.
LEMMA KeptByWriting ==
    ASSUME TypeInv, KeptInv, UNCHANGED <<taken, wire, chan>>,
           NEW e, out' = Append(out, e),
           \/ UNCHANGED <<pc, hand, cur>> /\ rx' = "idle"
              /\ (rx \in {"chan", "out"} => rx = "out" /\ e.msg = rxMsg)
           \/ UNCHANGED <<rx, rxMsg>> /\ pc \notin {"wait", "expired", "panic"}
              /\ (pc = "answer" =>
                     e.msg = hand /\ hand.kind = "answer" /\ hand.id = cur)
    PROVE  KeptInv'
<1>0. TypeOK
  BY DEF TypeInv
<1>1. \A m : Taken(m)' <=> Taken(m)
  BY <1>0, TakenStays
<1>2. ASSUME NEW i \in Ids, Resolving(i)' PROVE Awaited(i)'
  <2>1. Resolving(i)
    BY <1>2 DEF Resolving
  <2>2. Awaited(i)
    BY <2>1 DEF KeptInv
  <2>3. TimedOut(i) => TimedOut(i)'
    BY <1>0, TimedOutGrows
  <2>4. /\ e.msg.kind = "answer" /\ e.msg.id = i /\ e.msg.result = "timeout"
        => TimedOut(i)'
    BY <1>0, TimedOutGrows
  <2> QED
    BY <2>2, <2>3, <2>4 DEF Awaited
<1>3. ASSUME NEW m \in Msgs, Taken(m)', m.kind = "answer"
      PROVE  Kept(m)'
  <2>1. Kept(m)
    BY <1>1, <1>3 DEF KeptInv
  <2>2. /\ WrittenAs(m) => WrittenAs(m)'
        /\ e.msg = m => WrittenAs(m)'
    BY <1>0, <1>3, WrittenGrows
  <2> QED
    BY <2>1, <2>2 DEF Kept
<1> QED
  BY <1>2, <1>3 DEF KeptInv

LEMMA KeptStep ==
    ASSUME TypeInv, FlightInv, OnceInv, ShapeInv, KeptInv, [Next]_vars
    PROVE  KeptInv'
<1>0. TypeOK
  BY DEF TypeInv
<1>1. CASE Enqueue
  <2>1. wire' = Append(wire, hand) /\ pc = "enqueue"
        /\ UNCHANGED <<taken, chan, rx, rxMsg, out>>
    BY <1>1 DEF Enqueue, Enqueued, upstreamVars
  <2> QED
    BY <2>1, KeptQuietly
<1>2. CASE \E i \in Ids : StreamAnswer(i)
  <2>1. PICK i \in Ids : StreamAnswer(i)
    BY <1>2
  <2>2. PICK m \in Answers(i) : wire' = Append(wire, m)
    BY <2>1 DEF StreamAnswer, Enqueued
  <2>3. UNCHANGED <<pc, hand, cur, taken, chan, rx, rxMsg, out>>
    BY <2>1 DEF StreamAnswer, agentVars, upstreamVars
  <2> QED
    BY <2>2, <2>3, KeptQuietly
<1>3. CASE \E i \in Ids, p \in Pushes : StreamPush(i, p)
  <2>1. PICK i \in Ids, p \in Pushes : StreamPush(i, p)
    BY <1>3
  <2>2. /\ wire' = Append(wire, Message("push", p, "none"))
        /\ UNCHANGED <<pc, hand, cur, taken, chan, rx, rxMsg, out>>
    BY <2>1 DEF StreamPush, Enqueued, agentVars, upstreamVars
  <2> QED
    BY <2>2, KeptQuietly
<1>4. CASE \/ \E i \in Ids : ReadRequest(i)
           \/ ReadRelayed \/ RelayDone \/ Eof
           \/ PostJSON \/ PostStream \/ PostEmpty \/ PostFail
  <2>1. /\ pc \notin {"wait", "expired", "answer", "panic"}
        /\ UNCHANGED <<taken, chan, rx, rxMsg, wire, out>>
    BY <1>4 DEF ReadRequest, ReadRelayed, RelayDone, Eof, PostJSON, PostStream,
       PostEmpty, PostFail, upstreamVars, netVars
  <2> QED
    BY <2>1, KeptQuietly
<1>5. CASE Expire
  <2>1. /\ pc = "wait" /\ pc' = "expired"
        /\ UNCHANGED <<cur, taken, chan, rx, rxMsg, wire, out>>
    BY <1>5 DEF Expire, upstreamVars, netVars
  <2> QED
    BY <2>1, KeptQuietly
<1>6. CASE GiveUp
  <2>1. /\ pc = "expired" /\ pc' = "answer" /\ hand'.result = "timeout"
        /\ UNCHANGED <<cur, taken, chan, rx, rxMsg, wire, out>>
    BY <1>6 DEF GiveUp, Own, Message, upstreamVars, netVars
  <2> QED
    BY <2>1, KeptQuietly
<1>7. CASE Receive
  <2>1. /\ pc = "wait" /\ pc' = "answer" /\ hand' = chan[cur] /\ cur \in Ids
        /\ chan' = [chan EXCEPT ![cur] = NoMsg] /\ chan[cur] # NoMsg
        /\ UNCHANGED <<cur, taken, rx, rxMsg, wire, out>>
    BY <1>7, ConstantsAssumption
       DEF Receive, upstreamVars, netVars, TypeInv, TypeOK, RegistersOK, Busy
  <2>2. \A i \in Ids : chan'[i] = IF i = cur THEN NoMsg ELSE chan[i]
    BY <1>0, <2>1 DEF TypeOK
  <2>3. ~InRx(cur)
    BY <2>1 DEF OnceInv, PlaceInv, InChan
  <2>4. ASSUME NEW i \in Ids, Resolving(i)' PROVE Awaited(i)'
    <3>1. Resolving(i) /\ i # cur
      <4>1. rx = "chan" => rxMsg # NoMsg /\ rxMsg.kind = "answer"
        BY ConstantsAssumption DEF TypeInv, RegistersOK
      <4> QED
        BY <2>1, <2>2, <2>3, <2>4, <4>1 DEF Resolving, InRx, IsAnswer
    <3>2. TimedOut(i)
      BY <3>1 DEF KeptInv, Awaited
    <3> QED
      BY <2>1, <3>2, WrittenSame DEF Awaited
  <2>5. ASSUME NEW m \in Msgs, Taken(m)', m.kind = "answer"
        PROVE  Kept(m)'
    <3>1. Taken(m)
      BY <1>0, <2>1, <2>5, TakenStays
    <3>2. Kept(m)
      BY <2>5, <3>1 DEF KeptInv
    <3>3. m.id \in Ids /\ m # NoMsg
      BY <1>0, <2>5, <3>1, ConstantsAssumption
         DEF Taken, ShapeInv, Shaped, TypeOK
    <3>4. WrittenAs(m)' <=> WrittenAs(m)
      BY <2>1, WrittenSame
    <3>5. chan[m.id] = m => chan'[m.id] = m \/ hand' = m
      BY <2>1, <2>2, <3>3
    <3> QED
      BY <2>1, <3>2, <3>4, <3>5 DEF Kept
  <2> QED
    BY <2>4, <2>5 DEF KeptInv
<1>8. CASE Answer \/ LocalDone
  <2>1. CASE \E e \in Entries : /\ Write(e)
                                /\ IsAnswer(e.msg, cur) /\ ~e.raw
                                /\ \/ Answer /\ e.msg = hand
                                   \/ LocalDone /\ e.msg.result = "local"
    <3>1. PICK e \in Entries : /\ Write(e)
                               /\ IsAnswer(e.msg, cur)
                               /\ \/ Answer /\ e.msg = hand
                                  \/ LocalDone
      BY <2>1
    <3>2. /\ out' = Append(out, e)
          /\ pc \notin {"wait", "expired", "panic"}
          /\ pc = "answer" =>
                e.msg = hand /\ hand.kind = "answer" /\ hand.id = cur
          /\ UNCHANGED <<taken, wire, chan, rx, rxMsg>>
      BY <1>8, <3>1 DEF Answer, LocalDone, Write, IsAnswer, upstreamVars, netVars
    <3> QED
      BY <3>2, KeptByWriting
  <2>2. CASE Answer /\ pc' = "panic" /\ UNCHANGED <<cur, hand, out>>
    <3>1. /\ pc = "answer" /\ hand.result # "timeout"
          /\ UNCHANGED <<taken, wire, chan, rx, rxMsg>>
      BY <2>2 DEF Answer, Crashes, Write, upstreamVars, netVars
    <3> QED
      BY <2>2, <3>1, KeptQuietly
  <2> QED
    BY <1>8, <2>1, <2>2, OwnLines
<1>9. CASE UpstreamRead
  <2> DEFINE n == wire[taken + 1]
  <2>1. /\ taken \in Nat /\ taken + 1 \in 1..Len(wire) /\ taken' = taken + 1
        /\ wire' = wire /\ chan' = chan /\ out' = out
        /\ pc' = pc /\ hand' = hand /\ cur' = cur /\ rx = "idle"
    BY <1>0, <1>9 DEF UpstreamRead, Free, TypeOK, agentVars, netVars
  <2>2. rx' = Destination(n) /\ (rx' \in {"chan", "out"} => rxMsg' = n)
    BY <1>9 DEF UpstreamRead
  <2>3. n.kind = "answer" => rx' \in {"chan", "out"}
    BY <2>2 DEF Destination
  <2>4. \A m : Taken(m)' <=> Taken(m) \/ m = n
    BY <2>1 DEF Taken
  <2>5. n.kind = "answer" => ~(cur = n.id /\ pc \in {"post", "enqueue"})
    BY <2>1, WireAnswer
  <2>6. rx' = "chan" => n.kind = "answer" /\ n.id \in pending
    BY <2>2 DEF Destination
  <2> HIDE DEF n
  <2>7. ASSUME NEW i \in Ids, Resolving(i)' PROVE Awaited(i)'
    <3>1. CASE rx' = "chan" /\ n.id = i
      <4>1. cur = i /\ pc \in {"wait", "expired"}
        BY <2>5, <2>6, <3>1 DEF FlightInv, PendingIsInFlight
      <4> QED
        BY <2>1, <4>1 DEF Awaited
    <3>2. CASE chan[i] # NoMsg
      <4>1. Awaited(i)
        BY <3>2 DEF KeptInv, Resolving
      <4> QED
        BY <2>1, <4>1, WrittenSame DEF Awaited
    <3> QED
      BY <2>1, <2>2, <2>7, <3>1, <3>2 DEF Resolving
  <2>8. ASSUME NEW m \in Msgs, Taken(m)', m.kind = "answer"
        PROVE  Kept(m)'
    <3>1. CASE m = n
      BY <2>2, <2>3, <2>8, <3>1 DEF Kept
    <3>2. CASE Taken(m)
      <4>1. Kept(m)
        BY <2>8, <3>2 DEF KeptInv
      <4> QED
        BY <2>1, <4>1, WrittenSame DEF Kept
    <3> QED
      BY <2>4, <2>8, <3>1, <3>2
  <2> QED
    BY <2>7, <2>8 DEF KeptInv
<1>10. CASE UpstreamResolve
  <2>1. /\ rx = "chan" /\ rx' = "idle" /\ rxMsg \in Msgs /\ rxMsg # NoMsg
        /\ rxMsg.id \in Ids /\ chan[rxMsg.id] = NoMsg
        /\ chan' = [chan EXCEPT ![rxMsg.id] = rxMsg]
        /\ UNCHANGED <<pc, hand, cur, taken, wire, out>>
    BY <1>0, <1>10, ConstantsAssumption
       DEF UpstreamResolve, CanSend, Resolved, TypeOK, TypeInv, RegistersOK,
           agentVars, netVars
  <2>2. \A i \in Ids : chan'[i] = IF i = rxMsg.id THEN rxMsg ELSE chan[i]
    BY <1>0, <2>1 DEF TypeOK
  <2>3. ASSUME NEW i \in Ids, Resolving(i)' PROVE Awaited(i)'
    <3>1. Resolving(i)
      BY <2>1, <2>2, <2>3 DEF Resolving
    <3>2. Awaited(i)
      BY <3>1 DEF KeptInv
    <3> QED
      BY <2>1, <3>2, WrittenSame DEF Awaited
  <2>4. ASSUME NEW m \in Msgs, Taken(m)', m.kind = "answer"
        PROVE  Kept(m)'
    <3>1. Taken(m)
      BY <1>0, <2>1, <2>4, TakenStays
    <3>2. Kept(m)
      BY <2>4, <3>1 DEF KeptInv
    <3>3. m.id \in Ids /\ m # NoMsg
      BY <1>0, <2>4, <3>1, ConstantsAssumption
         DEF Taken, ShapeInv, Shaped, TypeOK
    <3>4. WrittenAs(m)' <=> WrittenAs(m)
      BY <2>1, WrittenSame
    <3>5. chan[m.id] = m \/ rxMsg = m => chan'[m.id] = m
      BY <2>1, <2>2, <3>3
    <3> QED
      BY <2>1, <3>2, <3>4, <3>5 DEF Kept
  <2> QED
    BY <2>3, <2>4 DEF KeptInv
<1>11. CASE UpstreamRelay
  <2>1. /\ out' = Append(out, RawLine(rxMsg)) /\ RawLine(rxMsg).msg = rxMsg
        /\ rx = "out" /\ rx' = "idle"
        /\ UNCHANGED <<pc, hand, cur, taken, wire, chan>>
    BY <1>11 DEF UpstreamRelay, RawLine, agentVars, netVars
  <2> QED
    BY <2>1, KeptByWriting
<1>12. CASE UpstreamStop
  <2>1. /\ rx = "idle" /\ rx' = "stopped"
        /\ UNCHANGED <<pc, hand, cur, taken, wire, chan, out>>
    BY <1>12 DEF UpstreamStop, agentVars, netVars
  <2>2. \A i \in Ids : Resolving(i)' => Resolving(i)
    BY <2>1 DEF Resolving
  <2>3. \A m : Taken(m)' <=> Taken(m)
    BY <2>1 DEF Taken
  <2>4. \A i : Awaited(i)' <=> Awaited(i)
    BY <2>1, WrittenSame DEF Awaited
  <2>5. \A m : Kept(m) => Kept(m)'
    BY <2>1, WrittenSame DEF Kept
  <2> QED
    BY <2>2, <2>3, <2>4, <2>5 DEF KeptInv
<1>13. CASE /\ UNCHANGED <<pc, hand, cur, taken, chan, rx, rxMsg, wire, out>>
  BY <1>13, KeptQuietly
<1> QED
  BY <1>1, <1>2, <1>3, <1>4, <1>5, <1>6, <1>7, <1>8, <1>9, <1>10, <1>11, <1>12,
     <1>13
     DEF Next, Exchange, AgentStep, UpstreamStep, Terminated, vars, agentVars,
         upstreamVars, StreamEnd

\* An answer that reached the proxy reaches the agent, or is in the channel of
\* a request whose timer fired first: the message channel of a request is
\* never left with an answer in it by anything else.
THEOREM NoAnswerIsLost == Spec => []NoAnswerLost
<1>1. TypeInv /\ ShapeInv /\ KeptInv => NoAnswerLost
  <2> SUFFICES ASSUME TypeInv, ShapeInv, KeptInv,
                      NEW k \in 1..taken, wire[k].kind = "answer"
               PROVE  LET m == wire[k] IN
                      \/ rx \in {"chan", "out"} /\ rxMsg = m
                      \/ chan[m.id] = m /\ (cur = m.id \/ TimedOut(m.id))
                      \/ hand = m
                      \/ \E j \in AnswersTo(m.id) : out[j].msg.result = m.result
    BY DEF NoAnswerLost
  <2>1. k \in 1..Len(wire) /\ wire[k] \in Msgs /\ wire[k] # NoMsg
    BY ConstantsAssumption DEF TypeInv, TypeOK
  <2>2. wire[k].id \in Ids
    BY <2>1 DEF ShapeInv, Shaped
  <2>3. Kept(wire[k])
    BY <2>1 DEF KeptInv, Taken
  <2>4. chan[wire[k].id] = wire[k] =>
           cur = wire[k].id \/ TimedOut(wire[k].id)
    BY <2>1, <2>2 DEF KeptInv, Resolving, Awaited
  <2> QED
    BY <2>3, <2>4 DEF Kept, WrittenAs
<1>2. Init => KeptInv
  BY DEF Init, KeptInv, Taken, Resolving
<1>3. PromiseInv /\ KeptInv /\ [Next]_vars => KeptInv'
  BY KeptStep DEF PromiseInv, PushesInv
<1>4. PromiseInv => TypeInv /\ ShapeInv
  BY DEF PromiseInv, PushesInv
<1> QED
  BY <1>1, <1>2, <1>3, <1>4, PromiseStarts, PromiseSteps, PTL DEF Spec

-----------------------------------------------------------------------------
(***************************************************************************)
(* 6. What the upstream sent before an answer is written before it.        *)
(*                                                                         *)
(* readUpstream handles a message to its end before it takes the next, so  *)
(* when an answer leaves the wire every push before it is written; and an  *)
(* answer in anybody's hands has left the wire.                            *)
(***************************************************************************)

\* A push that was taken is written, but for the one in hand.
RelayedInv ==
    \A a \in 1..taken : wire[a].kind = "push" =>
        \/ a = taken /\ rx = "out" /\ rxMsg = wire[a]
        \/ \E k \in 1..Len(out) : out[k].msg = wire[a]

\* An answer, and nothing else, has a result; it has the id of a request.
Full(m) == /\ m.result # "none" <=> m.kind = "answer"
           /\ m.kind = "answer" => m.id \in Ids

FullInv ==
    /\ \A k \in 1..Len(wire) : Full(wire[k])
    /\ pc \in {"enqueue", "answer"} => Full(hand)
    /\ rx \in {"chan", "out"} => Full(rxMsg)
    /\ \A i \in Ids : chan[i] # NoMsg => Full(chan[i])
    /\ \A k \in 1..Len(out) : Full(out[k].msg)

OrderInv == FullInv /\ RelayedInv /\ PushBeforeAnswer

LEMMA FullMessages ==
    ASSUME NEW i \in Ids
    PROVE  /\ \A m \in Answers(i) : Full(m)
           /\ Full(Junk(i))
           /\ \A r \in OwnResults : Full(Own(i, r))
<1>1. "none" \notin Results /\ "none" \notin OwnResults
  BY ConstantsAssumption DEF UpstreamResults, OwnResults
<1> QED
  BY <1>1 DEF Answers, Junk, Own, Message, Full

LEMMA FullWireGrows ==
    ASSUME TypeOK, FullInv, NEW m, Full(m), wire' = Append(wire, m)
    PROVE  \A k \in 1..Len(wire') : Full(wire'[k])
<1>1. /\ Len(wire) \in Nat
      /\ Len(wire') = Len(wire) + 1
      /\ \A k \in 1..Len(wire) : wire'[k] = wire[k]
      /\ wire'[Len(wire) + 1] = m
  BY AppendFacts DEF TypeOK
<1> QED
  BY <1>1 DEF FullInv

LEMMA FullOutGrows ==
    ASSUME TypeOK, FullInv, NEW e, Full(e.msg), out' = Append(out, e)
    PROVE  \A k \in 1..Len(out') : Full(out'[k].msg)
<1>1. /\ Len(out) \in Nat
      /\ Len(out') = Len(out) + 1
      /\ \A k \in 1..Len(out) : out'[k] = out[k]
      /\ out'[Len(out) + 1] = e
  BY AppendFacts DEF TypeOK
<1> QED
  BY <1>1 DEF FullInv

LEMMA FullStep == TypeInv /\ FlightInv /\ FullInv /\ [Next]_vars => FullInv'
<1> SUFFICES ASSUME TypeInv, FlightInv, FullInv, [Next]_vars PROVE FullInv'
  OBVIOUS
<1>0. TypeOK
  BY DEF TypeInv
<1>1. pc \in Busy => cur \in Ids
  BY DEF TypeInv, TypeOK, RegistersOK
<1> USE DEF FullInv
<1>2. CASE PostJSON
  <2>1. Full(hand')
    BY <1>1, <1>2, FullMessages DEF PostJSON, Busy
  <2>2. UNCHANGED <<chan, rx, rxMsg, wire, out>>
    BY <1>2 DEF PostJSON, upstreamVars, netVars
  <2> QED
    BY <2>1, <2>2 DEF Full
<1>3. CASE PostFail \/ GiveUp
  <2>1. Full(hand')
    BY <1>1, <1>3, FullMessages DEF PostFail, RouteError, GiveUp, Busy, OwnResults
  <2>2. UNCHANGED <<chan, rx, rxMsg, wire, out>>
    BY <1>3 DEF PostFail, GiveUp, upstreamVars, netVars
  <2> QED
    BY <2>1, <2>2 DEF Full
<1>4. CASE Enqueue
  <2>1. Full(hand) /\ wire' = Append(wire, hand) /\ pc' = "wait"
        /\ UNCHANGED <<chan, rx, rxMsg, out>>
    BY <1>4 DEF Enqueue, Enqueued, upstreamVars
  <2>2. \A k \in 1..Len(wire') : Full(wire'[k])
    BY <1>0, <2>1, FullWireGrows
  <2> QED
    BY <2>1, <2>2 DEF Full
<1>5. CASE \E i \in Ids : StreamAnswer(i)
  <2>1. PICK i \in Ids : StreamAnswer(i)
    BY <1>5
  <2>2. PICK m \in Answers(i) : wire' = Append(wire, m)
    BY <2>1 DEF StreamAnswer, Enqueued
  <2>3. Full(m)
    BY FullMessages
  <2>4. \A k \in 1..Len(wire') : Full(wire'[k])
    BY <1>0, <2>2, <2>3, FullWireGrows
  <2> QED
    BY <2>1, <2>4 DEF StreamAnswer, agentVars, upstreamVars, Full
<1>6. CASE \E i \in Ids, p \in Pushes : StreamPush(i, p)
  <2>1. PICK i \in Ids, p \in Pushes : StreamPush(i, p)
    BY <1>6
  <2>2. Full(Message("push", p, "none"))
    BY DEF Message, Full
  <2>3. \A k \in 1..Len(wire') : Full(wire'[k])
    BY <1>0, <2>1, <2>2, FullWireGrows DEF StreamPush, Enqueued
  <2> QED
    BY <2>1, <2>3 DEF StreamPush, agentVars, upstreamVars, Full
<1>7. CASE Receive
  <2>1. cur \in Ids
    BY <1>1, <1>7 DEF Receive, Busy
  <2>2. \A i \in Ids : chan'[i] = IF i = cur THEN NoMsg ELSE chan[i]
    BY <1>0, <1>7, <2>1 DEF Receive, TypeOK
  <2>3. Full(hand')
    BY <1>7, <2>1 DEF Receive
  <2>4. UNCHANGED <<rx, rxMsg, wire, out>>
    BY <1>7 DEF Receive, upstreamVars, netVars
  <2> QED
    BY <2>2, <2>3, <2>4 DEF Full
<1>8. CASE Answer \/ LocalDone
  <2>1. UNCHANGED <<chan, rx, rxMsg, wire>> /\ pc' \notin {"enqueue", "answer"}
    BY <1>8 DEF Answer, LocalDone, Write, upstreamVars, netVars
  <2>2. CASE \E e \in Entries : /\ Write(e)
                                /\ IsAnswer(e.msg, cur) /\ ~e.raw
                                /\ \/ Answer /\ e.msg = hand
                                   \/ LocalDone /\ e.msg.result = "local"
    <3>1. PICK e \in Entries : /\ Write(e) /\ IsAnswer(e.msg, cur)
                               /\ \/ Answer /\ e.msg = hand
                                  \/ LocalDone /\ e.msg.result = "local"
      BY <2>2
    <3>2. Full(e.msg)
      BY <1>1, <3>1 DEF Answer, LocalDone, Full, IsAnswer, Busy
    <3>3. \A k \in 1..Len(out') : Full(out'[k].msg)
      BY <1>0, <3>1, <3>2, FullOutGrows DEF Write
    <3> QED
      BY <2>1, <3>3 DEF Full
  <2>3. CASE UNCHANGED out
    BY <2>1, <2>3 DEF Full
  <2> QED
    BY <1>8, <2>2, <2>3, OwnLines
<1>9. CASE UpstreamRead
  <2>1. taken + 1 \in 1..Len(wire)
    BY <1>0, <1>9 DEF UpstreamRead, TypeOK
  <2>2. rx' \in {"chan", "out"} => rxMsg' = wire[taken + 1]
    BY <1>9 DEF UpstreamRead
  <2>3. rx' \in {"chan", "out"} => Full(rxMsg')
    BY <2>1, <2>2 DEF Full
  <2>4. UNCHANGED <<pc, hand, chan, wire, out>>
    BY <1>9 DEF UpstreamRead, agentVars, netVars
  <2> QED
    BY <2>3, <2>4 DEF Full
<1>10. CASE UpstreamResolve
  <2>1. /\ rx = "chan" /\ rx' = "idle" /\ rxMsg.id \in Ids
        /\ UNCHANGED <<pc, hand, wire, out>>
    BY <1>0, <1>10
       DEF UpstreamResolve, Resolved, TypeOK, TypeInv, RegistersOK, agentVars,
           netVars
  <2>2. \A i \in Ids : chan'[i] = IF i = rxMsg.id THEN rxMsg ELSE chan[i]
    BY <1>0, <1>10, <2>1 DEF UpstreamResolve, TypeOK
  <2> QED
    BY <2>1, <2>2 DEF Full
<1>11. CASE UpstreamRelay
  <2>1. /\ out' = Append(out, RawLine(rxMsg)) /\ RawLine(rxMsg).msg = rxMsg
        /\ rx = "out" /\ rx' = "idle"
        /\ UNCHANGED <<pc, hand, chan, wire>>
    BY <1>11 DEF UpstreamRelay, RawLine, agentVars, netVars
  <2>2. \A k \in 1..Len(out') : Full(out'[k].msg)
    BY <1>0, <2>1, FullOutGrows
  <2> QED
    BY <2>1, <2>2 DEF Full
<1>12. CASE /\ UNCHANGED <<wire, chan, out>>
            /\ pc' \notin {"enqueue", "answer"} \/ UNCHANGED <<pc, hand>>
            /\ rx' \notin {"chan", "out"} \/ UNCHANGED <<rx, rxMsg>>
  BY <1>12 DEF Full
<1> QED
  BY <1>2, <1>3, <1>4, <1>5, <1>6, <1>7, <1>8, <1>9, <1>10, <1>11, <1>12
     DEF Next, Exchange, AgentStep, UpstreamStep, Terminated, vars, agentVars,
         upstreamVars, netVars, ReadRequest, ReadRelayed, RelayDone, Eof,
         PostStream, PostEmpty, Expire, StreamEnd, UpstreamStop

\* The pushes taken stay written when the wire or the output grows.
LEMMA RelayedStays ==
    ASSUME TypeOK, RelayedInv, UNCHANGED taken,
           UNCHANGED wire \/ \E m : wire' = Append(wire, m),
           UNCHANGED out \/ \E e : out' = Append(out, e),
           \/ UNCHANGED <<rx, rxMsg>>
           \/ rx # "out"
           \/ \E e : out' = Append(out, e) /\ e.msg = rxMsg
    PROVE  RelayedInv'
<1>1. \A k \in 1..taken : wire'[k] = wire[k]
  BY TakenStays
<1>2. /\ \A m : (\E k \in 1..Len(out) : out[k].msg = m)
                => \E k \in 1..Len(out') : out'[k].msg = m
      /\ \A e : out' = Append(out, e) => \E k \in 1..Len(out') : out'[k] = e
  <2>1. CASE UNCHANGED out
    <3>1. \A e : out # Append(out, e)
      <4> TAKE e
      <4>1. Len(out) \in Nat /\ Len(Append(out, e)) = Len(out) + 1
        BY AppendFacts DEF TypeOK
      <4> QED
        BY <4>1
    <3> QED
      BY <2>1, <3>1
  <2>2. CASE \E e : out' = Append(out, e)
    <3>1. /\ Len(out) \in Nat
          /\ Len(out') = Len(out) + 1
          /\ \A k \in 1..Len(out) : out'[k] = out[k]
          /\ \A e : out' = Append(out, e) => out'[Len(out) + 1] = e
      BY <2>2, AppendFacts DEF TypeOK
    <3> QED
      BY <3>1
  <2> QED
    BY <2>1, <2>2
<1> QED
  BY <1>1, <1>2 DEF RelayedInv

LEMMA RelayedStep ==
    ASSUME TypeInv, FlightInv, RelayedInv, [Next]_vars
    PROVE  RelayedInv'
<1>0. TypeOK
  BY DEF TypeInv
<1>1. CASE UpstreamRead
  <2> DEFINE n == wire[taken + 1]
  <2>1. /\ taken \in Nat /\ taken' = taken + 1 /\ wire' = wire /\ out' = out
        /\ rx = "idle" /\ rx' = Destination(n)
        /\ rx' = "out" => rxMsg' = n
    BY <1>0, <1>1 DEF UpstreamRead, Free, TypeOK, netVars
  <2>2. n.kind = "push" => rx' = "out"
    BY <2>1 DEF Destination
  <2>3. \A a \in 1..taken : wire[a].kind = "push" =>
           \E k \in 1..Len(out) : out[k].msg = wire[a]
    BY <2>1 DEF RelayedInv
  <2> QED
    BY <2>1, <2>2, <2>3 DEF RelayedInv
<1>2. CASE UpstreamRelay
  <2>1. /\ out' = Append(out, RawLine(rxMsg)) /\ RawLine(rxMsg).msg = rxMsg
        /\ UNCHANGED <<taken, wire>>
    BY <1>2 DEF UpstreamRelay, RawLine, netVars
  <2> QED
    BY <1>0, <2>1, RelayedStays
<1>3. CASE Answer \/ LocalDone
  <2>1. UNCHANGED <<taken, wire, rx, rxMsg>>
    BY <1>3 DEF Answer, LocalDone, upstreamVars, netVars
  <2>2. UNCHANGED out \/ \E e : out' = Append(out, e)
    BY <1>3, OwnLines DEF Write
  <2> QED
    BY <1>0, <2>1, <2>2, RelayedStays
<1>4. CASE Enqueue \/ (\E i \in Ids : StreamAnswer(i))
           \/ (\E i \in Ids, p \in Pushes : StreamPush(i, p))
  <2>1. \E m : wire' = Append(wire, m)
    BY <1>4 DEF Enqueue, StreamAnswer, StreamPush, Enqueued
  <2>2. UNCHANGED <<taken, rx, rxMsg, out>>
    BY <1>4 DEF Enqueue, StreamAnswer, StreamPush, upstreamVars
  <2> QED
    BY <1>0, <2>1, <2>2, RelayedStays
<1>5. CASE UNCHANGED <<taken, wire, out>> /\ (UNCHANGED <<rx, rxMsg>> \/ rx # "out")
  BY <1>0, <1>5, RelayedStays
<1> QED
  BY <1>1, <1>2, <1>3, <1>4, <1>5
     DEF Next, Exchange, AgentStep, UpstreamStep, Terminated, vars, agentVars,
         upstreamVars, netVars, ReadRequest, ReadRelayed, RelayDone, Eof,
         PostJSON, PostStream, PostEmpty, PostFail, Receive, Expire, GiveUp,
         StreamEnd, UpstreamResolve, UpstreamStop

\* A line that is an answer of the upstream's is written when all that was
\* pushed before that answer is.
LEMMA PushFirst ==
    ASSUME TypeInv, FullInv, RelayedInv, PushBeforeAnswer,
           NEW e, out' = Append(out, e), UNCHANGED wire,
           e.msg.kind = "answer" =>
              \/ \A k \in 1..Len(wire) : e.msg.result # wire[k].result
              \/ Full(e.msg) /\ ~Due(e.msg.id)
    PROVE  PushBeforeAnswer'
<1>1. /\ Len(out) \in Nat
      /\ Len(out') = Len(out) + 1
      /\ \A k \in 1..Len(out) : out'[k] = out[k]
      /\ out'[Len(out) + 1] = e
  BY AppendFacts DEF TypeInv, TypeOK
<1>2. taken \in Nat /\ Len(wire) \in Nat /\ taken <= Len(wire)
  BY DEF TypeInv, TypeOK
<1>3. ASSUME NEW a \in 1..Len(wire), NEW b \in 1..Len(wire), a < b,
             wire[a].kind = "push", e.msg.kind = "answer",
             e.msg.id = wire[b].id, e.msg.result = wire[b].result
      PROVE  \E k \in 1..Len(out) : out[k].msg = wire[a]
  <2>1. Full(e.msg) /\ ~Due(e.msg.id)
    BY <1>3
  <2>2. wire[b].kind = "answer"
    BY <1>3, <2>1 DEF Full, FullInv
  <2>3. IsAnswer(wire[b], e.msg.id)
    BY <1>3, <2>2, ConstantsAssumption DEF IsAnswer, TypeInv, TypeOK
  <2>4. b <= taken
    BY <1>2, <2>1, <2>3 DEF Due
  <2> QED
    BY <1>2, <1>3, <2>4 DEF RelayedInv
<1> QED
  BY <1>1, <1>3 DEF PushBeforeAnswer

LEMMA OrderStays ==
    ASSUME PushBeforeAnswer, UNCHANGED <<wire, out>>
    PROVE  PushBeforeAnswer'
<1>1. wire' = wire /\ out' = out
  OBVIOUS
<1> QED
  BY <1>1 DEF PushBeforeAnswer

\* An answer enters the wire when nothing of it is written.
LEMMA NothingWrittenYet ==
    ASSUME TypeInv, OnceInv, FullInv, PushBeforeAnswer, UNCHANGED out,
           NEW m, wire' = Append(wire, m), Full(m), Foreign(m),
           m.kind = "answer" => ~OnWire(m.id)
    PROVE  PushBeforeAnswer'
<1>1. /\ Len(wire) \in Nat
      /\ Len(wire') = Len(wire) + 1
      /\ \A k \in 1..Len(wire) : wire'[k] = wire[k]
      /\ wire'[Len(wire) + 1] = m
  BY AppendFacts DEF TypeInv, TypeOK
<1>2. ASSUME NEW j \in 1..Len(out), out[j].msg.kind = "answer",
             out[j].msg.id = m.id, out[j].msg.result = m.result
      PROVE  FALSE
  <2>1. Full(out[j].msg) /\ m.kind = "answer" /\ m.id \in Ids
    BY <1>2 DEF FullInv, Full
  <2>2. out[j].msg # NoMsg
    <3>1. out[j] \in Entries
      BY DEF TypeInv, TypeOK
    <3> QED
      BY <3>1, LineHoldsMessage
  <2>3. InOut(m.id)
    BY <1>2, <2>2 DEF InOut, FromUpstream, IsAnswer, Foreign
  <2> QED
    BY <2>1, <2>3 DEF OnceInv, PlaceInv
<1>3. SUFFICES ASSUME NEW a \in 1..Len(wire'), NEW b \in 1..Len(wire'),
                      NEW j \in 1..Len(out), a < b, wire'[a].kind = "push",
                      out[j].msg.kind = "answer",
                      out[j].msg.id = wire'[b].id,
                      out[j].msg.result = wire'[b].result
               PROVE  \E k \in 1..j : out[k].msg = wire'[a]
  BY DEF PushBeforeAnswer
<1>4. b # Len(wire) + 1
  BY <1>1, <1>2, <1>3
<1>5. a \in 1..Len(wire) /\ b \in 1..Len(wire)
  BY <1>1, <1>3, <1>4
<1> QED
  BY <1>1, <1>3, <1>5 DEF PushBeforeAnswer

LEMMA PushBeforeStep ==
    ASSUME PromiseInv, FullInv, RelayedInv, PushBeforeAnswer, [Next]_vars
    PROVE  PushBeforeAnswer'
<1>0. TypeInv /\ TypeOK /\ FlightInv /\ OnceInv
  BY DEF PromiseInv, TypeInv
<1>1. CASE Answer \/ LocalDone
  <2>1. CASE \E e \in Entries : /\ Write(e)
                                /\ IsAnswer(e.msg, cur) /\ ~e.raw
                                /\ \/ Answer /\ e.msg = hand
                                   \/ LocalDone /\ e.msg.result = "local"
    <3>1. PICK e \in Entries : /\ Write(e) /\ IsAnswer(e.msg, cur)
                               /\ \/ Answer /\ e.msg = hand
                                  \/ LocalDone /\ e.msg.result = "local"
      BY <2>1
    <3>2. out' = Append(out, e) /\ UNCHANGED wire
      BY <1>1, <3>1 DEF Write, Answer, LocalDone, netVars
    <3>3. CASE e.msg.result \in OwnResults
      <4>1. \A k \in 1..Len(wire) : e.msg.result # wire[k].result
        BY <1>0, <3>3 DEF OnceInv, ForeignInv, Foreign
      <4> QED
        BY <1>0, <3>2, <4>1, PushFirst
    <3>4. CASE e.msg.result \notin OwnResults
      <4>1. Answer /\ e.msg = hand /\ pc = "answer"
        BY <3>1, <3>4 DEF Answer, OwnResults
      <4>2. cur \in Ids /\ InHand(cur) /\ e.msg.id = cur
        BY <1>0, <3>1, <3>4, <4>1
           DEF InHand, IsAnswer, TypeInv, TypeOK, RegistersOK, Busy
      <4>3. Full(e.msg) /\ ~Due(e.msg.id)
        BY <1>0, <4>1, <4>2 DEF FullInv, OnceInv, PlaceInv
      <4> QED
        BY <1>0, <3>2, <4>3, PushFirst
    <3> QED
      BY <3>3, <3>4
  <2>2. CASE UNCHANGED out
    <3>1. UNCHANGED wire
      BY <1>1 DEF Answer, LocalDone, netVars
    <3> QED
      BY <2>2, <3>1, OrderStays
  <2> QED
    BY <1>0, <1>1, <2>1, <2>2, OwnLines
<1>2. CASE UpstreamRelay
  <2>1. /\ out' = Append(out, RawLine(rxMsg)) /\ RawLine(rxMsg).msg = rxMsg
        /\ rx = "out" /\ UNCHANGED wire
    BY <1>2 DEF UpstreamRelay, RawLine, netVars
  <2>2. Full(rxMsg)
    BY <2>1 DEF FullInv
  <2>3. rxMsg.kind = "answer" => ~Due(rxMsg.id)
    <3>1. rxMsg # NoMsg
      BY <1>0, <2>1, ConstantsAssumption DEF TypeInv, RegistersOK
    <3>2. rxMsg.kind = "answer" => rxMsg.id \in Ids /\ InRx(rxMsg.id)
      BY <2>1, <2>2, <3>1 DEF InRx, IsAnswer, Full
    <3> QED
      BY <1>0, <3>2 DEF OnceInv, PlaceInv
  <2> QED
    BY <1>0, <2>1, <2>2, <2>3, PushFirst
<1>3. CASE Enqueue
  <2>1. wire' = Append(wire, hand) /\ UNCHANGED out /\ pc = "enqueue"
    BY <1>3 DEF Enqueue, Enqueued
  <2>2. Full(hand) /\ Foreign(hand) /\ hand.id = cur
    BY <1>0, <2>1 DEF FullInv, OnceInv, ForeignInv
  <2>3. ~OnWire(hand.id)
    BY <1>0, <2>1, <2>2
       DEF OnceInv, SourceInv, Unanswered, TypeInv, TypeOK, RegistersOK, Busy
  <2> QED
    BY <1>0, <2>1, <2>2, <2>3, NothingWrittenYet
<1>4. CASE \E i \in Ids : StreamAnswer(i)
  <2>1. PICK i \in Ids : StreamAnswer(i)
    BY <1>4
  <2>2. PICK m \in Answers(i) : wire' = Append(wire, m)
    BY <2>1 DEF StreamAnswer, Enqueued
  <2>3. Full(m) /\ Foreign(m) /\ m.id = i
    BY FullMessages, ConstantsAssumption
       DEF Answers, Message, Foreign, OwnResults, UpstreamResults
  <2>4. ~OnWire(i)
    BY <1>0, <2>1 DEF StreamAnswer, OnceInv, SourceInv, Unanswered
  <2>5. UNCHANGED out
    BY <2>1 DEF StreamAnswer
  <2> QED
    BY <1>0, <2>2, <2>3, <2>4, <2>5, NothingWrittenYet
<1>5. CASE \E i \in Ids, p \in Pushes : StreamPush(i, p)
  <2>1. PICK i \in Ids, p \in Pushes : StreamPush(i, p)
    BY <1>5
  <2> DEFINE m == Message("push", p, "none")
  <2>2. wire' = Append(wire, m) /\ UNCHANGED out
    BY <2>1 DEF StreamPush, Enqueued
  <2>3. Full(m) /\ Foreign(m) /\ m.kind # "answer"
    BY DEF Message, Full, Foreign, OwnResults
  <2> HIDE DEF m
  <2> QED
    BY <1>0, <2>2, <2>3, NothingWrittenYet
<1>6. CASE UNCHANGED <<wire, out>>
  BY <1>6, OrderStays
<1> QED
  BY <1>1, <1>2, <1>3, <1>4, <1>5, <1>6
     DEF Next, Exchange, AgentStep, UpstreamStep, Terminated, vars, netVars,
         ReadRequest, ReadRelayed, RelayDone, Eof, PostJSON, PostStream,
         PostEmpty, PostFail, Receive, Expire, GiveUp, StreamEnd, UpstreamRead,
         UpstreamResolve, UpstreamStop

\* What the upstream sent before an answer reaches the agent before it,
\* whichever of the two goroutines writes the answer.
THEOREM PushesComeFirst == Spec => []PushBeforeAnswer
<1>1. Init => OrderInv
  BY DEF Init, OrderInv, FullInv, RelayedInv, PushBeforeAnswer
<1>2. PromiseInv /\ OrderInv /\ [Next]_vars => OrderInv'
  <2> SUFFICES ASSUME PromiseInv, OrderInv, [Next]_vars PROVE OrderInv'
    OBVIOUS
  <2>1. FullInv'
    BY FullStep DEF OrderInv, PromiseInv
  <2>2. RelayedInv'
    BY RelayedStep DEF OrderInv, PromiseInv
  <2>3. PushBeforeAnswer'
    BY PushBeforeStep DEF OrderInv
  <2> QED
    BY <2>1, <2>2, <2>3 DEF OrderInv
<1>3. OrderInv => PushBeforeAnswer
  BY DEF OrderInv
<1> QED
  BY <1>1, <1>2, <1>3, PromiseStarts, PromiseSteps, PTL DEF Spec
=============================================================================
