---------------------------- MODULE RequestReply ----------------------------
(***************************************************************************)
(* What slack-mcp-extender promises the agent on the other side of stdio,  *)
(* stated without the goroutines, channels and HTTP exchanges that keep    *)
(* the promise:                                                            *)
(*                                                                         *)
(*   - requests are served one at a time, in the order the agent sends     *)
(*     them;                                                               *)
(*   - one line settles a request: the answer, or an error the proxy makes *)
(*     up;                                                                 *)
(*   - the one thing the agent may get besides is the upstream's own       *)
(*     answer to a request the proxy gives up waiting for, at most once,   *)
(*     shortly before the proxy's error or any time after it;              *)
(*   - each message the upstream sends unasked is relayed at most once;    *)
(*   - the proxy leaves only when no request is open.                      *)
(*                                                                         *)
(* `said` is every line the agent got, in the order it got them, so a line *)
(* too many is a step of this specification or a breach of it, and never   *)
(* unseen.  Proxy.tla implements this specification (see Proxy!Promise).   *)
(***************************************************************************)
EXTENDS Naturals, Sequences

CONSTANTS Ids,      \* the ids of the agent's requests
          Pushes    \* the messages the upstream sends unasked

VARIABLES asked,    \* the requests the agent has made
          said,     \* the lines the agent has got
          running   \* FALSE once the proxy has left

vars == <<asked, said, running>>

\* A line that settles a request is an answer, an error or a timeout; besides
\* there are the upstream's own answer, "raw", and its messages, "push".
Settling == {"answer", "error", "timeout"}

Line(id, how) == [id |-> id, how |-> how]

Got(id, how) == \E k \in 1..Len(said) : said[k] = Line(id, how)

Settled(i) == \E how \in Settling : Got(i, how)

Say(id, how) == said' = Append(said, Line(id, how)) /\ UNCHANGED <<asked, running>>

Init == asked = {} /\ said = <<>> /\ running = TRUE

Ask(i) == /\ running
          /\ i \notin asked
          /\ \A j \in asked : Settled(j)
          /\ asked' = asked \cup {i}
          /\ UNCHANGED <<said, running>>

\* What the upstream's own answer has overtaken can only be a timeout.
Settle(i, how) == /\ i \in asked
                  /\ ~Settled(i)
                  /\ Got(i, "raw") => how = "timeout"
                  /\ Say(i, how)

RelayAnswer(i) == /\ i \in asked
                  /\ ~Got(i, "raw")
                  /\ Settled(i) => Got(i, "timeout")
                  /\ Say(i, "raw")

RelayPush(p) == ~Got(p, "push") /\ Say(p, "push")

Leave == /\ running
         /\ \A i \in asked : Settled(i)
         /\ running' = FALSE
         /\ UNCHANGED <<asked, said>>

Next == \/ \E i \in Ids : Ask(i) \/ RelayAnswer(i)
        \/ \E i \in Ids, how \in Settling : Settle(i, how)
        \/ \E p \in Pushes : RelayPush(p)
        \/ Leave

Spec == Init /\ [][Next]_vars
=============================================================================
