-------------------------------- MODULE Login --------------------------------
(***************************************************************************)
(* `login` of one workspace, run several times (internal/oauth/login.go):  *)
(* the callback server on the configured port, its two channels, the wait  *)
(* with its timer, the exchange of the code and the save.                  *)
(*                                                                         *)
(* An attempt opens a browser tab that outlives it.  The user may settle a *)
(* tab at any time and reload its callback, and a callback goes to whoever *)
(* listens on the port by then.                                            *)
(*                                                                         *)
(* Abstractions.  The state parameter, the PKCE verifier and the code of   *)
(* an attempt are its number, 0 is no code.  A handler that finds its      *)
(* channel full hangs until the server closes; nothing reads the channels  *)
(* after the select, so that it changes nothing any more.  How a token is  *)
(* saved, and who else saves, is in TokenStore.                            *)
(***************************************************************************)
EXTENDS Naturals

CONSTANTS Attempts   \* the runs of `login`: 1, 2, ...

ASSUME AttemptsAssumption == Attempts \subseteq Nat \ {0}

VARIABLES
    pc,       \* where each attempt is
    port,     \* the attempt that listens on the callback port, 0 if none
    tab,      \* the browser tab of each attempt
    codeCh,   \* the code in the listener's codeCh, 0 if none
    errCh,    \* there is an error in the listener's errCh
    code,     \* the code an attempt took
    sent,     \* sent[a]: how often the code of attempt a was sent for exchange
    spent,    \* the codes the provider has exchanged
    stored    \* the attempt whose tokens are in tokens.json, 0 for older ones

vars == <<pc, port, tab, codeCh, errCh, code, sent, spent, stored>>

Init ==
    /\ pc = [a \in Attempts |-> "idle"]
    /\ port = 0
    /\ tab = [a \in Attempts |-> "none"]
    /\ codeCh = 0 /\ errCh = FALSE
    /\ code = [a \in Attempts |-> 0]
    /\ sent = [a \in Attempts |-> 0]
    /\ spent = {}
    /\ stored = 0

Goto(a, label) == pc' = [pc EXCEPT ![a] = label]

\* Login returns: the deferred server.Close frees the port.
Return(a, label) == Goto(a, label) /\ port' = 0

-----------------------------------------------------------------------------
(* An attempt *)

\* The port is bound before anything else; then the browser is opened.
Start(a) ==
    /\ pc[a] = "idle"
    /\ \/ /\ port = 0
          /\ port' = a
          /\ codeCh' = 0 /\ errCh' = FALSE
          /\ tab' = [tab EXCEPT ![a] = "open"]
          /\ Goto(a, "wait")
       \/ /\ port # 0
          /\ Goto(a, "failed")
          /\ UNCHANGED <<port, tab, codeCh, errCh>>
    /\ UNCHANGED <<code, sent, spent, stored>>

\* The select: whichever is ready, in no order.
TakeCode(a) ==
    /\ pc[a] = "wait" /\ codeCh # 0
    /\ code' = [code EXCEPT ![a] = codeCh]
    /\ codeCh' = 0
    /\ Goto(a, "exchange")
    /\ UNCHANGED <<port, tab, errCh, sent, spent, stored>>

TakeError(a) ==
    /\ pc[a] = "wait" /\ errCh
    /\ Return(a, "failed")
    /\ UNCHANGED <<tab, codeCh, errCh, code, sent, spent, stored>>

TimeOut(a) ==
    /\ pc[a] = "wait"
    /\ Return(a, "failed")
    /\ UNCHANGED <<tab, codeCh, errCh, code, sent, spent, stored>>

\* Mutants: a failed exchange is tried again; whatever came back is saved.
AfterFailure_Again(a) == "exchange"
AfterFailure_Saves(a) == "save"

AfterFailure(a) == "failed"

\* The provider exchanges a code once, for the verifier it was issued to; its
\* answer may be lost, refused or of no use.
Exchange(a) ==
    /\ pc[a] = "exchange"
    /\ sent' = [sent EXCEPT ![code[a]] = @ + 1]
    /\ \/ /\ code[a] = a /\ a \notin spent
          /\ spent' = spent \cup {a}
          /\ Goto(a, "save")
          /\ UNCHANGED port
       \/ /\ spent' \in {spent} \cup
                        IF code[a] = a THEN {spent \cup {a}} ELSE {}
          /\ Goto(a, AfterFailure(a))
          /\ port' = IF AfterFailure(a) = "failed" THEN 0 ELSE port
    /\ UNCHANGED <<tab, codeCh, errCh, code, stored>>

Save(a) ==
    /\ pc[a] = "save"
    /\ \/ /\ stored' = a
          /\ Return(a, "ok")
       \/ /\ Return(a, "failed")
          /\ UNCHANGED stored
    /\ UNCHANGED <<tab, codeCh, errCh, code, sent, spent>>

\* The user interrupts it.
Interrupt(a) ==
    /\ pc[a] \in {"wait", "exchange", "save"}
    /\ Return(a, "failed")
    /\ UNCHANGED <<tab, codeCh, errCh, code, sent, spent, stored>>

-----------------------------------------------------------------------------
(* The browser *)

Settle(a) ==
    /\ tab[a] = "open"
    /\ \E outcome \in {"approved", "denied", "nothing"} :
          tab' = [tab EXCEPT ![a] = outcome]
    /\ UNCHANGED <<pc, port, codeCh, errCh, code, sent, spent, stored>>

\* Mutant: the state parameter is not compared.
StateMatches_Always(a) == TRUE

StateMatches(a) == a = port

\* The handler of /callback: the tab of attempt a calls whoever listens.  The
\* order is state, error, code; each outcome goes to a channel of capacity 1.
Callback(a) ==
    /\ port # 0
    /\ tab[a] \in {"approved", "denied", "nothing"}
    /\ \/ /\ StateMatches(a) /\ tab[a] = "approved"
          /\ codeCh = 0
          /\ codeCh' = a
          /\ UNCHANGED errCh
       \/ /\ ~StateMatches(a) \/ tab[a] # "approved"
          /\ ~errCh
          /\ errCh' = TRUE
          /\ UNCHANGED codeCh
    /\ UNCHANGED <<pc, port, tab, code, sent, spent, stored>>

Terminated ==
    /\ \A a \in Attempts : pc[a] \in {"ok", "failed"}
    /\ UNCHANGED vars

Next ==
    \/ \E a \in Attempts :
          \/ Start(a) \/ TakeCode(a) \/ TakeError(a) \/ TimeOut(a)
          \/ Exchange(a) \/ Save(a) \/ Interrupt(a)
          \/ Settle(a) \/ Callback(a)
    \/ Terminated

Spec == Init /\ [][Next]_vars

-----------------------------------------------------------------------------
(* Properties *)

\* Types, and: the port is held by the one attempt that has not returned.
TypeOK ==
    /\ pc \in [Attempts -> {"idle", "wait", "exchange", "save", "ok", "failed"}]
    /\ port \in Attempts \cup {0}
    /\ tab \in [Attempts -> {"none", "open", "approved", "denied", "nothing"}]
    /\ codeCh \in Attempts \cup {0} /\ errCh \in BOOLEAN
    /\ code \in [Attempts -> Attempts \cup {0}]
    /\ sent \in [Attempts -> Nat]
    /\ spent \subseteq Attempts /\ stored \in Attempts \cup {0}
    /\ \A a \in Attempts : pc[a] \in {"wait", "exchange", "save"} <=> port = a

\* A code that reaches an attempt through the tab of an earlier one, or through
\* a reloaded page, is never sent for exchange: only the user's answer to this
\* attempt is, and once.
OwnCodeOnce ==
    /\ \A a \in Attempts : code[a] \in {0, a}
    /\ \A a \in Attempts : sent[a] <= 1

\* Tokens are stored only by an attempt whose own tab was approved, and which
\* says so: one that fails at any point leaves the older ones as they are.
FailureKeepsTokens ==
    stored # 0 => /\ pc[stored] = "ok"
                  /\ tab[stored] = "approved"
                  /\ stored \in spent
=============================================================================
