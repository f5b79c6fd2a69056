----------------------------- MODULE LoginProofs -----------------------------
(***************************************************************************)
(* Theorems about Login, for every set of attempts.                        *)
(***************************************************************************)
EXTENDS Login, TLAPS

\* How far the code of an attempt has come, from where the attempt is.  A code
\* in the channel is the listener's own: the handler compared the state.
CodeInv ==
    /\ port # 0 /\ codeCh # 0 => codeCh = port /\ tab[port] = "approved"
    /\ \A a \in Attempts :
          /\ pc[a] \in {"idle", "wait"} => code[a] = 0 /\ sent[a] = 0
          /\ pc[a] = "exchange" => /\ code[a] = a /\ sent[a] = 0
                                  /\ tab[a] = "approved"
          /\ pc[a] = "save" => a \in spent /\ tab[a] = "approved"

LoginInv == TypeOK /\ CodeInv /\ OwnCodeOnce /\ FailureKeepsTokens

LEMMA InitInv == Init => LoginInv
<1> SUFFICES ASSUME Init PROVE LoginInv
  OBVIOUS
<1> USE AttemptsAssumption DEF Init
<1>1. TypeOK
  <2>1. \A a \in Attempts : pc[a] \in {"wait", "exchange", "save"} <=> port = a
    OBVIOUS
  <2>2. /\ pc \in [Attempts -> {"idle", "wait", "exchange", "save", "ok", "failed"}]
        /\ tab \in [Attempts -> {"none", "open", "approved", "denied", "nothing"}]
    OBVIOUS
  <2>3. code \in [Attempts -> Attempts \cup {0}] /\ sent \in [Attempts -> Nat]
    OBVIOUS
  <2> QED
    BY <2>1, <2>2, <2>3 DEF TypeOK
<1>2. CodeInv
  BY DEF CodeInv
<1>3. OwnCodeOnce /\ FailureKeepsTokens
  BY DEF OwnCodeOnce, FailureKeepsTokens
<1> QED
  BY <1>1, <1>2, <1>3 DEF LoginInv

LEMMA StepInv == LoginInv /\ [Next]_vars => LoginInv'
<1> SUFFICES ASSUME LoginInv, [Next]_vars PROVE LoginInv'
  OBVIOUS
<1> USE AttemptsAssumption DEF LoginInv, Goto
<1>1. ASSUME NEW a \in Attempts, Start(a) PROVE LoginInv'
  <2>1. TypeOK'
    <3>1. CASE port = 0
      <4>1. \A b \in Attempts :
               pc'[b] \in {"wait", "exchange", "save"} <=> port' = b
        BY <1>1, <3>1 DEF Start, TypeOK
      <4>2. codeCh' = 0 /\ errCh' = FALSE /\ port' = a
        BY <1>1, <3>1 DEF Start
      <4>3. /\ pc' \in [Attempts -> {"idle", "wait", "exchange", "save", "ok", "failed"}]
            /\ tab' \in [Attempts -> {"none", "open", "approved", "denied", "nothing"}]
        BY <1>1, <3>1 DEF Start, TypeOK
      <4> QED
        BY <1>1, <4>1, <4>2, <4>3 DEF Start, TypeOK
    <3>2. CASE port # 0
      BY <1>1, <3>2 DEF Start, TypeOK
    <3> QED
      BY <3>1, <3>2
  <2>2. CodeInv'
    BY <1>1 DEF Start, TypeOK, CodeInv
  <2>3. OwnCodeOnce'
    BY <1>1 DEF Start, TypeOK, CodeInv, OwnCodeOnce
  <2>4. FailureKeepsTokens'
    BY <1>1 DEF Start, TypeOK, CodeInv, FailureKeepsTokens
  <2> QED
    BY <2>1, <2>2, <2>3, <2>4
<1>2. ASSUME NEW a \in Attempts, TakeCode(a) PROVE LoginInv'
  <2>1. TypeOK'
    BY <1>2 DEF TakeCode, TypeOK, CodeInv
  <2>2. CodeInv'
    BY <1>2 DEF TakeCode, TypeOK, CodeInv
  <2>3. OwnCodeOnce'
    BY <1>2 DEF TakeCode, TypeOK, CodeInv, OwnCodeOnce
  <2>4. FailureKeepsTokens'
    BY <1>2 DEF TakeCode, TypeOK, CodeInv, FailureKeepsTokens
  <2> QED
    BY <2>1, <2>2, <2>3, <2>4
<1>3. ASSUME NEW a \in Attempts, TakeError(a) PROVE LoginInv'
  <2>1. TypeOK'
    BY <1>3 DEF TakeError, Return, TypeOK, CodeInv
  <2>2. CodeInv'
    BY <1>3 DEF TakeError, Return, TypeOK, CodeInv
  <2>3. OwnCodeOnce'
    BY <1>3 DEF TakeError, Return, TypeOK, CodeInv, OwnCodeOnce
  <2>4. FailureKeepsTokens'
    BY <1>3 DEF TakeError, Return, TypeOK, CodeInv, FailureKeepsTokens
  <2> QED
    BY <2>1, <2>2, <2>3, <2>4
<1>4. ASSUME NEW a \in Attempts, TimeOut(a) PROVE LoginInv'
  <2>1. TypeOK'
    BY <1>4 DEF TimeOut, Return, TypeOK, CodeInv
  <2>2. CodeInv'
    BY <1>4 DEF TimeOut, Return, TypeOK, CodeInv
  <2>3. OwnCodeOnce'
    BY <1>4 DEF TimeOut, Return, TypeOK, CodeInv, OwnCodeOnce
  <2>4. FailureKeepsTokens'
    BY <1>4 DEF TimeOut, Return, TypeOK, CodeInv, FailureKeepsTokens
  <2> QED
    BY <2>1, <2>2, <2>3, <2>4
<1>5. ASSUME NEW a \in Attempts, Exchange(a) PROVE LoginInv'
  <2>1. TypeOK'
    <3>1. port = a
      BY <1>5 DEF Exchange, TypeOK
    <3>2. code[a] = a
      BY <1>5 DEF Exchange, CodeInv
    <3>3. sent' \in [Attempts -> Nat] /\ spent' \subseteq Attempts
      <4>1. sent' = [sent EXCEPT ![a] = sent[a] + 1]
        BY <1>5, <3>2 DEF Exchange
      <4>2. sent' \in [Attempts -> Nat]
        BY <4>1 DEF TypeOK
      <4>3. spent' \in {spent, spent \cup {a}}
        BY <1>5 DEF Exchange
      <4> QED
        BY <4>2, <4>3 DEF TypeOK
    <3>4. \/ pc' = [pc EXCEPT ![a] = "save"] /\ port' = port
          \/ pc' = [pc EXCEPT ![a] = "failed"] /\ port' = 0
      BY <1>5 DEF Exchange, AfterFailure
    <3>5. /\ port' \in Attempts \cup {0}
          /\ pc' \in [Attempts -> {"idle", "wait", "exchange", "save", "ok", "failed"}]
          /\ \A b \in Attempts :
                pc'[b] \in {"wait", "exchange", "save"} <=> port' = b
      BY <3>1, <3>4 DEF TypeOK
    <3> QED
      BY <1>5, <3>3, <3>5 DEF Exchange, TypeOK
  <2>2. CodeInv'
    BY <1>5 DEF Exchange, AfterFailure, TypeOK, CodeInv
  <2>3. OwnCodeOnce'
    BY <1>5 DEF Exchange, AfterFailure, TypeOK, CodeInv, OwnCodeOnce
  <2>4. FailureKeepsTokens'
    BY <1>5 DEF Exchange, AfterFailure, TypeOK, CodeInv, FailureKeepsTokens
  <2> QED
    BY <2>1, <2>2, <2>3, <2>4
<1>6. ASSUME NEW a \in Attempts, Save(a) PROVE LoginInv'
  <2>1. TypeOK'
    BY <1>6 DEF Save, Return, TypeOK, CodeInv
  <2>2. CodeInv'
    BY <1>6 DEF Save, Return, TypeOK, CodeInv
  <2>3. OwnCodeOnce'
    BY <1>6 DEF Save, Return, TypeOK, CodeInv, OwnCodeOnce
  <2>4. FailureKeepsTokens'
    BY <1>6 DEF Save, Return, TypeOK, CodeInv, FailureKeepsTokens
  <2> QED
    BY <2>1, <2>2, <2>3, <2>4
<1>7. ASSUME NEW a \in Attempts, Interrupt(a) PROVE LoginInv'
  <2>1. TypeOK'
    BY <1>7 DEF Interrupt, Return, TypeOK, CodeInv
  <2>2. CodeInv'
    BY <1>7 DEF Interrupt, Return, TypeOK, CodeInv
  <2>3. OwnCodeOnce'
    BY <1>7 DEF Interrupt, Return, TypeOK, CodeInv, OwnCodeOnce
  <2>4. FailureKeepsTokens'
    BY <1>7 DEF Interrupt, Return, TypeOK, CodeInv, FailureKeepsTokens
  <2> QED
    BY <2>1, <2>2, <2>3, <2>4
<1>8. ASSUME NEW a \in Attempts, Settle(a) PROVE LoginInv'
  <2>1. TypeOK'
    BY <1>8 DEF Settle, TypeOK, CodeInv
  <2>2. CodeInv'
    BY <1>8 DEF Settle, TypeOK, CodeInv
  <2>3. OwnCodeOnce'
    BY <1>8 DEF Settle, TypeOK, CodeInv, OwnCodeOnce
  <2>4. FailureKeepsTokens'
    BY <1>8 DEF Settle, TypeOK, CodeInv, FailureKeepsTokens
  <2> QED
    BY <2>1, <2>2, <2>3, <2>4
<1>9. ASSUME NEW a \in Attempts, Callback(a) PROVE LoginInv'
  <2>1. TypeOK'
    BY ZenonT(30), <1>9 DEF Callback, StateMatches, TypeOK, CodeInv
  <2>2. CodeInv'
    BY <1>9 DEF Callback, StateMatches, TypeOK, CodeInv
  <2>3. OwnCodeOnce'
    BY <1>9 DEF Callback, StateMatches, TypeOK, CodeInv, OwnCodeOnce
  <2>4. FailureKeepsTokens'
    BY <1>9 DEF Callback, StateMatches, TypeOK, CodeInv, FailureKeepsTokens
  <2> QED
    BY <2>1, <2>2, <2>3, <2>4
<1>10. CASE UNCHANGED vars
  BY <1>10 DEF vars, TypeOK, CodeInv, OwnCodeOnce, FailureKeepsTokens
<1> QED
  BY <1>1, <1>2, <1>3, <1>4, <1>5, <1>6, <1>7, <1>8, <1>9, <1>10
     DEF Next, Terminated

LEMMA SpecInv == Spec => []LoginInv
BY InitInv, StepInv, PTL DEF Spec

-----------------------------------------------------------------------------
\* Types, and the port belongs to the one attempt that has not returned, for
\* any number of attempts.
THEOREM TypesHold == Spec => []TypeOK
<1>1. LoginInv => TypeOK
  BY DEF LoginInv
<1> QED
  BY <1>1, SpecInv, PTL

\* However many tabs of earlier attempts are answered late, and however often,
\* an attempt sends only the code it asked for, and sends it once.
THEOREM SendsOwnCodeOnce == Spec => []OwnCodeOnce
<1>1. LoginInv => OwnCodeOnce
  BY DEF LoginInv
<1> QED
  BY <1>1, SpecInv, PTL

\* tokens.json changes only through an attempt that succeeds and that its user
\* approved: any other leaves the older tokens.
THEOREM FailedLoginKeepsTokens == Spec => []FailureKeepsTokens
<1>1. LoginInv => FailureKeepsTokens
  BY DEF LoginInv
<1> QED
  BY <1>1, SpecInv, PTL
=============================================================================
