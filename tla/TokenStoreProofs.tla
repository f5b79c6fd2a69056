-------------------------- MODULE TokenStoreProofs --------------------------
(***************************************************************************)
(* Theorems about TokenStore, for every set of processes and every bound:  *)
(* all that MCTokenStore checks.                                           *)
(*                                                                         *)
(* As long as no two processes have something to save at the same time,    *)
(* one process at most is between its grant and its rename, the temporary  *)
(* file is its own, and the grant in tokens.json is either alive or the    *)
(* one that this process has just had rotated.                             *)
(***************************************************************************)
EXTENDS TokenStore, TLAPS

Labels == {"down", "idle", "token", "refresh", "exchange", "open", "write",
           "rename", "send"}

\* Numbers in use have been handed out; what was rotated is not accepted.
SerialInv ==
    /\ \A p \in Procs : /\ mem[p].access <= serial /\ mem[p].refresh <= serial
                        /\ refused[p] <= serial
    /\ file.tokens.access <= serial /\ file.tokens.refresh <= serial
    /\ tmp.tokens.access <= serial /\ tmp.tokens.refresh <= serial
    /\ \A r \in grants : r <= serial
    /\ \A r \in 1..MaxSerial : spender[r] # {} => r \notin grants /\ r <= serial

\* A refused token is not the one in memory; login has nothing to lose.
RetryInv ==
    \A p \in Procs :
        /\ refused[p] # 0 => mem[p].access # refused[p]
        /\ pc[p] \in {"down", "idle", "exchange"} => refused[p] = 0
        /\ pc[p] \in {"down", "exchange"} => mem[p].refresh = 0

\* One process saves at a time, and the temporary file is its own.
SoloInv ==
    ~overlap =>
        /\ file.state = "ok"
        /\ \A p, q \in Procs : Saving(p) /\ Saving(q) => p = q
        /\ \A p \in Procs :
              /\ pc[p] = "write" => fd[p] = "tmp" /\ tmp.state = "empty"
              /\ pc[p] = "rename" => /\ tmp.state = "ok"
                                    /\ tmp.tokens.refresh = mem[p].refresh

\* The grant in the file is alive, or its successor is being saved.
LiveInv ==
    (~mishap /\ ~overlap) =>
        /\ \A p \in Procs : Saving(p) => mem[p].refresh \in grants \cup {0}
        /\ \/ file.tokens.refresh \in grants \cup {0}
           \/ \E p \in Procs : Saving(p) /\ spender[file.tokens.refresh] = {p}
        /\ \A p \in Procs :
              mem[p].refresh # 0 => p \notin spender[mem[p].refresh]

StoreInv == TypeOK /\ SerialInv /\ RetryInv /\ SoloInv /\ LiveInv

-----------------------------------------------------------------------------
LEMMA NoTokensType ==
    /\ NoTokens \in Tokens
    /\ NoTokens.access = 0 /\ NoTokens.refresh = 0 /\ NoTokens.expiry = "none"
BY TokenAssumption DEF NoTokens, Tokens

LEMMA ContentsTypes ==
    /\ Absent \in Contents /\ Empty \in Contents /\ Torn \in Contents
    /\ \A c \in {Absent, Empty, Torn} : c.tokens = NoTokens
    /\ Absent.state = "absent" /\ Empty.state = "empty" /\ Torn.state = "torn"
    /\ \A t \in Tokens : /\ Holding(t) \in Contents
                         /\ Holding(t).state = "ok" /\ Holding(t).tokens = t
BY NoTokensType DEF Absent, Empty, Torn, Holding, Contents

LEMMA UpdateType ==
    ASSUME NEW D, NEW S, NEW f \in [D -> S], NEW x \in D, NEW e \in S
    PROVE  [f EXCEPT ![x] = e] \in [D -> S]
OBVIOUS

\* What a process has in memory after its grant.
LEMMA GrantedTokens ==
    ASSUME TypeOK, serial < MaxSerial, NEW names \in BOOLEAN,
           NEW expiresIn \in BOOLEAN, NEW old \in Tokens
    PROVE  /\ ParsedTokens(names, expiresIn) \in Tokens
           /\ KeepRefresh(ParsedTokens(names, expiresIn), old) \in Tokens
           /\ ParsedTokens(names, expiresIn).access = serial + 1
           /\ ParsedTokens(names, expiresIn).refresh =
                  IF names THEN serial + 1 ELSE 0
           /\ KeepRefresh(ParsedTokens(names, expiresIn), old).access = serial + 1
           /\ KeepRefresh(ParsedTokens(names, expiresIn), old).refresh =
                  IF names THEN serial + 1 ELSE old.refresh
<1> DEFINE new == ParsedTokens(names, expiresIn)
<1>1. serial + 1 \in 1..MaxSerial /\ serial + 1 # 0
  BY TokenAssumption DEF TypeOK
<1>2. /\ new.access = serial + 1
      /\ new.refresh = IF names THEN serial + 1 ELSE 0
      /\ new.expiry \in {"later", "none"}
  BY DEF ParsedTokens
<1>3. new \in Tokens
  <2>1. /\ serial + 1 \in 0..MaxSerial
        /\ (IF names THEN serial + 1 ELSE 0) \in 0..MaxSerial
    BY <1>1, TokenAssumption
  <2>2. (IF expiresIn \/ names THEN "later" ELSE "none") \in {"later", "past", "none"}
    OBVIOUS
  <2> QED
    BY <2>1, <2>2 DEF ParsedTokens, Tokens
<1>4. CASE names
  <2>1. KeepRefresh(new, old) = new
    BY <1>1, <1>2, <1>4 DEF KeepRefresh
  <2> QED
    BY <1>2, <1>3, <1>4, <2>1
<1>5. CASE ~names
  <2>1. KeepRefresh(new, old) = [new EXCEPT !.refresh = old.refresh]
    BY <1>2, <1>5 DEF KeepRefresh
  <2>2. [new EXCEPT !.refresh = old.refresh] \in Tokens
    BY <1>3 DEF Tokens
  <2>3. [new EXCEPT !.refresh = old.refresh].access = new.access
        /\ [new EXCEPT !.refresh = old.refresh].refresh = old.refresh
    BY <1>3 DEF Tokens
  <2> QED
    BY <1>2, <1>3, <1>5, <2>1, <2>2, <2>3
<1> QED
  BY <1>4, <1>5

\* The server's side of a grant.
LEMMA GrantEffect ==
    ASSUME TypeOK, SerialInv, NEW p \in Procs, NEW spent \in grants \cup {0},
           NEW names \in BOOLEAN, Grant(p, spent, names)
    PROVE  /\ serial' = serial + 1 /\ serial \in 1..MaxSerial
           /\ serial' \in 1..MaxSerial
           /\ accesses' \subseteq 1..MaxSerial /\ grants' \subseteq 1..MaxSerial
           /\ spender' \in [1..MaxSerial -> SUBSET Procs]
           /\ grants' = IF names THEN (grants \ {spent}) \cup {serial'} ELSE grants
           /\ \A r \in 1..MaxSerial :
                 spender'[r] = IF names /\ r = spent THEN {p} ELSE spender[r]
           /\ spender[serial'] = {} /\ serial' \notin grants
           /\ \A r \in grants' : r <= serial'
           /\ \A r \in 1..MaxSerial :
                 spender'[r] # {} => r \notin grants' /\ r <= serial'
<1>1. /\ serial' = serial + 1 /\ serial' \in 1..MaxSerial
      /\ serial \in 1..MaxSerial /\ MaxSerial \in Nat
  BY TokenAssumption DEF TypeOK, Grant
<1>2. accesses' \subseteq 1..MaxSerial /\ grants' \subseteq 1..MaxSerial
  BY <1>1 DEF TypeOK, Grant
<1>3. grants' = IF names THEN (grants \ {spent}) \cup {serial'} ELSE grants
  BY <1>1 DEF Grant
<1>4. /\ spender' \in [1..MaxSerial -> SUBSET Procs]
      /\ \A r \in 1..MaxSerial :
            spender'[r] = IF names /\ r = spent THEN {p} ELSE spender[r]
  <2>1. CASE names /\ spent # 0
    <3>1. spender' = [spender EXCEPT ![spent] = {p}] /\ spent \in 1..MaxSerial
      BY <2>1 DEF Grant, TypeOK
    <3> QED
      BY <2>1, <3>1 DEF TypeOK
  <2>2. CASE ~(names /\ spent # 0)
    <3>1. spender' = spender
      BY <2>2 DEF Grant
    <3> QED
      BY <1>1, <2>2, <3>1 DEF TypeOK
  <2> QED
    BY <2>1, <2>2
<1>5. spender[serial'] = {} /\ serial' \notin grants
  BY <1>1 DEF SerialInv
<1>6. \A r \in grants' : r <= serial'
  BY <1>1, <1>2, <1>3 DEF SerialInv
<1>7. \A r \in 1..MaxSerial : spender'[r] # {} => r \notin grants' /\ r <= serial'
  BY <1>1, <1>3, <1>4, <1>5 DEF SerialInv, TypeOK
<1> QED
  BY <1>1, <1>2, <1>3, <1>4, <1>5, <1>6, <1>7

-----------------------------------------------------------------------------
\* What a step does to one process, when the files, the server and the history
\* stay: it neither begins nor ends a save.
LEMMA OneProcessStep ==
    ASSUME StoreInv, NEW p \in Procs,
           NEW k \in {"mcp", "login"}, NEW l \in Labels, NEW m \in Tokens,
           NEW r \in 0..MaxSerial,
           kind' = [kind EXCEPT ![p] = k], pc' = [pc EXCEPT ![p] = l],
           mem' = [mem EXCEPT ![p] = m], refused' = [refused EXCEPT ![p] = r],
           fd' = fd, starts' \in 0..MaxStarts,
           UNCHANGED <<fileVars, serverVars, history>>,
           \/ l = pc[p] /\ m.refresh = mem[p].refresh
           \/ ~Saving(p) /\ l \notin {"open", "write", "rename"},
           m.access <= serial, m.refresh <= serial, r <= serial,
           r # 0 => m.access # r,
           l \in {"down", "idle", "exchange"} => r = 0,
           l \in {"down", "exchange"} => m.refresh = 0,
           (~mishap /\ ~overlap /\ m.refresh # 0) => p \notin spender[m.refresh]
    PROVE  StoreInv'
<1>1. /\ \A q \in Procs : /\ kind'[q] = IF q = p THEN k ELSE kind[q]
                          /\ pc'[q] = IF q = p THEN l ELSE pc[q]
                          /\ mem'[q] = IF q = p THEN m ELSE mem[q]
                          /\ refused'[q] = IF q = p THEN r ELSE refused[q]
      /\ kind' \in [Procs -> {"mcp", "login"}] /\ pc' \in [Procs -> Labels]
      /\ mem' \in [Procs -> Tokens] /\ refused' \in [Procs -> 0..MaxSerial]
  BY DEF StoreInv, TypeOK, Labels
<1>2. \A q \in Procs : (pc[q] = "write" <=> pc'[q] = "write")
  BY <1>1 DEF Saving
<1>3. \A q \in Procs : /\ Saving(q)' <=> Saving(q)
                       /\ Saving(q) => /\ mem'[q].refresh = mem[q].refresh
                                       /\ pc'[q] = pc[q]
  BY <1>1 DEF Saving
<1>4. TypeOK'
  BY <1>1, <1>2 DEF StoreInv, TypeOK, At, Labels, fileVars, serverVars, history
<1>5. SerialInv'
  BY <1>1 DEF StoreInv, SerialInv, fileVars, serverVars, history
<1>6. RetryInv'
  BY <1>1 DEF StoreInv, RetryInv
<1>7. SoloInv'
  <2>1. SUFFICES ASSUME ~overlap PROVE SoloInv'
    BY DEF SoloInv, history
  <2>2. \A q \in Procs : /\ pc'[q] = "write" => pc[q] = "write"
                         /\ pc'[q] = "rename" => /\ pc[q] = "rename"
                                                /\ mem'[q].refresh = mem[q].refresh
    BY <1>3 DEF Saving
  <2> QED
    BY <1>3, <2>1, <2>2 DEF StoreInv, SoloInv, fileVars, history
<1>8. LiveInv'
  <2>1. SUFFICES ASSUME ~mishap, ~overlap PROVE LiveInv'
    BY DEF LiveInv, history
  <2>2. \A q \in Procs : Saving(q)' => mem'[q].refresh \in grants' \cup {0}
    BY <1>3, <2>1 DEF StoreInv, LiveInv, serverVars
  <2>3. \/ file'.tokens.refresh \in grants' \cup {0}
        \/ \E q \in Procs : Saving(q)' /\ spender'[file'.tokens.refresh] = {q}
    BY <1>3, <2>1 DEF StoreInv, LiveInv, fileVars, serverVars, history
  <2>4. \A q \in Procs : mem'[q].refresh # 0 => q \notin spender'[mem'[q].refresh]
    BY <1>1, <2>1 DEF StoreInv, LiveInv, history
  <2> QED
    BY <2>2, <2>3, <2>4 DEF LiveInv
<1> QED
  BY <1>4, <1>5, <1>6, <1>7, <1>8 DEF StoreInv

LEMMA FileTokens ==
    ASSUME TypeOK
    PROVE  file.tokens \in Tokens /\ tmp.tokens \in Tokens
BY DEF TypeOK, Contents

\* A process that starts takes the grant in the file: alive, or spent by another.
LEMMA StartStep ==
    ASSUME StoreInv, NEW p \in Procs, Start(p)
    PROVE  StoreInv'
<1>1. /\ file.tokens \in Tokens /\ pc[p] = "down" /\ pc[p] \in Labels
      /\ mem[p] \in Tokens /\ refused[p] = 0 /\ mem[p].refresh = 0
      /\ mem[p].access <= serial /\ 0 <= serial
      /\ pc \in [Procs -> Labels] /\ mem \in [Procs -> Tokens]
      /\ refused \in [Procs -> 0..MaxSerial]
      /\ 0 \in 0..MaxSerial
  BY FileTokens, TokenAssumption
     DEF Start, At, StoreInv, TypeOK, RetryInv, SerialInv, Labels
<1>2. /\ kind' = [kind EXCEPT ![p] = "mcp"]
      /\ refused' = [refused EXCEPT ![p] = 0] /\ fd' = fd
      /\ starts' \in 0..MaxStarts /\ ~Saving(p)
      /\ UNCHANGED <<fileVars, serverVars, history>>
  BY <1>1, TokenAssumption DEF Start, StoreInv, TypeOK, Saving
<1>3. CASE file.state # "ok"
  <2>1. pc' = [pc EXCEPT ![p] = "down"] /\ mem' = [mem EXCEPT ![p] = mem[p]]
    BY <1>1, <1>3 DEF Start
  <2>2. "down" \in Labels /\ "mcp" \in {"mcp", "login"}
    BY DEF Labels
  <2> QED
    BY ZenonT(30), <1>1, <1>2, <2>1, <2>2, OneProcessStep
<1>4. CASE file.state = "ok"
  <2>1. PICK e \in {file.tokens.expiry, "past"} :
           mem' = [mem EXCEPT ![p] = [file.tokens EXCEPT !.expiry = e]]
    BY <1>4 DEF Start
  <2> DEFINE m == [file.tokens EXCEPT !.expiry = e]
  <2>2. m \in Tokens /\ m.access = file.tokens.access
        /\ m.refresh = file.tokens.refresh
    BY <1>1 DEF Tokens
  <2>3. m.access <= serial /\ m.refresh <= serial
    BY <2>2 DEF StoreInv, SerialInv
  <2>4. (~mishap /\ ~overlap /\ m.refresh # 0) => p \notin spender[m.refresh]
    <3>1. SUFFICES ASSUME ~mishap, ~overlap, m.refresh # 0
                   PROVE  p \notin spender[m.refresh]
      OBVIOUS
    <3>2. CASE m.refresh \in grants
      <4>1. m.refresh \in 1..MaxSerial
        BY <3>2 DEF StoreInv, TypeOK
      <4> QED
        BY <3>2, <4>1 DEF StoreInv, SerialInv
    <3>3. CASE \E q \in Procs : Saving(q) /\ spender[m.refresh] = {q}
      BY <3>3, <1>2
    <3> QED
      BY <2>2, <3>1, <3>2, <3>3 DEF StoreInv, LiveInv
  <2>5. pc' = [pc EXCEPT ![p] = "idle"] /\ "idle" \in Labels
    BY <1>4 DEF Start, Goto, Labels
  <2> HIDE DEF m
  <2> QED
    BY <1>1, <1>2, <2>1, <2>2, <2>3, <2>4, <2>5, OneProcessStep DEF m
<1> QED
  BY <1>3, <1>4

\* A step of a request, or of time.
LEMMA LocalSteps ==
    ASSUME StoreInv, NEW p \in Procs,
           \/ StartLogin(p) \/ Request(p) \/ Token(p) \/ RefreshFailed(p)
           \/ ExchangeFailed(p) \/ Accepted(p) \/ Refused(p) \/ Age(p)
    PROVE  StoreInv'
<1>0. /\ pc \in [Procs -> Labels] /\ mem \in [Procs -> Tokens]
      /\ kind \in [Procs -> {"mcp", "login"}]
      /\ refused \in [Procs -> 0..MaxSerial]
      /\ pc[p] \in Labels /\ mem[p] \in Tokens /\ kind[p] \in {"mcp", "login"}
      /\ refused[p] \in 0..MaxSerial /\ starts \in 0..MaxStarts
      /\ 0 \in 0..MaxSerial /\ mem[p].access \in 0..MaxSerial
      /\ mem[p].refresh \in 0..MaxSerial /\ serial \in Nat
  BY TokenAssumption DEF StoreInv, TypeOK, Labels, Tokens
<1>1. /\ mem[p].access <= serial /\ mem[p].refresh <= serial
      /\ refused[p] <= serial /\ 0 <= serial
      /\ refused[p] # 0 => mem[p].access # refused[p]
      /\ pc[p] \in {"down", "idle", "exchange"} => refused[p] = 0
      /\ pc[p] \in {"down", "exchange"} => mem[p].refresh = 0
      /\ (~mishap /\ ~overlap /\ mem[p].refresh # 0) =>
             p \notin spender[mem[p].refresh]
  BY <1>0 DEF StoreInv, SerialInv, RetryInv, LiveInv
<1>2. /\ kind = [kind EXCEPT ![p] = kind[p]] /\ pc = [pc EXCEPT ![p] = pc[p]]
      /\ mem = [mem EXCEPT ![p] = mem[p]]
      /\ refused = [refused EXCEPT ![p] = refused[p]]
  BY <1>0
<1>3. "idle" \in Labels /\ "token" \in Labels /\ "send" \in Labels
      /\ "refresh" \in Labels /\ "down" \in Labels /\ "exchange" \in Labels
  BY DEF Labels
<1>4. CASE StartLogin(p)
  <2>1. /\ ~Saving(p) /\ starts' \in 0..MaxStarts
        /\ kind' = [kind EXCEPT ![p] = "login"]
        /\ pc' = [pc EXCEPT ![p] = "exchange"] /\ mem' = [mem EXCEPT ![p] = NoTokens]
        /\ refused' = [refused EXCEPT ![p] = 0] /\ fd' = fd
        /\ UNCHANGED <<fileVars, serverVars, history>>
    BY <1>0, <1>1, <1>2, <1>4, TokenAssumption DEF StartLogin, At, Goto, Saving
  <2> QED
    BY <1>0, <1>1, <1>3, <2>1, NoTokensType, OneProcessStep
<1>5. CASE Request(p)
  <2>1. /\ ~Saving(p) /\ starts' \in 0..MaxStarts
        /\ kind' = [kind EXCEPT ![p] = kind[p]]
        /\ pc' = [pc EXCEPT ![p] = "token"] /\ mem' = [mem EXCEPT ![p] = mem[p]]
        /\ refused' = [refused EXCEPT ![p] = refused[p]] /\ fd' = fd
        /\ UNCHANGED <<fileVars, serverVars, history>>
    BY <1>0, <1>2, <1>5 DEF Request, At, Goto, Saving
  <2> QED
    BY <1>0, <1>1, <1>3, <2>1, OneProcessStep
<1>6. CASE Token(p)
  <2>1. PICK l \in {"idle", "send", "refresh"}, r \in {0, refused[p]} :
           /\ pc' = [pc EXCEPT ![p] = l] /\ refused' = [refused EXCEPT ![p] = r]
           /\ l = "idle" => r = 0
    BY <1>2, <1>6 DEF Token, Return, Goto
  <2>2. /\ ~Saving(p) /\ starts' \in 0..MaxStarts
        /\ kind' = [kind EXCEPT ![p] = kind[p]]
        /\ mem' = [mem EXCEPT ![p] = mem[p]] /\ fd' = fd
        /\ UNCHANGED <<fileVars, serverVars, history>>
    BY <1>0, <1>2, <1>6 DEF Token, At, Saving
  <2>3. /\ l \in Labels /\ l \notin {"open", "write", "rename", "down", "exchange"}
        /\ r \in 0..MaxSerial /\ r <= serial /\ (r # 0 => mem[p].access # r)
    BY <1>0, <1>1, <1>3
  <2> QED
    BY <1>0, <1>1, <2>1, <2>2, <2>3, OneProcessStep
<1>7. CASE RefreshFailed(p) \/ Accepted(p)
  <2>1. /\ ~Saving(p) /\ starts' \in 0..MaxStarts
        /\ kind' = [kind EXCEPT ![p] = kind[p]]
        /\ pc' = [pc EXCEPT ![p] = "idle"] /\ mem' = [mem EXCEPT ![p] = mem[p]]
        /\ refused' = [refused EXCEPT ![p] = 0] /\ fd' = fd
        /\ UNCHANGED <<fileVars, serverVars, history>>
    BY <1>0, <1>2, <1>7 DEF RefreshFailed, Accepted, Return, At, Goto, Saving
  <2> QED
    BY <1>0, <1>1, <1>3, <2>1, OneProcessStep
<1>8. CASE ExchangeFailed(p)
  <2>1. /\ ~Saving(p) /\ starts' \in 0..MaxStarts
        /\ kind' = [kind EXCEPT ![p] = "mcp"]
        /\ pc' = [pc EXCEPT ![p] = "down"] /\ mem' = [mem EXCEPT ![p] = NoTokens]
        /\ refused' = [refused EXCEPT ![p] = 0] /\ fd' = fd
        /\ UNCHANGED <<fileVars, serverVars, history>>
    BY <1>0, <1>2, <1>8 DEF ExchangeFailed, Stop, At, Goto, Saving
  <2> QED
    BY <1>0, <1>1, <1>3, <2>1, NoTokensType, OneProcessStep
<1>9. CASE Refused(p)
  <2>1. /\ ~Saving(p) /\ starts' \in 0..MaxStarts
        /\ kind' = [kind EXCEPT ![p] = kind[p]] /\ fd' = fd
        /\ UNCHANGED <<fileVars, serverVars, history>>
    BY <1>0, <1>2, <1>9 DEF Refused, At, Saving
  <2>2. CASE refused[p] = 0
    <3>1. /\ Invalidated(mem[p]) \in Tokens /\ Invalidated(mem[p]).access = 0
          /\ Invalidated(mem[p]).refresh = mem[p].refresh
      BY <1>0 DEF Invalidated, Tokens
    <3>2. /\ pc' = [pc EXCEPT ![p] = "token"]
          /\ mem' = [mem EXCEPT ![p] = Invalidated(mem[p])]
          /\ refused' = [refused EXCEPT ![p] = mem[p].access]
      BY <1>0, <1>9, <2>2 DEF Refused, Goto
    <3> QED
      BY <1>0, <1>1, <1>3, <2>1, <3>1, <3>2, OneProcessStep
  <2>3. CASE refused[p] # 0
    <3>1. /\ pc' = [pc EXCEPT ![p] = "idle"] /\ mem' = [mem EXCEPT ![p] = mem[p]]
          /\ refused' = [refused EXCEPT ![p] = 0]
      BY <1>2, <1>9, <2>3 DEF Refused, Return, Goto
    <3> QED
      BY <1>0, <1>1, <1>3, <2>1, <3>1, OneProcessStep
  <2> QED
    BY <2>2, <2>3
<1>10. CASE Age(p)
  <2> DEFINE m == [mem[p] EXCEPT !.expiry = "past"]
  <2>1. /\ m \in Tokens /\ m.access = mem[p].access /\ m.refresh = mem[p].refresh
    BY <1>0 DEF Tokens
  <2>2. /\ starts' \in 0..MaxStarts /\ kind' = [kind EXCEPT ![p] = kind[p]]
        /\ pc' = [pc EXCEPT ![p] = pc[p]]
        /\ refused' = [refused EXCEPT ![p] = refused[p]] /\ fd' = fd
        /\ UNCHANGED <<fileVars, serverVars, history>>
    BY <1>0, <1>2, <1>10 DEF Age
  <2>3. mem' = [mem EXCEPT ![p] = m]
    BY <1>0, <1>10 DEF Age
  <2> HIDE DEF m
  <2> QED
    BY <1>0, <1>1, <2>1, <2>2, <2>3, OneProcessStep
<1> QED
  BY <1>4, <1>5, <1>6, <1>7, <1>8, <1>9, <1>10

\* A grant to save: no other process spends this one's predecessor, unless two
\* have something to save.
LEMMA GrantToSave ==
    ASSUME StoreInv, NEW p \in Procs, NEW spent \in grants \cup {0},
           NEW names \in BOOLEAN, NEW m \in Tokens, ~Saving(p),
           Grant(p, spent, names), SaveNext(p),
           mem' = [mem EXCEPT ![p] = m], m.access = serial + 1,
           m.refresh = IF names THEN serial + 1 ELSE spent,
           UNCHANGED <<kind, fd, starts, refused, fileVars, mishap>>
    PROVE  StoreInv'
<1>1. /\ serial' = serial + 1 /\ serial \in 1..MaxSerial
      /\ serial' \in 1..MaxSerial
      /\ accesses' \subseteq 1..MaxSerial /\ grants' \subseteq 1..MaxSerial
      /\ spender' \in [1..MaxSerial -> SUBSET Procs]
      /\ grants' = IF names THEN (grants \ {spent}) \cup {serial'} ELSE grants
      /\ \A r \in 1..MaxSerial :
            spender'[r] = IF names /\ r = spent THEN {p} ELSE spender[r]
      /\ spender[serial'] = {} /\ serial' \notin grants
      /\ \A r \in grants' : r <= serial'
      /\ \A r \in 1..MaxSerial : spender'[r] # {} => r \notin grants' /\ r <= serial'
  <2>1. TypeOK /\ SerialInv
    BY DEF StoreInv
  <2> QED
    BY <2>1, GrantEffect, Zenon
<1>2. /\ \A q \in Procs : /\ pc'[q] = IF q = p THEN "open" ELSE pc[q]
                          /\ mem'[q] = IF q = p THEN m ELSE mem[q]
      /\ pc' \in [Procs -> Labels] /\ mem' \in [Procs -> Tokens]
  BY DEF SaveNext, Goto, StoreInv, TypeOK, Labels
<1>3. /\ overlap' = (overlap \/ \E q \in Procs \ {p} : Saving(q))
      /\ overlap' \in BOOLEAN
  BY DEF SaveNext, StoreInv, TypeOK
<1>4. \A q \in Procs : Saving(q)' <=> q = p \/ Saving(q)
  BY <1>2 DEF Saving
<1>5. spent \in 0..MaxSerial /\ spent <= serial /\ serial \in Nat /\ MaxSerial \in Nat
  BY <1>1, TokenAssumption DEF StoreInv, TypeOK, SerialInv
<1>6. TypeOK'
  BY <1>1, <1>2, <1>3 DEF StoreInv, TypeOK, At, Labels, fileVars, Saving
<1>7. SerialInv'
  <2>1. \A q \in Procs : /\ mem[q].access <= serial /\ mem[q].refresh <= serial
                         /\ mem[q].access \in Nat /\ mem[q].refresh \in Nat
                         /\ refused[q] <= serial /\ refused[q] \in Nat
    BY TokenAssumption DEF StoreInv, SerialInv, TypeOK, Tokens
  <2>2. /\ file.tokens.access <= serial /\ file.tokens.refresh <= serial
        /\ tmp.tokens.access <= serial /\ tmp.tokens.refresh <= serial
        /\ file.tokens \in Tokens /\ tmp.tokens \in Tokens
    BY FileTokens DEF StoreInv, SerialInv
  <2>3. /\ file.tokens.access \in Nat /\ file.tokens.refresh \in Nat
        /\ tmp.tokens.access \in Nat /\ tmp.tokens.refresh \in Nat
    BY <2>2, TokenAssumption DEF Tokens
  <2>4. \A q \in Procs : /\ mem'[q].access <= serial' /\ mem'[q].refresh <= serial'
                         /\ refused'[q] <= serial'
    BY <1>1, <1>2, <1>5, <2>1
  <2>5. /\ file'.tokens.access <= serial' /\ file'.tokens.refresh <= serial'
        /\ tmp'.tokens.access <= serial' /\ tmp'.tokens.refresh <= serial'
    BY <1>1, <2>2, <2>3 DEF fileVars
  <2> QED
    BY <1>1, <2>4, <2>5 DEF SerialInv
<1>8. RetryInv'
  <2>1. \A q \in Procs : refused[q] \in 0..MaxSerial /\ refused[q] <= serial
    BY DEF StoreInv, TypeOK, SerialInv
  <2>2. m.access # refused[p]
    BY <1>1, <1>5, <2>1
  <2> QED
    BY <1>2, <2>2 DEF StoreInv, RetryInv
<1>9. SoloInv'
  <2>1. SUFFICES ASSUME ~overlap' PROVE SoloInv'
    BY DEF SoloInv
  <2>2. ~overlap /\ \A q \in Procs : q # p => ~Saving(q)
    BY <1>3, <2>1
  <2>3. \A q \in Procs : pc'[q] \notin {"write", "rename"}
    BY <1>2, <2>2 DEF Saving
  <2> QED
    BY <1>4, <2>2, <2>3 DEF StoreInv, SoloInv, fileVars
<1>10. LiveInv'
  <2>1. SUFFICES ASSUME ~mishap, ~overlap' PROVE LiveInv'
    BY DEF LiveInv
  <2>2. ~overlap /\ \A q \in Procs : ~Saving(q)
    BY <1>3, <2>1
  <2>3. \A q \in Procs : Saving(q)' => mem'[q].refresh \in grants' \cup {0}
    BY <1>1, <1>2, <1>4, <2>2
  <2>4. \/ file'.tokens.refresh \in grants' \cup {0}
        \/ Saving(p)' /\ spender'[file'.tokens.refresh] = {p}
    <3>1. file.tokens.refresh \in grants \cup {0}
      BY <2>1, <2>2 DEF StoreInv, LiveInv
    <3>2. CASE names /\ file.tokens.refresh = spent /\ spent # 0
      BY <1>1, <1>4, <1>5, <3>2 DEF fileVars
    <3>3. CASE ~(names /\ file.tokens.refresh = spent /\ spent # 0)
      BY <1>1, <3>1, <3>3 DEF fileVars
    <3> QED
      BY <3>2, <3>3
  <2>5. ASSUME NEW q \in Procs, mem'[q].refresh # 0
        PROVE  q \notin spender'[mem'[q].refresh]
    <3>1. CASE q = p /\ names
      <4>1. mem'[q].refresh = serial' /\ spent # serial'
        BY <1>1, <1>2, <1>5, <3>1
      <4> QED
        BY <1>1, <4>1
    <3>2. CASE q = p /\ ~names
      <4>1. mem'[q].refresh = spent /\ spent \in grants /\ spent \in 1..MaxSerial
        BY <1>2, <2>5, <3>2 DEF StoreInv, TypeOK
      <4>2. spender[spent] = {} /\ spender'[spent] = spender[spent]
        BY <1>1, <3>2, <4>1 DEF StoreInv, SerialInv
      <4> QED
        BY <4>1, <4>2
    <3>3. CASE q # p
      <4>1. mem'[q].refresh = mem[q].refresh /\ mem[q].refresh \in 1..MaxSerial
        BY <1>2, <2>5, <3>3 DEF StoreInv, TypeOK, Tokens
      <4>2. q \notin spender[mem[q].refresh]
        BY <2>1, <2>2, <2>5, <4>1 DEF StoreInv, LiveInv
      <4> QED
        BY <1>1, <3>3, <4>1, <4>2
    <3> QED
      BY <3>1, <3>2, <3>3
  <2> QED
    BY <2>3, <2>4, <2>5 DEF LiveInv
<1> QED
  BY <1>6, <1>7, <1>8, <1>9, <1>10 DEF StoreInv

LEMMA GrantSteps ==
    ASSUME StoreInv, NEW p \in Procs, RefreshGranted(p) \/ Exchange(p)
    PROVE  StoreInv'
<1>1. mem[p] \in Tokens /\ mem[p].refresh \in 0..MaxSerial /\ TypeOK
  BY DEF StoreInv, TypeOK, Tokens
<1>2. CASE RefreshGranted(p)
  <2>1. PICK names, expiresIn \in BOOLEAN :
           /\ Grant(p, mem[p].refresh, names)
           /\ mem' = [mem EXCEPT ![p] =
                         KeepRefresh(ParsedTokens(names, expiresIn), mem[p])]
    BY <1>2 DEF RefreshGranted
  <2> DEFINE m == KeepRefresh(ParsedTokens(names, expiresIn), mem[p])
  <2>2. /\ m \in Tokens /\ m.access = serial + 1
        /\ m.refresh = IF names THEN serial + 1 ELSE mem[p].refresh
    BY <1>1, <2>1, GrantedTokens DEF Grant
  <2>3. /\ ~Saving(p) /\ SaveNext(p) /\ mem[p].refresh \in grants \cup {0}
        /\ UNCHANGED <<kind, fd, starts, refused, fileVars, mishap>>
    BY <1>2 DEF RefreshGranted, At, Saving
  <2> HIDE DEF m
  <2> QED
    BY <2>1, <2>2, <2>3, GrantToSave DEF m
<1>3. CASE Exchange(p)
  <2>1. PICK names, expiresIn \in BOOLEAN :
           /\ Grant(p, 0, names)
           /\ mem' = [mem EXCEPT ![p] = ParsedTokens(names, expiresIn)]
    BY <1>3 DEF Exchange
  <2> DEFINE m == ParsedTokens(names, expiresIn)
  <2>2. /\ m \in Tokens /\ m.access = serial + 1
        /\ m.refresh = IF names THEN serial + 1 ELSE 0
    BY <1>1, <2>1, GrantedTokens DEF Grant
  <2>3. /\ ~Saving(p) /\ SaveNext(p) /\ 0 \in grants \cup {0}
        /\ UNCHANGED <<kind, fd, starts, refused, fileVars, mishap>>
    BY <1>3 DEF Exchange, At, Saving
  <2> HIDE DEF m
  <2> QED
    BY <2>1, <2>2, <2>3, GrantToSave DEF m
<1> QED
  BY <1>2, <1>3

\* A rotation whose answer is lost is a mishap; a grant that rotates nothing
\* takes nothing away.
LEMMA LostStep ==
    ASSUME StoreInv, NEW p \in Procs, RefreshLost(p)
    PROVE  StoreInv'
<1>0. PICK names \in BOOLEAN : /\ Grant(p, mem[p].refresh, names)
                               /\ mishap' = (mishap \/ names)
  BY DEF RefreshLost
<1>a. mem[p].refresh \in grants \cup {0} /\ mem[p].refresh \in grants
  BY DEF RefreshLost
<1>1. /\ serial' = serial + 1 /\ serial \in 1..MaxSerial /\ serial' \in 1..MaxSerial
      /\ accesses' \subseteq 1..MaxSerial /\ grants' \subseteq 1..MaxSerial
      /\ spender' \in [1..MaxSerial -> SUBSET Procs]
      /\ ~names => grants' = grants /\ spender' = spender
      /\ \A r \in grants' : r <= serial'
      /\ \A r \in 1..MaxSerial : spender'[r] # {} => r \notin grants' /\ r <= serial'
  BY <1>0, <1>a, GrantEffect DEF StoreInv, TypeOK, Grant
<1>2. /\ \A q \in Procs : /\ pc'[q] = IF q = p THEN "idle" ELSE pc[q]
                          /\ refused'[q] = IF q = p THEN 0 ELSE refused[q]
      /\ pc' \in [Procs -> Labels] /\ refused' \in [Procs -> 0..MaxSerial]
      /\ mem' = mem /\ fd' = fd /\ kind' = kind /\ starts' = starts
      /\ overlap' = overlap /\ UNCHANGED fileVars /\ pc[p] = "refresh"
  BY TokenAssumption DEF RefreshLost, Return, Goto, At, StoreInv, TypeOK, Labels
<1>3. \A q \in Procs : /\ Saving(q)' <=> Saving(q)
                       /\ pc'[q] = "write" <=> pc[q] = "write"
                       /\ pc'[q] = "rename" <=> pc[q] = "rename"
  BY <1>2 DEF Saving
<1>4. TypeOK'
  <2>1. mishap' \in BOOLEAN
    BY <1>0 DEF StoreInv, TypeOK
  <2> QED
    BY <1>1, <1>2, <1>3, <2>1 DEF StoreInv, TypeOK, At, Labels, fileVars
<1>5. SerialInv'
  <2>1. \A q \in Procs : /\ mem[q].access <= serial /\ mem[q].refresh <= serial
                         /\ mem[q].access \in Nat /\ mem[q].refresh \in Nat
                         /\ refused[q] <= serial /\ refused[q] \in Nat
    BY TokenAssumption DEF StoreInv, SerialInv, TypeOK, Tokens
  <2>2. /\ file.tokens.access <= serial /\ file.tokens.refresh <= serial
        /\ tmp.tokens.access <= serial /\ tmp.tokens.refresh <= serial
        /\ file.tokens \in Tokens /\ tmp.tokens \in Tokens
    BY FileTokens DEF StoreInv, SerialInv
  <2>3. /\ file.tokens.access \in Nat /\ file.tokens.refresh \in Nat
        /\ tmp.tokens.access \in Nat /\ tmp.tokens.refresh \in Nat
    BY <2>2, TokenAssumption DEF Tokens
  <2>4. \A q \in Procs : /\ mem'[q].access <= serial' /\ mem'[q].refresh <= serial'
                         /\ refused'[q] <= serial'
    BY <1>1, <1>2, <2>1
  <2>5. /\ file'.tokens.access <= serial' /\ file'.tokens.refresh <= serial'
        /\ tmp'.tokens.access <= serial' /\ tmp'.tokens.refresh <= serial'
    BY <1>1, <1>2, <2>2, <2>3 DEF fileVars
  <2> QED
    BY <1>1, <2>4, <2>5 DEF SerialInv
<1>6. RetryInv'
  BY <1>2 DEF StoreInv, RetryInv
<1>7. SoloInv'
  BY <1>2, <1>3 DEF StoreInv, SoloInv, fileVars
<1>8. LiveInv'
  <2>1. SUFFICES ASSUME ~mishap, ~names, ~overlap PROVE LiveInv'
    BY <1>0, <1>2 DEF LiveInv
  <2> QED
    BY <1>1, <1>2, <1>3, <2>1 DEF StoreInv, LiveInv, fileVars
<1> QED
  BY <1>4, <1>5, <1>6, <1>7, <1>8 DEF StoreInv

-----------------------------------------------------------------------------
\* What follows a save leaves every other process alone, and no token that a
\* login had.
LEMMA SavedEffect ==
    ASSUME StoreInv, NEW p \in Procs, Saving(p), Saved(p) \/ Stop(p)
    PROVE  /\ pc' \in [Procs -> Labels] /\ mem' \in [Procs -> Tokens]
           /\ kind' \in [Procs -> {"mcp", "login"}]
           /\ refused' \in [Procs -> 0..MaxSerial]
           /\ \A q \in Procs : q # p => /\ pc'[q] = pc[q] /\ mem'[q] = mem[q]
                                        /\ refused'[q] = refused[q]
           /\ pc'[p] \in {"send", "down"}
           /\ mem'[p] = IF pc'[p] = "send" THEN mem[p] ELSE NoTokens
           /\ refused'[p] = IF pc'[p] = "send" THEN refused[p] ELSE 0
           /\ \A q \in Procs : Saving(q)' <=> q # p /\ Saving(q)
<1>1. /\ pc \in [Procs -> Labels] /\ mem \in [Procs -> Tokens]
      /\ kind \in [Procs -> {"mcp", "login"}]
      /\ refused \in [Procs -> 0..MaxSerial] /\ 0 \in 0..MaxSerial
      /\ {"send", "down"} \subseteq Labels
  BY TokenAssumption DEF StoreInv, TypeOK, Labels
<1>2. CASE /\ Goto(p, "send") /\ UNCHANGED <<mem, kind, refused>>
  BY <1>1, <1>2 DEF Goto, Saving
<1>3. CASE Stop(p)
  BY <1>1, <1>3, NoTokensType DEF Stop, Goto, Saving
<1> QED
  BY <1>2, <1>3 DEF Saved

\* The end of a save, failed or not, or of the process.
LEMMA SaveEnds ==
    ASSUME StoreInv, NEW p \in Procs, Saving(p), Saved(p) \/ Stop(p),
           file' \in Contents, tmp' \in Contents,
           file'.tokens.access <= serial, file'.tokens.refresh <= serial,
           tmp'.tokens.access <= serial, tmp'.tokens.refresh <= serial,
           fd' \in [Procs -> {"none", "tmp", "file", "gone"}],
           \A q \in Procs : fd'[q] # "none" <=> pc'[q] = "write",
           mishap' \in BOOLEAN, ~mishap' => ~mishap,
           ~overlap => file'.state = "ok",
           (~mishap' /\ ~overlap) => file'.tokens.refresh = mem[p].refresh,
           UNCHANGED <<starts, serverVars, overlap, spender>>
    PROVE  StoreInv'
<1>1. /\ pc' \in [Procs -> Labels] /\ mem' \in [Procs -> Tokens]
      /\ kind' \in [Procs -> {"mcp", "login"}]
      /\ refused' \in [Procs -> 0..MaxSerial]
      /\ \A q \in Procs : q # p => /\ pc'[q] = pc[q] /\ mem'[q] = mem[q]
                                   /\ refused'[q] = refused[q]
      /\ pc'[p] \in {"send", "down"}
      /\ mem'[p] = IF pc'[p] = "send" THEN mem[p] ELSE NoTokens
      /\ refused'[p] = IF pc'[p] = "send" THEN refused[p] ELSE 0
      /\ \A q \in Procs : Saving(q)' <=> q # p /\ Saving(q)
  BY SavedEffect
<1>2. TypeOK'
  BY <1>1 DEF StoreInv, TypeOK, At, Labels, serverVars
<1>3. serial \in Nat /\ \A q \in Procs : mem[q] \in Tokens
  BY DEF StoreInv, TypeOK
<1>4. SerialInv'
  <2>1. \A q \in Procs : /\ mem'[q].access <= serial' /\ mem'[q].refresh <= serial'
                         /\ refused'[q] <= serial'
    BY <1>1, <1>3, NoTokensType DEF StoreInv, SerialInv, serverVars
  <2> QED
    BY <2>1 DEF StoreInv, SerialInv, serverVars
<1>5. RetryInv'
  BY <1>1, NoTokensType DEF StoreInv, RetryInv, Saving
<1>6. ~overlap => \A q \in Procs : ~Saving(q)' /\ pc'[q] \notin {"write", "rename"}
  BY <1>1 DEF StoreInv, SoloInv, Saving
<1>7. SoloInv'
  BY <1>6 DEF SoloInv
<1>8. LiveInv'
  <2>1. SUFFICES ASSUME ~mishap', ~overlap PROVE LiveInv'
    BY DEF LiveInv
  <2>2. file'.tokens.refresh \in grants \cup {0}
    BY <2>1 DEF StoreInv, LiveInv
  <2>3. \A q \in Procs : mem'[q].refresh # 0 => q \notin spender[mem'[q].refresh]
    BY <1>1, <2>1, NoTokensType DEF StoreInv, LiveInv
  <2> QED
    BY <1>6, <2>1, <2>2, <2>3 DEF LiveInv, serverVars
<1> QED
  BY <1>2, <1>4, <1>5, <1>7, <1>8 DEF StoreInv

\* Where what is unsaved is a mishap, the file's grant is the process's own.
LEMMA SaveGivenUp ==
    ASSUME StoreInv, NEW p \in Procs, Saving(p), Saved(p) \/ Stop(p),
           UNCHANGED <<fileVars, starts, serverVars, overlap, spender>>,
           mishap' = (mishap \/ Unsaved(p)),
           fd' = [fd EXCEPT ![p] = "none"]
    PROVE  StoreInv'
<1>1. \A q \in Procs : fd'[q] # "none" <=> pc'[q] = "write"
  BY SavedEffect DEF StoreInv, TypeOK, At
<1>2. /\ file' \in Contents /\ tmp' \in Contents
      /\ file'.tokens.access <= serial /\ file'.tokens.refresh <= serial
      /\ tmp'.tokens.access <= serial /\ tmp'.tokens.refresh <= serial
      /\ fd' \in [Procs -> {"none", "tmp", "file", "gone"}]
      /\ mishap' \in BOOLEAN /\ (~mishap' => ~mishap)
  BY DEF StoreInv, TypeOK, SerialInv, fileVars
<1>3. /\ ~overlap => file'.state = "ok"
      /\ ~mishap' => file'.tokens.refresh = mem[p].refresh
  BY DEF StoreInv, SoloInv, Unsaved, fileVars
<1> QED
  BY <1>1, <1>2, <1>3, SaveEnds

LEMMA CrashStep ==
    ASSUME StoreInv, NEW p \in Procs, Crash(p)
    PROVE  StoreInv'
<1>1. CASE Saving(p)
  BY <1>1, SaveGivenUp DEF Crash
<1>2. CASE ~Saving(p)
  <2>1. fd \in [Procs -> {"none", "tmp", "file", "gone"}] /\ fd[p] = "none"
    BY <1>2 DEF StoreInv, TypeOK, At, Saving
  <2>2. /\ fd' = fd /\ mishap' = mishap /\ starts' \in 0..MaxStarts
        /\ kind' = [kind EXCEPT ![p] = "mcp"] /\ pc' = [pc EXCEPT ![p] = "down"]
        /\ mem' = [mem EXCEPT ![p] = NoTokens]
        /\ refused' = [refused EXCEPT ![p] = 0]
        /\ UNCHANGED <<fileVars, serverVars, history>>
    BY <1>2, <2>1 DEF Crash, Stop, Goto, StoreInv, TypeOK, history
  <2>3. "down" \in Labels /\ 0 \in 0..MaxSerial /\ 0 <= serial
    BY TokenAssumption DEF Labels, StoreInv, TypeOK
  <2> QED
    BY <1>2, <2>2, <2>3, NoTokensType, OneProcessStep
<1> QED
  BY <1>1, <1>2

LEMMA OpenStep ==
    ASSUME StoreInv, NEW p \in Procs, OpenTmp(p)
    PROVE  StoreInv'
<1>1. /\ \A q \in Procs : /\ pc'[q] = IF q = p THEN "write" ELSE pc[q]
                          /\ fd'[q] = IF q = p THEN "tmp" ELSE fd[q]
      /\ pc' \in [Procs -> Labels] /\ fd' \in [Procs -> {"none", "tmp", "file", "gone"}]
      /\ tmp' = Empty /\ file' = file /\ Saving(p)
      /\ UNCHANGED <<kind, mem, starts, refused, serverVars, history>>
  BY DEF OpenTmp, Truncate, Goto, At, StoreInv, TypeOK, Labels, Saving
<1>2. \A q \in Procs : Saving(q)' <=> Saving(q)
  BY <1>1 DEF Saving
<1>3. tmp' \in Contents /\ tmp'.state = "empty"
      /\ tmp'.tokens.access = 0 /\ tmp'.tokens.refresh = 0
  BY <1>1, ContentsTypes, NoTokensType
<1>4. TypeOK'
  BY <1>1, <1>3 DEF StoreInv, TypeOK, At, Labels, serverVars, history
<1>5. SerialInv'
  <2>1. 0 <= serial
    BY DEF StoreInv, TypeOK
  <2> QED
    BY <1>1, <1>3, <2>1 DEF StoreInv, SerialInv, serverVars, history
<1>6. RetryInv'
  BY <1>1 DEF StoreInv, RetryInv
<1>7. SoloInv'
  <2>1. SUFFICES ASSUME ~overlap PROVE SoloInv'
    BY <1>1 DEF SoloInv, history
  <2>2. \A q \in Procs : q # p => pc'[q] \notin {"write", "rename"}
    BY <1>1, <2>1 DEF StoreInv, SoloInv, Saving
  <2> QED
    BY <1>1, <1>2, <1>3, <2>1, <2>2 DEF StoreInv, SoloInv
<1>8. LiveInv'
  BY <1>1, <1>2 DEF StoreInv, LiveInv, serverVars, history
<1> QED
  BY <1>4, <1>5, <1>6, <1>7, <1>8 DEF StoreInv

\* What a write may leave behind is a file's contents, of the writer's tokens
\* or of none.
LEMMA WrittenContents ==
    ASSUME NEW old \in Contents, NEW t \in Tokens, NEW c \in Written(old, t)
    PROVE  /\ c \in Contents /\ c.tokens \in {t, NoTokens}
           /\ old.state = "empty" => c.state = "ok" /\ c.tokens = t
BY ContentsTypes DEF Written

LEMMA WriteStep ==
    ASSUME StoreInv, NEW p \in Procs, WriteTmp(p)
    PROVE  StoreInv'
<1>1. /\ \A q \in Procs : /\ pc'[q] = IF q = p THEN "rename" ELSE pc[q]
                          /\ fd'[q] = IF q = p THEN "none" ELSE fd[q]
      /\ pc' \in [Procs -> Labels] /\ fd' \in [Procs -> {"none", "tmp", "file", "gone"}]
      /\ Saving(p) /\ pc[p] = "write"
      /\ UNCHANGED <<kind, mem, starts, refused, serverVars, history>>
  BY DEF WriteTmp, Close, Goto, At, StoreInv, TypeOK, Labels, Saving
<1>2. \A q \in Procs : Saving(q)' <=> Saving(q)
  BY <1>1 DEF Saving
<1>3. /\ file \in Contents /\ tmp \in Contents /\ mem[p] \in Tokens
      /\ serial \in Nat /\ 0 <= serial
      /\ mem[p].access <= serial /\ mem[p].refresh <= serial
  BY DEF StoreInv, TypeOK, SerialInv
<1>4. /\ tmp' = tmp \/ tmp' \in Written(tmp, mem[p])
      /\ file' = file \/ file' \in Written(file, mem[p])
  BY DEF WriteTmp, fileVars
<1>5. /\ tmp' \in Contents /\ file' \in Contents
      /\ tmp' = tmp \/ tmp'.tokens \in {mem[p], NoTokens}
      /\ file' = file \/ file'.tokens \in {mem[p], NoTokens}
  BY <1>3, <1>4, WrittenContents
<1>6. TypeOK'
  BY <1>1, <1>5 DEF StoreInv, TypeOK, At, Labels, serverVars, history
<1>7. SerialInv'
  <2>1. /\ file'.tokens.access <= serial /\ file'.tokens.refresh <= serial
        /\ tmp'.tokens.access <= serial /\ tmp'.tokens.refresh <= serial
    BY <1>3, <1>5, NoTokensType DEF StoreInv, SerialInv
  <2> QED
    BY <1>1, <2>1 DEF StoreInv, SerialInv, serverVars, history
<1>8. RetryInv'
  BY <1>1 DEF StoreInv, RetryInv
<1>9. ~overlap => /\ tmp'.state = "ok" /\ tmp'.tokens = mem[p] /\ file' = file
                  /\ \A q \in Procs : q # p => ~Saving(q)
  <2>1. SUFFICES ASSUME ~overlap
                 PROVE  /\ tmp'.state = "ok" /\ tmp'.tokens = mem[p]
                        /\ file' = file /\ \A q \in Procs : q # p => ~Saving(q)
    OBVIOUS
  <2>2. /\ fd[p] = "tmp" /\ tmp.state = "empty"
        /\ \A q \in Procs : q # p => ~Saving(q)
    BY <1>1, <2>1 DEF StoreInv, SoloInv
  <2>3. tmp' \in Written(tmp, mem[p]) /\ file' = file
    BY <2>2 DEF WriteTmp
  <2> QED
    BY <1>3, <2>2, <2>3, WrittenContents
<1>10. SoloInv'
  <2>1. SUFFICES ASSUME ~overlap PROVE SoloInv'
    BY <1>1 DEF SoloInv, history
  <2>2. \A q \in Procs : q # p => pc'[q] \notin {"write", "rename"}
    BY <1>1, <1>9, <2>1 DEF Saving
  <2> QED
    BY <1>1, <1>2, <1>9, <2>1, <2>2 DEF StoreInv, SoloInv
<1>11. LiveInv'
  BY <1>1, <1>2, <1>9 DEF StoreInv, LiveInv, serverVars, history
<1> QED
  BY <1>6, <1>7, <1>8, <1>10, <1>11 DEF StoreInv

LEMMA RenameStep ==
    ASSUME StoreInv, NEW p \in Procs, Rename(p)
    PROVE  StoreInv'
<1>1. /\ Saving(p) /\ Saved(p) /\ pc[p] = "rename"
      /\ UNCHANGED <<starts, serverVars, overlap, spender>>
  BY DEF Rename, At, Saving
<1>2. /\ file \in Contents /\ tmp \in Contents /\ mishap \in BOOLEAN
      /\ fd \in [Procs -> {"none", "tmp", "file", "gone"}]
      /\ \A q \in Procs : fd[q] # "none" <=> pc[q] = "write"
  BY DEF StoreInv, TypeOK, At
<1>3. \A q \in Procs : pc'[q] = "write" <=> pc[q] = "write"
  BY <1>1, SavedEffect
<1>4. CASE tmp.state # "absent"
  <2>1. /\ file' = tmp /\ tmp' = Absent /\ mishap' = mishap
        /\ fd' = [q \in Procs |-> AfterRename(fd[q])]
    BY <1>4 DEF Rename
  <2>2. /\ fd' \in [Procs -> {"none", "tmp", "file", "gone"}]
        /\ \A q \in Procs : fd'[q] # "none" <=> pc'[q] = "write"
    BY <1>2, <1>3, <2>1 DEF AfterRename
  <2>3. /\ tmp' \in Contents /\ tmp'.tokens.access <= serial
        /\ tmp'.tokens.refresh <= serial
    BY <2>1, ContentsTypes, NoTokensType DEF StoreInv, TypeOK
  <2>4. /\ file'.tokens.access <= serial /\ file'.tokens.refresh <= serial
    BY <2>1 DEF StoreInv, SerialInv
  <2>5. ~overlap => /\ file'.state = "ok"
                    /\ file'.tokens.refresh = mem[p].refresh
    BY <1>1, <2>1 DEF StoreInv, SoloInv
  <2> QED
    BY <1>1, <1>2, <2>1, <2>2, <2>3, <2>4, <2>5, SaveEnds
<1>5. CASE tmp.state = "absent"
  <2>1. /\ file' = file /\ tmp' = tmp /\ fd' = fd
        /\ mishap' = (mishap \/ Unsaved(p))
    BY <1>5 DEF Rename, fileVars
  <2>2. fd' = [fd EXCEPT ![p] = "none"]
    BY <1>1, <1>2, <2>1
  <2>3. UNCHANGED <<fileVars, starts, serverVars, overlap, spender>>
    BY <1>1, <2>1 DEF fileVars
  <2> QED
    BY <1>1, <2>1, <2>2, <2>3, SaveGivenUp
<1> QED
  BY <1>4, <1>5

LEMMA SaveFailedStep ==
    ASSUME StoreInv, NEW p \in Procs, SaveFailed(p)
    PROVE  StoreInv'
BY SaveGivenUp DEF SaveFailed

LEMMA RevokeStep ==
    ASSUME StoreInv, NEW a \in accesses, Revoke(a)
    PROVE  StoreInv'
<1>1. /\ UNCHANGED <<procVars, fileVars, serial, grants, history>>
      /\ accesses' \subseteq accesses
  BY DEF Revoke
<1> QED
  BY <1>1 DEF StoreInv, TypeOK, SerialInv, RetryInv, SoloInv, LiveInv, Saving, At,
              procVars, fileVars, history

-----------------------------------------------------------------------------
LEMMA InitInv == Init => StoreInv
<1> SUFFICES ASSUME Init PROVE StoreInv
  OBVIOUS
<1>1. PICK r \in {0, 1} :
        LET t == [access |-> 1, refresh |-> r,
                  expiry |-> IF r = 0 THEN "none" ELSE "later"]
        IN  file = Holding(t) /\ grants = {r} \ {0}
  BY DEF Init
<1> DEFINE t == [access |-> 1, refresh |-> r,
                 expiry |-> IF r = 0 THEN "none" ELSE "later"]
<1>2. t \in Tokens /\ t.access = 1 /\ t.refresh = r
  BY TokenAssumption DEF Tokens
<1>3. file \in Contents /\ file.state = "ok" /\ file.tokens = t
  BY <1>1, <1>2, ContentsTypes
<1>4. /\ tmp \in Contents /\ tmp.tokens.access = 0 /\ tmp.tokens.refresh = 0
  BY ContentsTypes, NoTokensType DEF Init
<1>5. /\ \A q \in Procs : pc[q] = "down" /\ mem[q] = NoTokens /\ refused[q] = 0
                          /\ fd[q] = "none" /\ ~Saving(q)
      /\ serial = 1 /\ \A x \in 1..MaxSerial : spender[x] = {}
      /\ grants \subseteq {1} /\ 1 \in 1..MaxSerial
      /\ file.tokens.refresh \in grants \cup {0}
  BY <1>1, <1>2, <1>3, TokenAssumption DEF Init, Saving
<1>6. TypeOK
  <2>1. /\ kind \in [Procs -> {"mcp", "login"}] /\ pc \in [Procs -> Labels]
        /\ mem \in [Procs -> Tokens] /\ refused \in [Procs -> 0..MaxSerial]
        /\ fd \in [Procs -> {"none", "tmp", "file", "gone"}]
        /\ spender \in [1..MaxSerial -> SUBSET Procs]
    BY NoTokensType, TokenAssumption DEF Init, Labels
  <2>2. /\ starts \in 0..MaxStarts /\ serial \in 1..MaxSerial
        /\ accesses \subseteq 1..MaxSerial /\ grants \subseteq 1..MaxSerial
        /\ mishap \in BOOLEAN /\ overlap \in BOOLEAN
    <3>1. 0 \in 0..MaxStarts /\ {1} \subseteq 1..MaxSerial
      BY TokenAssumption
    <3> QED
      BY <1>5, <3>1 DEF Init
  <2> QED
    BY <1>3, <1>4, <1>5, <2>1, <2>2 DEF TypeOK, At, Labels
<1>7. SerialInv
  BY <1>2, <1>3, <1>4, <1>5, NoTokensType DEF SerialInv
<1>8. RetryInv
  BY <1>5, NoTokensType DEF RetryInv
<1>9. SoloInv
  BY <1>3, <1>5 DEF SoloInv
<1>10. LiveInv
  BY <1>5, NoTokensType DEF LiveInv
<1> QED
  BY <1>6, <1>7, <1>8, <1>9, <1>10 DEF StoreInv

LEMMA NextInv == StoreInv /\ [Next]_vars => StoreInv'
<1> SUFFICES ASSUME StoreInv, [Next]_vars PROVE StoreInv'
  OBVIOUS
<1>1. CASE UNCHANGED vars
  BY <1>1 DEF StoreInv, TypeOK, SerialInv, RetryInv, SoloInv, LiveInv, Saving, At,
              vars, procVars, fileVars, serverVars, history
<1>2. CASE \E a \in accesses : Revoke(a)
  BY <1>2, RevokeStep
<1>3. ASSUME NEW p \in Procs,
             \/ Start(p) \/ StartLogin(p) \/ Request(p) \/ Token(p)
             \/ RefreshGranted(p) \/ RefreshLost(p) \/ RefreshFailed(p)
             \/ Exchange(p) \/ ExchangeFailed(p) \/ SaveStep(p)
             \/ Accepted(p) \/ Refused(p) \/ Age(p) \/ Crash(p)
      PROVE  StoreInv'
  BY <1>3, StartStep, LocalSteps, GrantSteps, LostStep, OpenStep, WriteStep,
     RenameStep, SaveFailedStep, CrashStep DEF SaveStep
<1> QED
  BY <1>1, <1>2, <1>3 DEF Next, Terminated

LEMMA SpecInv == Spec => []StoreInv
BY InitInv, NextInv, PTL DEF Spec

-----------------------------------------------------------------------------
\* Type correctness, and a file open exactly as long as its process writes it.
THEOREM TypesHold == Spec => []TypeOK
<1>1. StoreInv => TypeOK
  BY DEF StoreInv
<1> QED
  BY <1>1, SpecInv, PTL

\* SaveTokens is atomic for any number of processes, of which only one at a
\* time has something to save, whoever dies at whichever step.
THEOREM SoloSavesAreAtomic == Spec => []SoloSaveIsAtomic
<1>1. StoreInv => SoloSaveIsAtomic
  BY DEF StoreInv, SoloInv, SoloSaveIsAtomic, SaveIsAtomic
<1> QED
  BY <1>1, SpecInv, PTL

\* Between saves tokens.json holds a grant that the server still takes, unless
\* a rotation went unstored.
THEOREM StoredGrantsLive == Spec => []StoredGrantLives
<1>1. StoreInv => StoredGrantLives
  BY DEF StoreInv, LiveInv, StoredGrantLives
<1> QED
  BY <1>1, SpecInv, PTL

\* No process keeps a refresh token that it had rotated itself.
THEOREM OwnGrantIsKept == Spec => []NeverSpendsItsOwn
<1>1. StoreInv => NeverSpendsItsOwn
  BY DEF StoreInv, LiveInv, NeverSpendsItsOwn
<1> QED
  BY <1>1, SpecInv, PTL

\* The retry after a 401 never sends the token that was refused.
THEOREM RefusedTokenIsGone == Spec => []NeverResends
<1>1. StoreInv => NeverResends
  BY DEF StoreInv, RetryInv, NeverResends
<1> QED
  BY <1>1, SpecInv, PTL

\* No step but the end of the process takes its refresh token away.
LEMMA NextKeepsRefreshToken ==
    ASSUME StoreInv, [Next]_vars, NEW p \in Procs,
           ~At(p, "down"), ~At(p, "down")', mem[p].refresh # 0
    PROVE  mem'[p].refresh # 0
<1>1. /\ mem \in [Procs -> Tokens] /\ mem[p] \in Tokens
      /\ \A q \in Procs : pc[q] = "exchange" => mem[q].refresh = 0
      /\ pc \in [Procs -> Labels]
  BY DEF StoreInv, TypeOK, RetryInv, Labels
<1>2. CASE UNCHANGED mem
  BY <1>2
<1>3. ASSUME NEW q \in Procs, NEW m, mem' = [mem EXCEPT ![q] = m],
             q = p => m.refresh # 0
      PROVE  mem'[p].refresh # 0
  BY <1>1, <1>3
<1>4. ASSUME NEW q \in Procs, Stop(q) PROVE mem'[p].refresh # 0
  <2>1. q # p
    BY <1>1, <1>4 DEF Stop, Goto, At
  <2> QED
    BY <1>1, <1>4, <2>1 DEF Stop
<1>5. ASSUME NEW q \in Procs, Start(q) \/ StartLogin(q)
      PROVE  mem'[p].refresh # 0
  <2>1. q # p
    BY <1>5 DEF Start, StartLogin, At
  <2> QED
    BY <1>1, <1>5, <2>1 DEF Start, StartLogin
<1>6. ASSUME NEW q \in Procs, RefreshGranted(q) PROVE mem'[p].refresh # 0
  <2>1. PICK names, expiresIn \in BOOLEAN :
           mem' = [mem EXCEPT ![q] =
                      KeepRefresh(ParsedTokens(names, expiresIn), mem[q])]
    BY <1>6 DEF RefreshGranted
  <2>2. KeepRefresh(ParsedTokens(names, expiresIn), mem[q]).refresh =
            IF names THEN serial + 1 ELSE mem[q].refresh
    <3>1. TypeOK /\ serial < MaxSerial /\ mem[q] \in Tokens
      BY <1>1, <1>6 DEF StoreInv, RefreshGranted, Grant
    <3> QED
      BY <3>1, GrantedTokens
  <2>3. serial + 1 # 0
    BY DEF StoreInv, TypeOK
  <2> QED
    BY <1>1, <1>3, <2>1, <2>2, <2>3
<1>7. ASSUME NEW q \in Procs, Exchange(q) PROVE mem'[p].refresh # 0
  <2>1. q # p
    BY <1>1, <1>7 DEF Exchange, At
  <2> QED
    BY <1>1, <1>7, <2>1 DEF Exchange
<1>8. ASSUME NEW q \in Procs, Refused(q) PROVE mem'[p].refresh # 0
  <2>1. CASE mem' = [mem EXCEPT ![q] = Invalidated(mem[q])]
    <3>1. Invalidated(mem[q]).refresh = mem[q].refresh
      BY <1>1 DEF Invalidated, Tokens
    <3> QED
      BY <1>3, <2>1, <3>1
  <2> QED
    BY <1>2, <1>8, <2>1 DEF Refused
<1>9. ASSUME NEW q \in Procs, Age(q) PROVE mem'[p].refresh # 0
  BY <1>1, <1>9 DEF Age, Tokens
<1>10. ASSUME NEW q \in Procs, SaveStep(q) PROVE mem'[p].refresh # 0
  BY <1>2, <1>4, <1>10
     DEF SaveStep, OpenTmp, WriteTmp, Rename, SaveFailed, Saved
<1>11. ASSUME NEW q \in Procs,
              \/ Request(q) \/ Token(q) \/ RefreshLost(q) \/ RefreshFailed(q)
              \/ Accepted(q)
       PROVE  mem'[p].refresh # 0
  BY <1>2, <1>11 DEF Request, Token, RefreshLost, RefreshFailed, Accepted
<1>12. ASSUME NEW q \in Procs, ExchangeFailed(q) \/ Crash(q)
       PROVE  mem'[p].refresh # 0
  BY <1>4, <1>12 DEF ExchangeFailed, Crash
<1>13. CASE UNCHANGED vars \/ \E a \in accesses : Revoke(a)
  BY <1>2, <1>13 DEF vars, procVars, Revoke
<1> QED
  BY <1>5, <1>6, <1>7, <1>8, <1>9, <1>10, <1>11, <1>12, <1>13 DEF Next, Terminated

\* A process that can renew its token keeps that ability until it ends, whatever
\* the provider leaves out of its answers.
THEOREM RenewalIsKept == Spec => KeepsRefreshToken
<1>1. StoreInv /\ [Next]_vars =>
        [\A p \in Procs :
            (~At(p, "down") /\ ~At(p, "down")' /\ mem[p].refresh # 0) =>
                mem'[p].refresh # 0]_vars
  BY NextKeepsRefreshToken
<1> QED
  BY <1>1, SpecInv, PTL DEF Spec, KeepsRefreshToken

=============================================================================
