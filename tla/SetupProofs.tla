---------------------------- MODULE SetupProofs ----------------------------
(***************************************************************************)
(* Theorems about Setup, for any set of wizards, commands and paths, and   *)
(* any number of edits by the operator.                                    *)
(*                                                                         *)
(* Of the wizards: a file is a wizard's own from its truncation on, until  *)
(* another hand is at it, which `shared` records.  Of the commands: tokens *)
(* are in a state directory because a login put them there that is done    *)
(* and will not change its mind.                                           *)
(***************************************************************************)
EXTENDS Setup, TLAPS

File == [body : {"absent", "empty", "whole", "trailing"},
         by : Wizards \cup {NoOne}, valid : BOOLEAN, private : BOOLEAN]

Asking == {"id", "secret", "port", "write"}
Writing == {"fill", "load", "decode"}

\* What TypeOK needs to be inductive: a wizard has a path while it asks and
\* writes, a command has a workspace once it has loaded a configuration, only
\* logins log in, and what holds a configuration was written by a wizard.
RegistersOK ==
    /\ \A w \in Wizards : step[w] \in Asking \cup Writing => target[w] \in Places
    /\ \A c \in Commands : pc[c] \in {"login", "mcp"} => ws[c] # NoOne
    /\ \A c \in Commands : pc[c] = "login" => c \in Logins
    /\ \A p \in Places : disk[p].body \in {"whole", "trailing"} => disk[p].by # NoOne
    /\ seen \in [Wizards -> File]

TypeInv == TypeOK /\ RegistersOK

\* The file a wizard writes is there and, once filled, its own, unless others
\* touched it.
Keeps(w) ==
    step[w] \in Writing =>
        \/ shared[w]
        \/ /\ IsThere(target[w])
           /\ step[w] # "fill" => disk[target[w]].by = w

\* A file at the path of a wizard that still asks came to be after its lookup.
Expects(w) == step[w] \in Asking /\ IsThere(target[w]) => appeared[w]

\* What ReportsWhatItWrote says of one wizard.
Reports(w) ==
    step[w] = "ok" => /\ seen[w].body = "whole" /\ seen[w].valid
                      /\ seen[w].by = w \/ shared[w]

WizardInv == \A w \in Wizards : Keeps(w) /\ Expects(w) /\ Reports(w)

\* Tokens are where a login left them.
LoggedIn(d, t) == \E b \in Logins : pc[b] = "ok" /\ ws[b] = t /\ conf[b].dir = d

GrantInv ==
    /\ \A d \in Dirs : tokens[d] # NoOne => LoggedIn(d, tokens[d])
    /\ \A c \in Commands : grant[c] # NoOne =>
          pc[c] = "ok" /\ LoggedIn(conf[c].dir, grant[c])

SetupInv == TypeInv /\ WizardInv /\ GrantInv

-----------------------------------------------------------------------------
(* Files and steps *)

LEMMA PathFacts ==
    /\ NoOne \notin Wizards
    /\ \A p \in Places : p.dir \in Dirs
    /\ Nowhere \notin Places
    /\ Absent \in File
<1>1. \A d \in Dirs, e \in Exts : Path(d, e).dir = d /\ d # ""
  BY DEF Path, Dirs
<1>2. Nowhere.dir = ""
  BY DEF Nowhere, Path
<1>3. \A p \in Places : p.dir \in Dirs /\ p.dir # ""
  <2> TAKE p \in Places
  <2>1. \E d \in Dirs, e \in Exts : p = Path(d, e)
    BY SetupAssumption
  <2> QED
    BY <1>1, <2>1
<1>4. Absent \in File
  BY DEF Absent, File
<1>5. Nowhere \notin Places
  BY <1>2, <1>3
<1>6. NoOne \notin Wizards
  BY SetupAssumption
<1> QED
  BY <1>3, <1>4, <1>5, <1>6

LEMMA PutsMoves ==
    ASSUME TypeOK, NEW w, NEW p \in Places, NEW f \in File, Puts(w, p, f)
    PROVE  /\ disk' \in [Places -> File]
           /\ \A q \in Places : disk'[q] = IF q = p THEN f ELSE disk[q]
           /\ appeared' \in [Wizards -> BOOLEAN]
           /\ \A v \in Wizards :
                 appeared'[v] <=> \/ appeared[v]
                                  \/ v # w /\ target[v] = p /\ ~IsThere(p)
           /\ shared' \in [Wizards -> BOOLEAN]
           /\ \A v \in Wizards :
                 shared'[v] <=> \/ shared[v]
                                \/ v # w /\ target[v] = p /\ step[v] \in Writing
BY DEF Puts, TypeOK, File, Writing

\* Another hand at the path of a wizard is recorded.
LEMMA OthersPut ==
    ASSUME TypeInv, WizardInv, NEW w, NEW p \in Places, NEW f \in File,
           Puts(w, p, f), NEW v \in Wizards, v # w,
           step'[v] = step[v], target'[v] = target[v], seen'[v] = seen[v]
    PROVE  Keeps(v)' /\ Expects(v)' /\ Reports(v)'
<1>0. TypeOK /\ Keeps(v) /\ Expects(v) /\ Reports(v)
  BY DEF TypeInv, WizardInv
<1>1. /\ \A q \in Places : disk'[q] = IF q = p THEN f ELSE disk[q]
      /\ appeared'[v] <=> appeared[v] \/ (target[v] = p /\ ~IsThere(p))
      /\ shared'[v] <=> shared[v] \/ (target[v] = p /\ step[v] \in Writing)
  BY <1>0, PutsMoves
<1>2. CASE target[v] = p
  BY <1>0, <1>1, <1>2 DEF Keeps, Expects, Reports, IsThere
<1>3. CASE target[v] # p
  BY <1>0, <1>1, <1>3 DEF Keeps, Expects, Reports, IsThere
<1> QED
  BY <1>2, <1>3

\* What is not touched stays as it is.
LEMMA Untouched ==
    ASSUME WizardInv, NEW v \in Wizards, UNCHANGED <<disk, appeared, shared>>,
           step'[v] = step[v], target'[v] = target[v], seen'[v] = seen[v]
    PROVE  Keeps(v)' /\ Expects(v)' /\ Reports(v)'
BY DEF WizardInv, Keeps, Expects, Reports, IsThere

LEMMA MovesWizard ==
    ASSUME TypeOK, NEW w \in Wizards, NEW s, Moves(w, s)
    PROVE  /\ step'[w] = s
           /\ \A v \in Wizards : v # w => step'[v] = step[v]
BY DEF Moves, TypeOK

LEMMA ExitsWizard ==
    ASSUME TypeOK, NEW w \in Wizards, NEW s, Exits(w, s)
    PROVE  /\ step'[w] = s /\ Moves(w, s)
           /\ \A v \in Wizards : v # w => step'[v] = step[v] /\ target'[v] = target[v]
           /\ target' \in [Wizards -> Places \cup {Nowhere}]
           /\ valid' \in [Wizards -> BOOLEAN]
BY DEF Exits, Moves, TypeOK

LEMMA FailsCommand ==
    ASSUME TypeOK, NEW c \in Commands, Fails(c)
    PROVE  /\ pc' = [pc EXCEPT ![c] = "failed"]
           /\ conf' \in [Commands -> Places \cup {Nowhere}]
           /\ ws' \in [Commands -> Wizards \cup {NoOne}]
           /\ \A b \in Commands : b # c => conf'[b] = conf[b] /\ ws'[b] = ws[b]
BY DEF Fails, Goes, TypeOK

-----------------------------------------------------------------------------
(* Types *)

LEMMA SetupInit == Init => SetupInv
<1> SUFFICES ASSUME Init PROVE SetupInv
  OBVIOUS
<1>1. TypeOK
  <2>1. 0 \in 0..MaxEdits
    BY SetupAssumption
  <2>2. disk \in [Places -> File]
    BY PathFacts DEF Init
  <2> QED
    BY <2>1, <2>2 DEF Init, TypeOK, File
<1>2. RegistersOK
  BY PathFacts DEF Init, RegistersOK, Asking, Writing, Absent
<1>3. WizardInv
  BY DEF Init, WizardInv, Keeps, Expects, Reports, Asking, Writing
<1>4. GrantInv
  BY DEF Init, GrantInv
<1> QED
  BY <1>1, <1>2, <1>3, <1>4 DEF SetupInv, TypeInv

WizardStep(w) == \/ AskPath(w) \/ AskId(w) \/ AskSecret(w) \/ AskPort(w)
                 \/ Truncate(w) \/ Fill(w) \/ LookBack(w) \/ ReadBack(w)

CommandStep(c) == \/ Start(c) \/ Resolve(c) \/ LoadLook(c) \/ LoadDecode(c)
                  \/ Login(c) \/ Serve(c)

OperatorStep == \/ \E p \in Places : Removes(p) \/ Chmods(p)
                \/ \E p, q \in Places : Copies(p, q)

LEMMA NextSteps ==
    ASSUME [Next]_vars
    PROVE  \/ \E w \in Wizards : WizardStep(w)
           \/ \E c \in Commands : CommandStep(c)
           \/ OperatorStep
           \/ UNCHANGED vars
BY DEF Next, Terminated, WizardStep, CommandStep, OperatorStep

\* What the operator does: one file becomes another, of a wizard's or none.
LEMMA OperatorPuts ==
    ASSUME TypeInv, OperatorStep
    PROVE  /\ \E p \in Places, f \in File :
                 /\ Puts(NoOne, p, f)
                 /\ f.body \in {"whole", "trailing"} => f.by # NoOne
           /\ edits' \in 0..MaxEdits
           /\ UNCHANGED <<step, target, valid, seen, command, tokens>>
<1>0. \A p \in Places :
         disk[p] \in File
         /\ (disk[p].body \in {"whole", "trailing"} => disk[p].by # NoOne)
  BY DEF File, TypeInv, TypeOK, RegistersOK
<1>1. Edits
  BY DEF OperatorStep, Removes, Chmods, Copies
<1>2. edits' \in 0..MaxEdits
  <2>1. MaxEdits \in Nat
    BY SetupAssumption
  <2>2. edits \in 0..MaxEdits
    BY DEF TypeInv, TypeOK
  <2> QED
    BY <1>1, <2>1, <2>2 DEF Edits
<1>3. UNCHANGED <<step, target, valid, seen, command, tokens>>
  BY <1>1 DEF Edits
<1>4. CASE \E p \in Places : Removes(p)
  <2>1. PICK p \in Places : Puts(NoOne, p, Absent)
    BY <1>4 DEF Removes
  <2>2. Absent \in File /\ Absent.body = "absent"
    BY PathFacts DEF Absent
  <2> QED
    BY <1>2, <1>3, <2>1, <2>2
<1>5. CASE \E p \in Places : Chmods(p)
  <2>1. PICK p \in Places : Puts(NoOne, p, [disk[p] EXCEPT !.private = ~@])
    BY <1>5 DEF Chmods
  <2> DEFINE f == [disk[p] EXCEPT !.private = ~@]
  <2>2. f \in File /\ f.body = disk[p].body /\ f.by = disk[p].by
    BY <1>0 DEF File
  <2>3. Puts(NoOne, p, f)
    BY <2>1
  <2> HIDE DEF f
  <2> QED
    BY <1>0, <1>2, <1>3, <2>2, <2>3
<1>6. CASE \E p, q \in Places : Copies(p, q)
  <2>1. PICK p \in Places, q \in Places :
           Puts(NoOne, q, [disk[p] EXCEPT !.private = FALSE])
    BY <1>6 DEF Copies
  <2> DEFINE f == [disk[p] EXCEPT !.private = FALSE]
  <2>2. f \in File /\ f.body = disk[p].body /\ f.by = disk[p].by
    BY <1>0 DEF File
  <2>3. Puts(NoOne, q, f)
    BY <2>1
  <2> HIDE DEF f
  <2> QED
    BY <1>0, <1>2, <1>3, <2>2, <2>3
<1> QED
  BY <1>4, <1>5, <1>6 DEF OperatorStep

\* Where a step may take a wizard that touches no file ...
Asks(w) ==
    \/ /\ step[w] = "path" /\ step'[w] \in {"id", "for ever"}
       /\ target'[w] \in Places /\ ~IsThere(target'[w])
       /\ UNCHANGED seen
    \/ /\ step'[w] \in {"failed", "for ever"}
       /\ UNCHANGED seen
    \/ /\ step[w] \in Asking /\ step'[w] \in Asking
       /\ target'[w] = target[w] /\ UNCHANGED seen
    \/ /\ step[w] = "load" /\ step'[w] = "decode"
       /\ target'[w] = target[w] /\ UNCHANGED seen
    \/ /\ step[w] = "fill" /\ step'[w] = "load" /\ ~IsThere(target[w])
       /\ target'[w] = target[w] /\ UNCHANGED seen
    \/ /\ step[w] = "decode" /\ step'[w] \in {"ok", "failed"}
       /\ seen'[w] = disk[target[w]]
       /\ step'[w] = "ok" => Decoded(disk[target[w]])

\* ... and one that truncates or fills its own.
Stores(w) ==
    /\ target'[w] = target[w] /\ UNCHANGED seen
    /\ \/ /\ step[w] = "write" /\ step'[w] = "fill"
          /\ \E f \in File : f.body = "empty" /\ Puts(w, target[w], f)
       \/ /\ step[w] = "fill" /\ step'[w] = "load"
          /\ \E f \in File : f.by = w /\ f.body \in {"whole", "trailing"}
                             /\ Puts(w, target[w], f)

LEMMA WizardMoves ==
    ASSUME TypeInv, NEW w \in Wizards, WizardStep(w)
    PROVE  /\ UNCHANGED <<edits, command, tokens>>
           /\ \E s \in {"path", "id", "secret", "port", "for ever", "write",
                        "fill", "load", "decode", "ok", "failed"} : Moves(w, s)
           /\ target' \in [Wizards -> Places \cup {Nowhere}]
           /\ valid' \in [Wizards -> BOOLEAN]
           /\ seen' \in [Wizards -> File]
           /\ \A v \in Wizards : v # w =>
                 target'[v] = target[v] /\ seen'[v] = seen[v]
           /\ \/ Asks(w) /\ UNCHANGED <<disk, appeared, shared>>
              \/ Stores(w)
<1>t. /\ TypeOK /\ RegistersOK
      /\ valid \in [Wizards -> BOOLEAN] /\ seen \in [Wizards -> File]
      /\ target \in [Wizards -> Places \cup {Nowhere}]
      /\ \A p \in Places : disk[p] \in File
  BY DEF TypeInv, TypeOK, RegistersOK, File
<1>1. CASE AskPath(w)
  <2>1. PICK p \in Places, ended \in BOOLEAN :
          \/ /\ ~IsThere(p)
             /\ target' = [target EXCEPT ![w] = p]
             /\ Moves(w, IF ended THEN "for ever" ELSE "id")
          \/ /\ Moves(w, "failed")
             /\ UNCHANGED target
    BY <1>1 DEF AskPath, Accepts
  <2>2. UNCHANGED <<disk, edits, valid, seen, appeared, shared, command, tokens>>
        /\ step[w] = "path"
    BY <1>1 DEF AskPath
  <2>3. CASE /\ ~IsThere(p)
             /\ target' = [target EXCEPT ![w] = p]
             /\ Moves(w, IF ended THEN "for ever" ELSE "id")
    <3>1. step'[w] \in {"for ever", "id"}
      BY <1>t, <2>3, MovesWizard
    <3>2. target'[w] = p /\ disk' = disk
      BY <1>t, <2>2, <2>3
    <3>3. Asks(w)
      BY <2>2, <2>3, <3>1, <3>2 DEF Asks
    <3> QED
      BY <1>t, <2>2, <2>3, <3>3
  <2>4. CASE Moves(w, "failed") /\ UNCHANGED target
    BY <1>t, <2>2, <2>4, MovesWizard DEF Asks
  <2> QED
    BY <2>1, <2>3, <2>4
<1>2. CASE AskId(w) \/ AskSecret(w)
  <2>1. PICK s \in {"secret", "port", "for ever"} : Moves(w, s)
    BY <1>2 DEF AskId, AskSecret
  <2>2. /\ UNCHANGED <<disk, edits, target, seen, appeared, shared, command,
                       tokens>>
        /\ step[w] \in Asking /\ valid' \in [Wizards -> BOOLEAN]
    BY <1>t, <1>2 DEF AskId, AskSecret, Asking
  <2>3. step'[w] = s
    BY <1>t, <2>1, MovesWizard
  <2>4. Asks(w)
    BY <2>2, <2>3 DEF Asks, Asking
  <2> QED
    BY <1>t, <2>1, <2>2, <2>4
<1>3. CASE AskPort(w)
  <2>1. /\ UNCHANGED <<disk, edits, seen, appeared, shared, command, tokens>>
        /\ step[w] = "port"
    BY <1>3 DEF AskPort
  <2>2. CASE Moves(w, "write") /\ UNCHANGED <<target, valid>>
    <3>1. step'[w] = "write"
      BY <1>t, <2>2, MovesWizard
    <3> QED
      BY <1>t, <2>1, <2>2, <3>1 DEF Asks, Asking
  <2>3. CASE Exits(w, "failed")
    BY <1>t, <2>1, <2>3, ExitsWizard DEF Asks
  <2> QED
    BY <1>3, <2>2, <2>3 DEF AskPort
<1>4. CASE Truncate(w)
  <2>1. UNCHANGED <<edits, seen, command, tokens>> /\ step[w] = "write"
        /\ target[w] \in Places
    BY <1>t, <1>4 DEF Truncate, RegistersOK, Asking
  <2>2. CASE /\ Moves(w, "fill") /\ UNCHANGED <<target, valid>>
             /\ Puts(w, target[w], [Absent EXCEPT !.body = "empty",
                                           !.private = disk[target[w]].private])
    <3> DEFINE f == [Absent EXCEPT !.body = "empty",
                                   !.private = disk[target[w]].private]
    <3>1. f \in File /\ f.body = "empty"
      BY <1>t, <2>1, PathFacts DEF File, Absent
    <3>2. Puts(w, target[w], f)
      BY <2>2
    <3> HIDE DEF f
    <3>3. step'[w] = "fill"
      BY <1>t, <2>2, MovesWizard
    <3>4. Stores(w)
      BY <2>1, <2>2, <3>1, <3>2, <3>3 DEF Stores
    <3> QED
      BY <1>t, <2>1, <2>2, <3>4
  <2>3. CASE Exits(w, "failed") /\ UNCHANGED <<disk, appeared, shared>>
    BY <1>t, <2>1, <2>3, ExitsWizard DEF Asks
  <2> QED
    BY <1>4, <2>2, <2>3 DEF Truncate
<1>5. CASE Fill(w)
  <2>1. UNCHANGED <<edits, seen, command, tokens>> /\ step[w] = "fill"
        /\ target[w] \in Places
    BY <1>t, <1>5 DEF Fill, RegistersOK, Writing
  <2>2. CASE /\ Moves(w, "load") /\ UNCHANGED <<target, valid>>
             /\ \E body \in {"whole", "trailing"} :
                   Puts(w, target[w], [body |-> body, by |-> w,
                                       valid |-> valid[w],
                                       private |-> disk[target[w]].private])
    <3>1. PICK body \in {"whole", "trailing"} :
             Puts(w, target[w], [body |-> body, by |-> w, valid |-> valid[w],
                                 private |-> disk[target[w]].private])
      BY <2>2
    <3> DEFINE f == [body |-> body, by |-> w, valid |-> valid[w],
                     private |-> disk[target[w]].private]
    <3>2. f \in File /\ f.by = w /\ f.body = body
      BY <1>t, <2>1 DEF File
    <3>3. Puts(w, target[w], f)
      BY <3>1
    <3> HIDE DEF f
    <3>4. step'[w] = "load"
      BY <1>t, <2>2, MovesWizard
    <3>5. Stores(w)
      BY <2>1, <2>2, <3>2, <3>3, <3>4 DEF Stores
    <3> QED
      BY <1>t, <2>1, <2>2, <3>5
  <2>3. CASE /\ ~IsThere(target[w]) /\ Moves(w, "load")
             /\ UNCHANGED <<disk, target, valid, appeared, shared>>
    <3>1. step'[w] = "load"
      BY <1>t, <2>3, MovesWizard
    <3>2. Asks(w)
      BY <2>1, <2>3, <3>1 DEF Asks
    <3> QED
      BY <1>t, <2>1, <2>3, <3>2
  <2>4. CASE Exits(w, "failed") /\ UNCHANGED <<disk, appeared, shared>>
    BY <1>t, <2>1, <2>4, ExitsWizard DEF Asks
  <2> QED
    BY <1>5, <2>2, <2>3, <2>4 DEF Fill
<1>6. CASE LookBack(w)
  <2>1. /\ UNCHANGED <<disk, edits, seen, appeared, shared, command, tokens>>
        /\ step[w] = "load"
    BY <1>6 DEF LookBack
  <2>2. CASE Moves(w, "decode") /\ UNCHANGED <<target, valid>>
    <3>1. step'[w] = "decode"
      BY <1>t, <2>2, MovesWizard
    <3>2. Asks(w)
      BY <2>1, <2>2, <3>1 DEF Asks
    <3> QED
      BY <1>t, <2>1, <2>2, <3>2
  <2>3. CASE Exits(w, "failed")
    BY <1>t, <2>1, <2>3, ExitsWizard DEF Asks
  <2> QED
    BY <1>6, <2>2, <2>3 DEF LookBack
<1>7. CASE ReadBack(w)
  <2>1. /\ UNCHANGED <<disk, edits, appeared, shared, command, tokens>>
        /\ step[w] = "decode" /\ target[w] \in Places
        /\ seen' = [seen EXCEPT ![w] = disk[target[w]]]
    BY <1>t, <1>7 DEF ReadBack, RegistersOK, Writing
  <2>2. /\ seen' \in [Wizards -> File] /\ seen'[w] = disk[target[w]]
        /\ \A v \in Wizards : v # w => seen'[v] = seen[v]
    BY <1>t, <2>1
  <2>3. Exits(w, IF Decoded(disk[target[w]]) THEN "ok" ELSE "failed")
    BY <1>7, <2>2 DEF ReadBack, RoundTrip
  <2>4. /\ step'[w] \in {"ok", "failed"}
        /\ step'[w] = "ok" => Decoded(disk[target[w]])
        /\ Moves(w, "ok") \/ Moves(w, "failed")
    BY <1>t, <2>3, ExitsWizard
  <2>5. Asks(w)
    BY <2>1, <2>2, <2>4 DEF Asks
  <2> QED
    BY ZenonT(30), <1>t, <2>1, <2>2, <2>3, <2>4, <2>5, ExitsWizard
<1> QED
  BY <1>1, <1>2, <1>3, <1>4, <1>5, <1>6, <1>7 DEF WizardStep

\* What a command does: it alone moves, and a login leaves tokens in the state
\* directory an mcp process takes them from.
LEMMA CommandMoves ==
    ASSUME TypeInv, NEW c \in Commands, CommandStep(c)
    PROVE  /\ UNCHANGED <<disk, edits, wizard>>
           /\ \E s \in {"start", "resolve", "load", "decode", "login", "mcp",
                        "ok", "failed"} : pc' = [pc EXCEPT ![c] = s]
           /\ conf' \in [Commands -> Places \cup {Nowhere}]
           /\ ws' \in [Commands -> Wizards \cup {NoOne}]
           /\ \A b \in Commands : b # c => conf'[b] = conf[b] /\ ws'[b] = ws[b]
           /\ pc'[c] \in {"load", "decode", "login", "mcp", "ok"} =>
                 conf'[c] \in Places
           /\ pc'[c] \in {"login", "mcp", "ok"} => ws'[c] # NoOne
           /\ pc'[c] = "login" => c \in Logins
           /\ pc[c] # "ok"
           /\ \/ UNCHANGED <<tokens, grant>>
              \/ /\ c \in Logins /\ pc'[c] = "ok" /\ conf[c] \in Places
                 /\ tokens' = [tokens EXCEPT ![conf[c].dir] = ws[c]]
                 /\ UNCHANGED <<conf, ws, grant>>
              \/ /\ pc'[c] = "ok" /\ conf[c] \in Places
                 /\ tokens[conf[c].dir] # NoOne
                 /\ grant' = [grant EXCEPT ![c] = tokens[conf[c].dir]]
                 /\ UNCHANGED <<conf, ws, tokens>>
<1>t. /\ TypeOK /\ RegistersOK
      /\ pc \in [Commands -> {"start", "resolve", "load", "decode", "login",
                              "mcp", "ok", "failed"}]
      /\ conf \in [Commands -> Places \cup {Nowhere}]
      /\ ws \in [Commands -> Wizards \cup {NoOne}]
      /\ pc[c] \in {"load", "decode", "login", "mcp"} => conf[c] \in Places
      /\ pc[c] \in {"login", "mcp"} => ws[c] # NoOne
      /\ pc[c] = "login" => c \in Logins
      /\ \A p \in Places : disk[p] \in File
      /\ \A p \in Places : disk[p].body = "whole" => disk[p].by # NoOne
  BY DEF TypeInv, TypeOK, RegistersOK, File
<1>f. ASSUME Fails(c), pc[c] # "ok", UNCHANGED <<disk, edits, wizard, tokens, grant>>
      PROVE  /\ pc' = [pc EXCEPT ![c] = "failed"]
             /\ conf' \in [Commands -> Places \cup {Nowhere}]
             /\ ws' \in [Commands -> Wizards \cup {NoOne}]
             /\ \A b \in Commands : b # c => conf'[b] = conf[b] /\ ws'[b] = ws[b]
             /\ pc'[c] = "failed"
  BY <1>t, <1>f, FailsCommand
<1>1. CASE Start(c)
  <2>1. pc[c] = "start" /\ UNCHANGED <<disk, edits, wizard, ws, tokens, grant>>
    BY <1>1 DEF Start
  <2>2. PICK e \in Exts :
          \/ /\ \E d \in Dirs : /\ Path(d, e) \in Places
                               /\ conf' = [conf EXCEPT ![c] = Path(d, e)]
             /\ Goes(c, "load")
          \/ /\ Goes(c, "resolve")
             /\ UNCHANGED conf
    BY <1>1 DEF Start
  <2>3. CASE /\ \E d \in Dirs : /\ Path(d, e) \in Places
                               /\ conf' = [conf EXCEPT ![c] = Path(d, e)]
             /\ Goes(c, "load")
    <3>1. PICK p \in Places : conf' = [conf EXCEPT ![c] = p]
      BY <2>3
    <3> QED
      BY <1>t, <2>1, <2>3, <3>1 DEF Goes
  <2>4. CASE Goes(c, "resolve") /\ UNCHANGED conf
    BY <1>t, <2>1, <2>4 DEF Goes
  <2> QED
    BY <2>2, <2>3, <2>4
<1>2. CASE Resolve(c)
  <2>1. pc[c] = "resolve" /\ UNCHANGED <<disk, edits, wizard, tokens, grant>>
    BY <1>2 DEF Resolve
  <2>2. CASE Fails(c)
    BY <1>f, <2>1, <2>2
  <2>3. CASE /\ IsThere(Head(tries[c]))
             /\ conf' = [conf EXCEPT ![c] = Head(tries[c])]
             /\ Goes(c, "load") /\ UNCHANGED ws
    <3>1. PICK p \in Places : conf' = [conf EXCEPT ![c] = p]
      BY <2>3 DEF IsThere
    <3> QED
      BY <1>t, <2>1, <2>3, <3>1 DEF Goes
  <2>4. CASE UNCHANGED <<pc, conf, ws>>
    BY <1>t, <2>1, <2>4
  <2> QED
    BY <1>2, <2>2, <2>3, <2>4 DEF Resolve
<1>3. CASE LoadLook(c)
  <2>1. pc[c] = "load" /\ UNCHANGED <<disk, edits, wizard, tokens, grant>>
    BY <1>3 DEF LoadLook
  <2>2. CASE Goes(c, "decode") /\ UNCHANGED <<conf, ws>>
    BY <1>t, <2>1, <2>2 DEF Goes
  <2>3. CASE Fails(c)
    BY <1>f, <2>1, <2>3
  <2> QED
    BY <1>3, <2>2, <2>3 DEF LoadLook
<1>4. CASE LoadDecode(c)
  <2>1. pc[c] = "decode" /\ UNCHANGED <<disk, edits, wizard, tokens, grant>>
    BY <1>4 DEF LoadDecode
  <2>2. CASE /\ Decoded(disk[conf[c]])
             /\ ws' = [ws EXCEPT ![c] = disk[conf[c]].by]
             /\ Goes(c, IF c \in Logins THEN "login" ELSE "mcp")
             /\ UNCHANGED conf
    <3>1. PICK w : w = disk[conf[c]].by
      OBVIOUS
    <3>2. w \in Wizards /\ w # NoOne
      BY <1>t, <2>1, <2>2, <3>1 DEF Decoded, File
    <3>3. PICK s : s = IF c \in Logins THEN "login" ELSE "mcp"
      OBVIOUS
    <3>4. ws' = [ws EXCEPT ![c] = w] /\ pc' = [pc EXCEPT ![c] = s]
      BY <2>2, <3>1, <3>3 DEF Goes
    <3>5. /\ ws' \in [Commands -> Wizards \cup {NoOne}] /\ ws'[c] = w
          /\ \A b \in Commands : b # c => ws'[b] = ws[b]
      BY <1>t, <3>2, <3>4
    <3>6. pc'[c] = s
      BY <1>t, <3>4
    <3> QED
      BY <1>t, <2>1, <2>2, <3>2, <3>3, <3>4, <3>5, <3>6
  <2>3. CASE Fails(c)
    BY <1>f, <2>1, <2>3
  <2> QED
    BY <1>4, <2>2, <2>3 DEF LoadDecode
<1>5. CASE Login(c)
  <2>1. pc[c] = "login" /\ UNCHANGED <<disk, edits, wizard, grant>>
    BY <1>5 DEF Login
  <2>2. CASE /\ tokens' = [tokens EXCEPT ![StateDir(conf[c])] = ws[c]]
             /\ Goes(c, "ok") /\ UNCHANGED <<conf, ws>>
    BY <1>t, <2>1, <2>2 DEF Goes, StateDir
  <2>3. CASE Fails(c) /\ UNCHANGED tokens
    BY <1>f, <2>1, <2>3
  <2> QED
    BY <1>5, <2>2, <2>3 DEF Login
<1>6. CASE Serve(c)
  <2>1. pc[c] = "mcp" /\ UNCHANGED <<disk, edits, wizard, tokens>>
    BY <1>6 DEF Serve
  <2>2. CASE /\ tokens[StateDir(conf[c])] # NoOne
             /\ grant' = [grant EXCEPT ![c] = tokens[StateDir(conf[c])]]
             /\ Goes(c, "ok") /\ UNCHANGED <<conf, ws>>
    BY <1>t, <2>1, <2>2 DEF Goes, StateDir
  <2>3. CASE Fails(c) /\ UNCHANGED grant
    BY <1>f, <2>1, <2>3
  <2> QED
    BY <1>6, <2>2, <2>3 DEF Serve
<1> QED
  BY <1>1, <1>2, <1>3, <1>4, <1>5, <1>6 DEF CommandStep

LEMMA TypeStep == TypeInv /\ [Next]_vars => TypeInv'
<1> SUFFICES ASSUME TypeInv, [Next]_vars PROVE TypeInv'
  OBVIOUS
<1>t. /\ TypeOK /\ RegistersOK
      /\ disk \in [Places -> File]
      /\ \A p \in Places : disk[p] \in File
  BY DEF TypeInv, TypeOK, RegistersOK, File
<1>0. TypeOK
  BY <1>t
<1>1. ASSUME NEW w \in Wizards, WizardStep(w) PROVE TypeInv'
  <2>1. /\ UNCHANGED <<edits, command, tokens>>
        /\ target' \in [Wizards -> Places \cup {Nowhere}]
        /\ valid' \in [Wizards -> BOOLEAN]
        /\ seen' \in [Wizards -> File]
        /\ \A v \in Wizards : v # w => target'[v] = target[v]
        /\ \/ Asks(w) /\ UNCHANGED <<disk, appeared, shared>>
           \/ Stores(w)
    BY <1>1, WizardMoves
  <2>2. /\ step' \in [Wizards -> {"path", "id", "secret", "port", "for ever",
                                  "write", "fill", "load", "decode", "ok",
                                  "failed"}]
        /\ \A v \in Wizards : v # w => step'[v] = step[v]
    <3>1. PICK s \in {"path", "id", "secret", "port", "for ever", "write",
                      "fill", "load", "decode", "ok", "failed"} : Moves(w, s)
      BY <1>1, WizardMoves
    <3> QED
      BY <1>t, <3>1 DEF Moves, TypeOK
  <2>3. /\ disk' \in [Places -> File]
        /\ appeared' \in [Wizards -> BOOLEAN] /\ shared' \in [Wizards -> BOOLEAN]
        /\ \A p \in Places : disk'[p].body \in {"whole", "trailing"}
                                => disk'[p].by # NoOne
    <3>1. CASE UNCHANGED <<disk, appeared, shared>>
      BY <1>t, <3>1 DEF TypeOK, RegistersOK
    <3>2. CASE Stores(w)
      <4>1. PICK q \in Places : q = target[w]
        BY <1>t, <3>2 DEF RegistersOK, Stores, Asking, Writing
      <4>2. PICK f \in File : /\ Puts(w, q, f)
                              /\ f.body \in {"whole", "trailing"} => f.by = w
        BY <3>2, <4>1 DEF Stores
      <4>3. /\ \A p \in Places : disk'[p] = IF p = q THEN f ELSE disk[p]
            /\ disk' \in [Places -> File]
            /\ appeared' \in [Wizards -> BOOLEAN]
            /\ shared' \in [Wizards -> BOOLEAN]
        <5>1. Puts(w, q, f) /\ q \in Places /\ f \in File
          BY <4>1, <4>2
        <5> QED
          BY <1>0, <5>1, PutsMoves
      <4> QED
        BY <1>t, <4>2, <4>3, PathFacts DEF RegistersOK
    <3> QED
      BY <2>1, <3>1, <3>2
  <2>4. step'[w] \in Asking \cup Writing => target'[w] \in Places
    BY <1>t, <2>1 DEF Asks, Stores, RegistersOK, Asking, Writing
  <2>5. TypeOK'
    BY <1>t, <2>1, <2>2, <2>3 DEF TypeOK, command, File
  <2>6. RegistersOK'
    BY <1>t, <2>1, <2>2, <2>3, <2>4 DEF RegistersOK, command
  <2> QED
    BY <2>5, <2>6 DEF TypeInv
<1>2. ASSUME NEW c \in Commands, CommandStep(c) PROVE TypeInv'
  <2>1. /\ UNCHANGED <<disk, edits, wizard>>
        /\ conf' \in [Commands -> Places \cup {Nowhere}]
        /\ ws' \in [Commands -> Wizards \cup {NoOne}]
        /\ \A b \in Commands : b # c => conf'[b] = conf[b] /\ ws'[b] = ws[b]
        /\ pc'[c] \in {"load", "decode", "login", "mcp", "ok"} =>
              conf'[c] \in Places
        /\ pc'[c] \in {"login", "mcp", "ok"} => ws'[c] # NoOne
        /\ pc'[c] = "login" => c \in Logins
    BY <1>2, CommandMoves
  <2>2. /\ pc' \in [Commands -> {"start", "resolve", "load", "decode", "login",
                                 "mcp", "ok", "failed"}]
        /\ \A b \in Commands : b # c => pc'[b] = pc[b]
    <3>1. PICK s \in {"start", "resolve", "load", "decode", "login", "mcp",
                      "ok", "failed"} : pc' = [pc EXCEPT ![c] = s]
      BY <1>2, CommandMoves
    <3> QED
      BY <1>t, <3>1 DEF TypeOK
  <2>3. /\ tokens' \in [Dirs -> Wizards \cup {NoOne}]
        /\ grant' \in [Commands -> Wizards \cup {NoOne}]
    <3>1. CASE UNCHANGED <<tokens, grant>>
      BY <1>t, <3>1 DEF TypeOK
    <3>2. CASE /\ conf[c] \in Places
               /\ tokens' = [tokens EXCEPT ![conf[c].dir] = ws[c]]
               /\ UNCHANGED grant
      BY <1>t, <3>2 DEF TypeOK
    <3>3. CASE /\ conf[c] \in Places
               /\ grant' = [grant EXCEPT ![c] = tokens[conf[c].dir]]
               /\ UNCHANGED tokens
      <4>1. tokens[conf[c].dir] \in Wizards \cup {NoOne}
        BY <1>t, <3>3, PathFacts DEF TypeOK
      <4> QED
        BY <1>t, <3>3, <4>1 DEF TypeOK
    <3> QED
      BY <1>2, <3>1, <3>2, <3>3, CommandMoves
  <2>4. \A b \in Commands :
           /\ pc'[b] \in {"load", "decode", "login", "mcp", "ok"} =>
                 conf'[b] \in Places
           /\ pc'[b] \in {"login", "mcp", "ok"} => ws'[b] # NoOne
           /\ pc'[b] = "login" => b \in Logins
    BY <1>t, <2>1, <2>2 DEF TypeOK, RegistersOK
  <2>5. TypeOK'
    BY <1>t, <2>1, <2>2, <2>3, <2>4 DEF TypeOK, wizard
  <2>6. RegistersOK'
    BY <1>t, <2>1, <2>4 DEF RegistersOK, wizard
  <2> QED
    BY <2>5, <2>6 DEF TypeInv
<1>3. CASE OperatorStep
  <2>1. PICK p \in Places, f \in File :
           /\ Puts(NoOne, p, f)
           /\ f.body \in {"whole", "trailing"} => f.by # NoOne
    BY <1>3, OperatorPuts
  <2>2. /\ edits' \in 0..MaxEdits
        /\ UNCHANGED <<step, target, valid, seen, command, tokens>>
    BY <1>3, OperatorPuts
  <2>3. /\ disk' \in [Places -> File]
        /\ \A q \in Places : disk'[q] = IF q = p THEN f ELSE disk[q]
        /\ appeared' \in [Wizards -> BOOLEAN]
        /\ shared' \in [Wizards -> BOOLEAN]
    <3>1. Puts(NoOne, p, f) /\ p \in Places /\ f \in File
      BY <2>1
    <3>2. PICK w : w = NoOne
      OBVIOUS
    <3>3. Puts(w, p, f)
      BY <3>1, <3>2
    <3> QED
      BY <1>0, <3>1, <3>3, PutsMoves
  <2>4. TypeOK'
    BY <1>t, <2>2, <2>3 DEF TypeOK, command, File
  <2>5. RegistersOK'
    BY <1>t, <2>1, <2>2, <2>3 DEF RegistersOK, command
  <2> QED
    BY <2>4, <2>5 DEF TypeInv
<1>4. CASE UNCHANGED vars
  BY <1>t, <1>4 DEF TypeInv, TypeOK, RegistersOK, vars, wizard, command
<1> QED
  BY <1>1, <1>2, <1>3, <1>4, NextSteps

-----------------------------------------------------------------------------
(* Wizards and their files *)

LEMMA WizardStays == SetupInv /\ [Next]_vars => WizardInv'
<1> SUFFICES ASSUME SetupInv, [Next]_vars, NEW v \in Wizards
             PROVE  Keeps(v)' /\ Expects(v)' /\ Reports(v)'
  BY DEF WizardInv
<1>t. /\ TypeInv /\ TypeOK /\ RegistersOK /\ WizardInv
      /\ Keeps(v) /\ Expects(v) /\ Reports(v)
  BY DEF SetupInv, TypeInv, WizardInv
<1>0. TypeOK
  BY <1>t
<1>1. ASSUME WizardStep(v) PROVE Keeps(v)' /\ Expects(v)' /\ Reports(v)'
  <2>1. \/ Asks(v) /\ UNCHANGED <<disk, appeared, shared>>
        \/ Stores(v)
    BY <1>1, <1>t, WizardMoves
  <2>2. CASE Asks(v) /\ UNCHANGED <<disk, appeared, shared>>
    <3>1. step[v] \in Asking \cup Writing => target[v] \in Places
      BY <1>t DEF RegistersOK
    <3> QED
      BY <1>t, <2>2, <3>1
         DEF Asks, Keeps, Expects, Reports, Asking, Writing, IsThere, Decoded
  <2>3. CASE Stores(v)
    <3>1. PICK p \in Places : p = target[v] /\ target'[v] = p
      BY <1>t, <2>3 DEF RegistersOK, Stores, Asking, Writing
    <3>2. PICK f \in File :
             /\ Puts(v, p, f)
             /\ \/ step'[v] = "fill" /\ f.body = "empty"
                \/ step'[v] = "load" /\ f.by = v /\ f.body \in {"whole", "trailing"}
      BY <2>3, <3>1 DEF Stores
    <3>3. disk'[p] = f
      BY <1>0, <3>1, <3>2 DEF Puts, TypeOK
    <3> QED
      BY <3>1, <3>2, <3>3 DEF Keeps, Expects, Reports, Asking, Writing, IsThere
  <2> QED
    BY <2>1, <2>2, <2>3
<1>2. ASSUME NEW w \in Wizards, w # v, WizardStep(w)
      PROVE  Keeps(v)' /\ Expects(v)' /\ Reports(v)'
  <2>1. step'[v] = step[v] /\ target'[v] = target[v] /\ seen'[v] = seen[v]
    <3>1. PICK s : Moves(w, s)
      BY <1>2, <1>t, WizardMoves
    <3> QED
      BY <1>2, <1>t, <3>1, WizardMoves, MovesWizard
  <2>2. CASE UNCHANGED <<disk, appeared, shared>>
    BY <1>t, <2>1, <2>2, Untouched
  <2>3. CASE Stores(w)
    <3>1. target[w] \in Places
      BY <1>t, <2>3 DEF RegistersOK, Stores, Asking, Writing
    <3>2. PICK f \in File : Puts(w, target[w], f)
      BY <2>3 DEF Stores
    <3> QED
      BY <1>t, <1>2, <2>1, <3>1, <3>2, OthersPut
  <2> QED
    BY <1>2, <1>t, <2>2, <2>3, WizardMoves
<1>3. ASSUME NEW c \in Commands, CommandStep(c)
      PROVE  Keeps(v)' /\ Expects(v)' /\ Reports(v)'
  <2>1. UNCHANGED <<disk, wizard>>
    BY <1>3, <1>t, CommandMoves
  <2> QED
    BY <1>t, <2>1, Untouched DEF wizard
<1>4. ASSUME OperatorStep PROVE Keeps(v)' /\ Expects(v)' /\ Reports(v)'
  <2>1. UNCHANGED <<step, target, seen>>
    BY <1>4, <1>t, OperatorPuts
  <2>2. PICK p \in Places, f \in File : Puts(NoOne, p, f)
    BY <1>4, <1>t, OperatorPuts
  <2>3. v # NoOne
    BY PathFacts
  <2> QED
    BY <1>t, <2>1, <2>2, <2>3, OthersPut
<1>5. CASE UNCHANGED vars
  BY <1>5, <1>t, Untouched DEF vars, wizard
<1> QED
  BY <1>1, <1>2, <1>3, <1>4, <1>5, NextSteps

-----------------------------------------------------------------------------
(* Commands and tokens *)

LEMMA GrantStays == SetupInv /\ [Next]_vars => GrantInv'
<1> SUFFICES ASSUME SetupInv, [Next]_vars PROVE GrantInv'
  OBVIOUS
<1>t. TypeInv /\ TypeOK /\ RegistersOK /\ GrantInv
  BY DEF SetupInv, TypeInv
<1>1. CASE UNCHANGED <<command, tokens>>
  BY <1>t, <1>1 DEF GrantInv, LoggedIn, command
<1>2. ASSUME NEW c \in Commands, CommandStep(c) PROVE GrantInv'
  <2>1. /\ \A b \in Commands : b # c =>
              pc'[b] = pc[b] /\ conf'[b] = conf[b] /\ ws'[b] = ws[b]
        /\ pc[c] # "ok" /\ Logins \subseteq Commands
    <3>1. PICK s : pc' = [pc EXCEPT ![c] = s]
      BY <1>2, <1>t, CommandMoves
    <3> QED
      BY ZenonT(30), <1>2, <1>t, <3>1, CommandMoves DEF TypeOK, Commands
  \* Who has logged in has not moved.
  <2>2. ASSUME NEW d, NEW t, LoggedIn(d, t) PROVE LoggedIn(d, t)'
    <3>1. PICK b \in Logins : pc[b] = "ok" /\ ws[b] = t /\ conf[b].dir = d
      BY <2>2 DEF LoggedIn
    <3>2. b # c /\ b \in Commands
      BY <2>1, <3>1
    <3> QED
      BY <2>1, <3>1, <3>2 DEF LoggedIn
  <2>3. grant[c] = NoOne
    BY <1>t, <2>1 DEF GrantInv
  <2>4. CASE UNCHANGED <<tokens, grant>>
    BY <1>t, <2>1, <2>2, <2>3, <2>4 DEF GrantInv
  <2>5. CASE /\ c \in Logins /\ pc'[c] = "ok" /\ conf[c] \in Places
             /\ tokens' = [tokens EXCEPT ![conf[c].dir] = ws[c]]
             /\ UNCHANGED <<conf, ws, grant>>
    <3>1. tokens'[conf[c].dir] = ws[c] /\ LoggedIn(conf[c].dir, ws[c])'
      BY <1>t, <2>1, <2>5, PathFacts DEF TypeOK, LoggedIn
    <3>2. \A d \in Dirs : d # conf[c].dir => tokens'[d] = tokens[d]
      BY <1>t, <2>5 DEF TypeOK
    <3> QED
      BY <1>t, <2>1, <2>2, <2>3, <2>5, <3>1, <3>2 DEF GrantInv
  <2>6. CASE /\ pc'[c] = "ok" /\ conf[c] \in Places
             /\ tokens[conf[c].dir] # NoOne
             /\ grant' = [grant EXCEPT ![c] = tokens[conf[c].dir]]
             /\ UNCHANGED <<conf, ws, tokens>>
    <3>1. PICK t : t = tokens[conf[c].dir]
      OBVIOUS
    <3>2. LoggedIn(conf[c].dir, t)
      BY <1>t, <2>6, <3>1, PathFacts DEF GrantInv
    <3>3. grant'[c] = t /\ \A b \in Commands : b # c => grant'[b] = grant[b]
      BY <1>t, <2>6, <3>1 DEF TypeOK
    <3> QED
      BY <1>t, <2>1, <2>2, <2>6, <3>2, <3>3 DEF GrantInv
  <2> QED
    BY <1>2, <1>t, <2>4, <2>5, <2>6, CommandMoves
<1>3. CASE \E w \in Wizards : WizardStep(w)
  BY <1>t, <1>1, <1>3, WizardMoves
<1>4. CASE OperatorStep
  BY <1>t, <1>1, <1>4, OperatorPuts
<1>5. CASE UNCHANGED vars
  BY <1>1, <1>5 DEF vars
<1> QED
  BY <1>2, <1>3, <1>4, <1>5, NextSteps

LEMMA SetupStep == SetupInv /\ [Next]_vars => SetupInv'
BY TypeStep, WizardStays, GrantStays DEF SetupInv

LEMMA SpecInv == Spec => []SetupInv
BY SetupInit, SetupStep, PTL DEF Spec

-----------------------------------------------------------------------------
(* Theorems *)

\* Files, wizards, commands and tokens keep their types, and a command that
\* loads, logs in or serves has a path and a workspace.
THEOREM TypesHold == Spec => []TypeOK
<1>1. SetupInv => TypeOK
  BY DEF SetupInv, TypeInv
<1> QED
  BY <1>1, SpecInv, PTL

\* initcmd.go:59: init replaces a file only if it came to be after the lookup,
\* while the prompts waited.
THEOREM OldFilesStay == Spec => ReplacesOnlyLatecomers
<1>1. SetupInv /\ [Next]_vars =>
        [\A w \in Wizards :
            (step[w] = "write" /\ step'[w] = "fill" /\ IsThere(target[w]))
                => appeared[w]]_vars
  BY DEF SetupInv, WizardInv, Expects, Asking
<1> QED
  BY <1>1, SetupInit, SetupStep, PTL DEF Spec, ReplacesOnlyLatecomers

\* initcmd.go:130: what init reports as written is a configuration that loads,
\* its own unless another wizard or the operator was at the file meanwhile.
THEOREM ReportsAreTrue == Spec => []ReportsWhatItWrote
<1>1. SetupInv => ReportsWhatItWrote
  BY DEF SetupInv, WizardInv, Reports, ReportsWhatItWrote
<1> QED
  BY <1>1, SpecInv, PTL

\* config.go:88: a server uses tokens a login for the same directory obtained.
THEOREM TokensStayInDirectory == Spec => []StateStaysBeside
<1>1. SetupInv => StateStaysBeside
  BY DEF SetupInv, GrantInv, LoggedIn, StateStaysBeside
<1> QED
  BY <1>1, SpecInv, PTL

\* config.go:3-5, nothing is shared between workspaces: true where no two
\* configurations of one base name lie in one directory.
THEOREM OneFilePerDirectoryIsOneState ==
    ASSUME \A p, q \in Places : p.dir = q.dir => p = q
    PROVE  Spec => []OneStatePerConfig
<1>1. SetupInv => OneStatePerConfig
  <2> SUFFICES ASSUME SetupInv, NEW c \in Commands, grant[c] # NoOne
               PROVE  \E b \in Logins : /\ pc[b] = "ok" /\ ws[b] = grant[c]
                                        /\ conf[b] = conf[c]
    BY DEF OneStatePerConfig
  <2>1. pc[c] = "ok" /\ LoggedIn(conf[c].dir, grant[c])
    BY DEF SetupInv, GrantInv
  <2>2. PICK b \in Logins : /\ pc[b] = "ok" /\ ws[b] = grant[c]
                            /\ conf[b].dir = conf[c].dir
    BY <2>1 DEF LoggedIn
  <2>3. conf[b] \in Places /\ conf[c] \in Places
    BY <2>1, <2>2 DEF SetupInv, TypeInv, TypeOK, Commands
  <2> QED
    BY <2>2, <2>3
<1> QED
  BY <1>1, SpecInv, PTL
=============================================================================
