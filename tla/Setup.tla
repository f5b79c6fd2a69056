-------------------------------- MODULE Setup --------------------------------
(***************************************************************************)
(* From `init` to a running server: the wizards that write configurations  *)
(* (internal/app/initcmd.go), the commands that look one up, load it and   *)
(* use its state directory (commands.go, internal/config), and an operator *)
(* who edits, copies and removes files meanwhile.                          *)
(*                                                                         *)
(* Abstractions.  All configurations have one base name.  A path is its    *)
(* directory and its extension; "here" is the directory the commands run   *)
(* in, "home" the default one.  Of a configuration counts for which        *)
(* workspace it was made and whether Validate accepts it; of tokens.json,  *)
(* for which workspace they were issued.  How tokens are obtained is in    *)
(* Login, how they are saved and renewed in TokenStore.                    *)
(***************************************************************************)
EXTENDS Naturals, Sequences

CONSTANTS Wizards,   \* runs of `init`, each for a workspace of its own: 1, 2, ...
          Logins,    \* runs of `login`
          Servers,   \* runs of `mcp`
          Places,    \* the paths in use
          NoOne,     \* no workspace
          MaxEdits   \* bound: what the operator does to the files by hand

Commands == Logins \cup Servers

Dirs == {"here", "home"}
Exts == {"", ".json"}
Path(d, e) == [dir |-> d, ext |-> e]
Nowhere == Path("", "")

ASSUME SetupAssumption ==
    /\ Places \subseteq {Path(d, e) : d \in Dirs, e \in Exts}
    /\ Wizards \subseteq Nat /\ NoOne \notin Wizards
    /\ Logins \cap Servers = {}
    /\ MaxEdits \in Nat

VARIABLES
    disk,     \* the file at each place
    edits,
    step,     \* where a wizard is: the prompt it waits at
    target,   \* the path it was given
    valid,    \* its answers make a configuration Validate accepts
    seen,     \* the file its round trip loaded
    appeared, \* history: its path came to be after its lookup
    shared,   \* history: its file was touched by others while it wrote it
    pc,       \* where a command is
    tries,    \* the candidates it has not looked at yet
    conf,     \* the path it resolved
    ws,       \* the workspace of the configuration it loaded
    tokens,   \* the tokens in each state directory
    grant     \* the workspace whose tokens an mcp process uses

wizard  == <<step, target, valid, seen, appeared, shared>>
command == <<pc, tries, conf, ws, grant>>
vars == <<disk, edits, wizard, command, tokens>>

Absent == [body |-> "absent", by |-> NoOne, valid |-> FALSE, private |-> TRUE]

IsThere(p) == p \in Places /\ disk[p].body # "absent"

Init ==
    /\ disk = [p \in Places |-> Absent] /\ edits = 0
    /\ step = [w \in Wizards |-> "path"]
    /\ target = [w \in Wizards |-> Nowhere]
    /\ valid = [w \in Wizards |-> TRUE]
    /\ seen = [w \in Wizards |-> Absent]
    /\ appeared = [w \in Wizards |-> FALSE]
    /\ shared = [w \in Wizards |-> FALSE]
    /\ pc = [c \in Commands |-> "start"]
    /\ tries = [c \in Commands |-> <<>>]
    /\ conf = [c \in Commands |-> Nowhere]
    /\ ws = [c \in Commands |-> NoOne]
    /\ tokens = [d \in Dirs |-> NoOne]
    /\ grant = [c \in Commands |-> NoOne]

\* The file at p becomes f, by the hand of wizard w or of NoOne.
Puts(w, p, f) ==
    /\ disk' = [disk EXCEPT ![p] = f]
    /\ appeared' = [v \in Wizards |->
          appeared[v] \/ (v # w /\ target[v] = p /\ ~IsThere(p))]
    /\ shared' = [v \in Wizards |->
          \/ shared[v]
          \/ v # w /\ target[v] = p /\ step[v] \in {"fill", "load", "decode"}]

-----------------------------------------------------------------------------
(* The wizard *)

Moves(w, s) == step' = [step EXCEPT ![w] = s]

\* The process ends, and forgets.
Exits(w, s) ==
    /\ Moves(w, s)
    /\ target' = [target EXCEPT ![w] = Nowhere]
    /\ valid' = [valid EXCEPT ![w] = TRUE]

\* Mutant: whatever is there is written over.
Accepts_Any(p) == TRUE

\* The refusal of a path that is taken.
Accepts(p) == ~IsThere(p)

\* Name and path.  At every prompt the input may be at its end, which is taken
\* for a blank answer: a prompt with a default takes that, one without repeats
\* itself, for ever.
AskPath(w) ==
    /\ step[w] = "path"
    /\ \A v \in Wizards : v < w => step[v] # "path"   \* their numbers tell the order
    /\ \E p \in Places, ended \in BOOLEAN :
          /\ ended => p = Path("home", ".json")
          /\ \/ /\ Accepts(p)
                /\ target' = [target EXCEPT ![w] = p]
                /\ Moves(w, IF ended THEN "for ever" ELSE "id")
             \/ /\ ~Accepts(p)
                /\ Moves(w, "failed")
                /\ UNCHANGED target
    /\ UNCHANGED <<disk, edits, valid, seen, appeared, shared, command, tokens>>

AskId(w) ==
    /\ step[w] = "id"
    /\ \E next \in {"secret", "for ever"} : Moves(w, next)
    /\ UNCHANGED <<disk, edits, target, valid, seen, appeared, shared, command,
                   tokens>>

\* A literal secret, or the name of an environment variable, which may be one
\* that Validate does not take.
AskSecret(w) ==
    /\ step[w] = "secret"
    /\ \E next \in {"port", "for ever"}, ok \in BOOLEAN :
          /\ next = "for ever" => ok
          /\ valid' = [valid EXCEPT ![w] = ok]
          /\ Moves(w, next)
    /\ UNCHANGED <<disk, edits, target, seen, appeared, shared, command, tokens>>

AskPort(w) ==
    /\ step[w] = "port"
    /\ \/ /\ Moves(w, "write")
          /\ UNCHANGED <<target, valid>>
       \/ Exits(w, "failed")
    /\ UNCHANGED <<disk, edits, seen, appeared, shared, command, tokens>>

\* MkdirAll and the truncation of WriteFile.  A file that is there keeps its mode.
Truncate(w) ==
    /\ step[w] = "write"
    /\ LET p == target[w] IN
       \/ /\ Puts(w, p, [Absent EXCEPT !.body = "empty",
                                       !.private = disk[p].private])
          /\ Moves(w, "fill")
          /\ UNCHANGED <<target, valid>>
       \/ /\ Exits(w, "failed")
          /\ UNCHANGED <<disk, appeared, shared>>
    /\ UNCHANGED <<edits, seen, command, tokens>>

\* The bytes of WriteFile, into the file that was opened: over those of another
\* wizard, if it was faster, whose end may be left behind them.  If the file was
\* removed they go nowhere.
Fill(w) ==
    /\ step[w] = "fill"
    /\ LET p == target[w] IN
       \/ /\ IsThere(p)
          /\ \E body \in {"whole", "trailing"} :
                /\ body = "trailing" => disk[p].body # "empty"
                /\ Puts(w, p, [body |-> body, by |-> w, valid |-> valid[w],
                               private |-> disk[p].private])
          /\ Moves(w, "load")
          /\ UNCHANGED <<target, valid>>
       \/ /\ ~IsThere(p)
          /\ Moves(w, "load")
          /\ UNCHANGED <<disk, target, valid, appeared, shared>>
       \/ /\ Exits(w, "failed")
          /\ UNCHANGED <<disk, appeared, shared>>
    /\ UNCHANGED <<edits, seen, command, tokens>>

\* Load: its first look is at the mode, its second at the contents, of which
\* there may be no more than the one object.
Looked(f) == f.body # "absent" /\ f.private

Decoded(f) == f.body = "whole" /\ f.valid

\* Mutant: init reports what it wrote without loading it.
RoundTrip_Skipped(f) == TRUE

RoundTrip(f) == Decoded(f)

LookBack(w) ==
    /\ step[w] = "load"
    /\ \/ /\ Looked(disk[target[w]])
          /\ Moves(w, "decode")
          /\ UNCHANGED <<target, valid>>
       \/ /\ ~Looked(disk[target[w]])
          /\ Exits(w, "failed")
    /\ UNCHANGED <<disk, edits, seen, appeared, shared, command, tokens>>

ReadBack(w) ==
    /\ step[w] = "decode"
    /\ seen' = [seen EXCEPT ![w] = disk[target[w]]]
    /\ Exits(w, IF RoundTrip(seen'[w]) THEN "ok" ELSE "failed")
    /\ UNCHANGED <<disk, edits, appeared, shared, command, tokens>>

-----------------------------------------------------------------------------
(* login and mcp *)

Goes(c, label) == pc' = [pc EXCEPT ![c] = label]

\* The command ends with an error, and forgets.
Fails(c) ==
    /\ Goes(c, "failed")
    /\ tries' = [tries EXCEPT ![c] = <<>>]
    /\ conf' = [conf EXCEPT ![c] = Nowhere]
    /\ ws' = [ws EXCEPT ![c] = NoOne]

\* Where ResolveConfigArg looks for a bare name, with or without an extension.
Candidates(e) ==
    <<Path("here", e), Path("home", e)>>
    \o IF e = "" THEN <<Path("home", ".json")>> ELSE <<>>

\* An argument with a separator is the path, any other a name to look for.
Start(c) ==
    /\ pc[c] = "start"
    /\ \E e \in Exts :
          \/ /\ \E d \in Dirs : /\ Path(d, e) \in Places
                               /\ conf' = [conf EXCEPT ![c] = Path(d, e)]
             /\ Goes(c, "load")
             /\ UNCHANGED tries
          \/ /\ tries' = [tries EXCEPT ![c] = Candidates(e)]
             /\ Goes(c, "resolve")
             /\ UNCHANGED conf
    /\ UNCHANGED <<disk, edits, wizard, ws, tokens, grant>>

\* One os.Stat after the other.
Resolve(c) ==
    /\ pc[c] = "resolve"
    /\ \/ /\ tries[c] = <<>>
          /\ Fails(c)
       \/ /\ tries[c] # <<>> /\ IsThere(Head(tries[c]))
          /\ conf' = [conf EXCEPT ![c] = Head(tries[c])]
          /\ tries' = [tries EXCEPT ![c] = <<>>]
          /\ Goes(c, "load")
          /\ UNCHANGED ws
       \/ /\ tries[c] # <<>> /\ ~IsThere(Head(tries[c]))
          /\ tries' = [tries EXCEPT ![c] = Tail(@)]
          /\ UNCHANGED <<pc, conf, ws>>
    /\ UNCHANGED <<disk, edits, wizard, tokens, grant>>

LoadLook(c) ==
    /\ pc[c] = "load"
    /\ \/ /\ Looked(disk[conf[c]])
          /\ Goes(c, "decode")
          /\ UNCHANGED <<tries, conf, ws>>
       \/ /\ ~Looked(disk[conf[c]])
          /\ Fails(c)
    /\ UNCHANGED <<disk, edits, wizard, tokens, grant>>

LoadDecode(c) ==
    /\ pc[c] = "decode"
    /\ LET found == disk[conf[c]] IN
       \/ /\ Decoded(found)
          /\ ws' = [ws EXCEPT ![c] = found.by]
          /\ Goes(c, IF c \in Logins THEN "login" ELSE "mcp")
          /\ UNCHANGED <<tries, conf>>
       \/ /\ ~Decoded(found)
          /\ Fails(c)
    /\ UNCHANGED <<disk, edits, wizard, tokens, grant>>

\* Mutant: the default is one directory for all.
StateDir_Home(p) == "home"

\* applyDefaults: <base>.state beside the file, whatever its extension.
StateDir(p) == p.dir

Login(c) ==
    /\ pc[c] = "login"
    /\ \/ /\ tokens' = [tokens EXCEPT ![StateDir(conf[c])] = ws[c]]
          /\ Goes(c, "ok")
          /\ UNCHANGED <<tries, conf, ws>>
       \/ /\ Fails(c)
          /\ UNCHANGED tokens
    /\ UNCHANGED <<disk, edits, wizard, grant>>

\* buildProxy: without stored tokens mcp does not start.
Serve(c) ==
    /\ pc[c] = "mcp"
    /\ LET found == tokens[StateDir(conf[c])] IN
       \/ /\ found # NoOne
          /\ grant' = [grant EXCEPT ![c] = found]
          /\ Goes(c, "ok")
          /\ UNCHANGED <<tries, conf, ws>>
       \/ /\ found = NoOne
          /\ Fails(c)
          /\ UNCHANGED grant
    /\ UNCHANGED <<disk, edits, wizard, tokens>>

-----------------------------------------------------------------------------
(* The operator *)

Edits ==
    /\ edits < MaxEdits
    /\ edits' = edits + 1
    /\ UNCHANGED <<step, target, valid, seen, command, tokens>>

Removes(p) == Edits /\ IsThere(p) /\ Puts(NoOne, p, Absent)

Chmods(p) ==
    /\ Edits /\ IsThere(p)
    /\ Puts(NoOne, p, [disk[p] EXCEPT !.private = ~@])

\* A copy has the mode of a new file.
Copies(p, q) ==
    /\ Edits /\ p # q /\ IsThere(p)
    /\ Puts(NoOne, q, [disk[p] EXCEPT !.private = FALSE])

Terminated ==
    /\ \A w \in Wizards : step[w] \in {"ok", "failed", "for ever"}
    /\ \A c \in Commands : pc[c] \in {"ok", "failed"}
    /\ UNCHANGED vars

Next ==
    \/ \E w \in Wizards :
          \/ AskPath(w) \/ AskId(w) \/ AskSecret(w) \/ AskPort(w)
          \/ Truncate(w) \/ Fill(w) \/ LookBack(w) \/ ReadBack(w)
    \/ \E c \in Commands :
          \/ Start(c) \/ Resolve(c) \/ LoadLook(c) \/ LoadDecode(c)
          \/ Login(c) \/ Serve(c)
    \/ \E p \in Places : Removes(p) \/ Chmods(p)
    \/ \E p, q \in Places : Copies(p, q)
    \/ Terminated

Spec == Init /\ [][Next]_vars

-----------------------------------------------------------------------------
(* Properties *)

\* Types, and: a command has a path once it has found one.
TypeOK ==
    /\ disk \in [Places -> [body : {"absent", "empty", "whole", "trailing"},
                            by : Wizards \cup {NoOne}, valid : BOOLEAN,
                            private : BOOLEAN]]
    /\ edits \in 0..MaxEdits
    /\ valid \in [Wizards -> BOOLEAN]
    /\ step \in [Wizards -> {"path", "id", "secret", "port", "for ever", "write",
                             "fill", "load", "decode", "ok", "failed"}]
    /\ target \in [Wizards -> Places \cup {Nowhere}]
    /\ appeared \in [Wizards -> BOOLEAN]
    /\ shared \in [Wizards -> BOOLEAN]
    /\ pc \in [Commands -> {"start", "resolve", "load", "decode", "login", "mcp",
                            "ok", "failed"}]
    /\ conf \in [Commands -> Places \cup {Nowhere}]
    /\ ws \in [Commands -> Wizards \cup {NoOne}]
    /\ tokens \in [Dirs -> Wizards \cup {NoOne}]
    /\ grant \in [Commands -> Wizards \cup {NoOne}]
    /\ \A c \in Commands :
          /\ pc[c] \in {"load", "decode", "login", "mcp", "ok"} => conf[c] \in Places
          /\ pc[c] = "ok" => ws[c] # NoOne

\* initcmd.go:59, "already exists - refusing to overwrite": between the lookup
\* and the write minutes of prompts may pass, and a file that came to be in them
\* is replaced; one that was there before is not.
ReplacesOnlyLatecomers ==
    [][\A w \in Wizards :
          (step[w] = "write" /\ step'[w] = "fill" /\ IsThere(target[w]))
              => appeared[w]]_vars

\* initcmd.go:130, the round trip: what init reports as written would be loaded
\* by the other commands, and is its own unless others touched it meanwhile.
ReportsWhatItWrote ==
    \A w \in Wizards : step[w] = "ok" =>
        /\ seen[w].body = "whole" /\ seen[w].valid
        /\ seen[w].by = w \/ shared[w]

\* config.go:88: however a command was told of its configuration and whoever
\* wrote to it, it uses tokens that a login for the same directory obtained.
StateStaysBeside ==
    \A c \in Commands : grant[c] # NoOne =>
        \E b \in Logins : /\ pc[b] = "ok" /\ ws[b] = grant[c]
                          /\ conf[b].dir = conf[c].dir

\* config.go:3-5, "one config file describes exactly one workspace: [...] and its
\* state directory. Nothing in a config is ever shared implicitly between
\* workspaces": an mcp process uses tokens that a login with its own file obtained.
OneStatePerConfig ==
    \A c \in Commands : grant[c] # NoOne =>
        \E b \in Logins : /\ pc[b] = "ok" /\ ws[b] = grant[c]
                          /\ conf[b] = conf[c]
=============================================================================
