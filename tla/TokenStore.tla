----------------------------- MODULE TokenStore -----------------------------
(***************************************************************************)
(* The OAuth tokens of one workspace: internal/transport/tokens.go, as it  *)
(* is used by `mcp` processes (internal/transport/sse.go and               *)
(* internal/transfer/upload.go, which share one provider and both retry    *)
(* once after a 401) and by `login` (internal/oauth/login.go).             *)
(*                                                                         *)
(* A process keeps the tokens it loaded or was given in memory and never   *)
(* reads tokens.json again.  The file is replaced by writing a temporary   *)
(* file of a FIXED name and renaming it; that name, and the file, are      *)
(* shared by every process of the workspace.  A name and the file behind   *)
(* it are kept apart: fd[p] says which of the two names, if any, leads to  *)
(* the file p has open.                                                    *)
(*                                                                         *)
(* Abstractions.  A token is the number of the grant that issued it, 0 is  *)
(* the empty string.  The authorization server hands out refresh tokens it *)
(* accepts once, when its answer names a new one, or again, when its answer*)
(* omits one.  An expiry is "later" (beyond the 30 s margin), "past" or    *)
(* "none" (0 in the file).                                                 *)
(***************************************************************************)
EXTENDS Naturals

CONSTANTS Procs,      \* the processes of the workspace, each `mcp` or `login`
          MaxSerial,  \* bound: grants the server hands out
          MaxStarts   \* bound: starts, of all processes together

ASSUME TokenAssumption ==
    /\ MaxSerial \in Nat \ {0}
    /\ MaxStarts \in Nat \ {0}

Tokens == [access  : 0..MaxSerial,
           refresh : 0..MaxSerial,
           expiry  : {"later", "past", "none"}]

NoTokens == [access |-> 0, refresh |-> 0, expiry |-> "none"]

\* "torn" is what two writers through one open file may leave behind.
Contents == [state : {"absent", "empty", "torn", "ok"}, tokens : Tokens]

Absent     == [state |-> "absent", tokens |-> NoTokens]
Empty      == [state |-> "empty",  tokens |-> NoTokens]
Torn       == [state |-> "torn",   tokens |-> NoTokens]
Holding(t) == [state |-> "ok",     tokens |-> t]

VARIABLES
    file,      \* tokens.json
    tmp,       \* tokens.json.tmp
    kind,      \* what each process was started as
    pc,        \* where each process is
    mem,       \* storedTokenProvider.tokens
    fd,        \* the name that leads to the file p has open for writing
    starts,    \* starts so far
    serial,    \* grants so far
    accesses,  \* the access tokens the resource server accepts
    grants,    \* the refresh tokens the authorization server accepts
    refused,   \* the access token whose 401 made p retry its request, 0: no retry yet
    mishap,    \* a new refresh token was not stored: crash, lost answer, failed
               \* save
    overlap,   \* two processes had something to save at the same time
    spender    \* spender[r]: who had the server rotate the refresh token r

procVars   == <<kind, pc, mem, fd, starts, refused>>
fileVars   == <<file, tmp>>
serverVars == <<serial, accesses, grants>>
history    == <<mishap, overlap, spender>>  \* only the properties read it
vars == <<procVars, fileVars, serverVars, history>>

-----------------------------------------------------------------------------
\* Every workspace begins with a login; the file it left is the first grant.
Init ==
    /\ \E r \in {0, 1} :
         LET t == [access |-> 1, refresh |-> r,
                   expiry |-> IF r = 0 THEN "none" ELSE "later"] IN
         /\ file = Holding(t)
         /\ grants = {r} \ {0}
    /\ tmp = Absent
    /\ kind = [p \in Procs |-> "mcp"]
    /\ pc = [p \in Procs |-> "down"]
    /\ mem = [p \in Procs |-> NoTokens]
    /\ fd = [p \in Procs |-> "none"]
    /\ starts = 0
    /\ serial = 1
    /\ accesses = {1}
    /\ refused = [p \in Procs |-> 0]
    /\ mishap = FALSE
    /\ overlap = FALSE
    /\ spender = [r \in 1..MaxSerial |-> {}]

At(p, label)   == pc[p] = label
Goto(p, label) == pc' = [pc EXCEPT ![p] = label]

\* The request is over, with whatever outcome.
Return(p) ==
    /\ Goto(p, "idle")
    /\ refused' = [refused EXCEPT ![p] = 0]

\* The process is over: what it had in memory is gone, what it has open is closed.
Stop(p) ==
    /\ Goto(p, "down")
    /\ mem' = [mem EXCEPT ![p] = NoTokens]
    /\ kind' = [kind EXCEPT ![p] = "mcp"]
    /\ refused' = [refused EXCEPT ![p] = 0]

\* What is not saved now is a refresh token that tokens.json does not have.
Unsaved(p) == mem[p].refresh # file.tokens.refresh

-----------------------------------------------------------------------------
(* Starting *)

\* LoadTokens: time has passed since the file was written.  A file that does
\* not parse ends the process.
Start(p) ==
    /\ At(p, "down")
    /\ starts < MaxStarts
    /\ starts' = starts + 1
    /\ \/ /\ file.state = "ok"
          /\ \E e \in {file.tokens.expiry, "past"} :
                /\ e = "past" => file.tokens.expiry # "none"
                /\ mem' = [mem EXCEPT ![p] = [file.tokens EXCEPT !.expiry = e]]
          /\ Goto(p, "idle")
       \/ /\ file.state # "ok"
          /\ UNCHANGED <<mem, pc>>
    /\ kind' = [kind EXCEPT ![p] = "mcp"]
    /\ UNCHANGED <<fd, refused, fileVars, serverVars, history>>

StartLogin(p) ==
    /\ At(p, "down")
    /\ starts < MaxStarts
    /\ starts' = starts + 1
    /\ kind' = [kind EXCEPT ![p] = "login"]
    /\ Goto(p, "exchange")
    /\ mem' = [mem EXCEPT ![p] = NoTokens]
    /\ UNCHANGED <<fd, refused, fileVars, serverVars, history>>

-----------------------------------------------------------------------------
(* Token *)

Valid(t) == t.access # 0 /\ t.expiry = "later"

Request(p) ==
    /\ At(p, "idle")
    /\ Goto(p, "token")
    /\ UNCHANGED <<kind, mem, fd, starts, refused, fileVars, serverVars, history>>

\* The three ways through Token: without a refresh token whatever is there is
\* used; a valid token is used; otherwise a new one is asked for.
Token(p) ==
    /\ At(p, "token")
    /\ \/ /\ mem[p].refresh = 0 /\ mem[p].access = 0
          /\ Return(p)
       \/ /\ mem[p].refresh = 0 /\ mem[p].access # 0
          /\ Goto(p, "send")
          /\ UNCHANGED refused
       \/ /\ mem[p].refresh # 0
          /\ Goto(p, IF Valid(mem[p]) THEN "send" ELSE "refresh")
          /\ UNCHANGED refused
    /\ UNCHANGED <<kind, mem, fd, starts, fileVars, serverVars, history>>

\* The server's side of a grant: a new access token, and a new refresh token
\* if it names one.  (The server is external.)
Grant(p, spent, names) ==
    /\ serial < MaxSerial
    /\ serial' = serial + 1
    /\ accesses' = accesses \cup {serial + 1}
    /\ grants' = IF names THEN (grants \ {spent}) \cup {serial + 1} ELSE grants
    /\ spender' = IF names /\ spent # 0 THEN [spender EXCEPT ![spent] = {p}]
                                        ELSE spender

\* ParseTokenResponse: expires_in is honoured, a refresh token without one is
\* probed again in an hour, neither means no known expiry.
ParsedTokens(names, expiresIn) ==
    [access  |-> serial + 1,
     refresh |-> IF names THEN serial + 1 ELSE 0,
     expiry  |-> IF expiresIn \/ names THEN "later" ELSE "none"]

\* Mutant: the answer is taken as it is.
KeepRefresh_Drops(new, old) == new

\* Mutant: the old refresh token is kept whatever the provider sends.
KeepRefresh_Always(new, old) == [new EXCEPT !.refresh = old.refresh]

\* A provider that omits the refresh token means: keep the old one.
KeepRefresh(new, old) ==
    IF new.refresh = 0 THEN [new EXCEPT !.refresh = old.refresh] ELSE new

\* From the grant on to the end of the save.
Saving(p) == pc[p] \in {"open", "write", "rename"}

\* Mutant: what was granted is not saved.
SaveNext_Never(p) == Goto(p, "send") /\ UNCHANGED overlap

SaveNext(p) ==
    /\ Goto(p, "open")
    /\ overlap' = (overlap \/ \E q \in Procs \ {p} : Saving(q))

RefreshGranted(p) ==
    /\ At(p, "refresh")
    /\ mem[p].refresh \in grants
    /\ \E names, expiresIn \in BOOLEAN :
          /\ Grant(p, mem[p].refresh, names)
          /\ mem' = [mem EXCEPT ![p] =
                        KeepRefresh(ParsedTokens(names, expiresIn), @)]
    /\ SaveNext(p)
    /\ UNCHANGED <<kind, fd, starts, refused, fileVars, mishap>>

\* The server grants, its answer is lost or unreadable.
RefreshLost(p) ==
    /\ At(p, "refresh")
    /\ mem[p].refresh \in grants
    /\ \E names \in BOOLEAN :
          /\ Grant(p, mem[p].refresh, names)
          /\ mishap' = (mishap \/ names)
    /\ Return(p)
    /\ UNCHANGED <<kind, mem, fd, starts, fileVars, overlap>>

\* The server denies the grant or is not reached: the request fails.
RefreshFailed(p) ==
    /\ At(p, "refresh")
    /\ Return(p)
    /\ UNCHANGED <<kind, mem, fd, starts, fileVars, serverVars, history>>

\* login: the code is exchanged for the first tokens of a new grant, or the
\* flow fails.
Exchange(p) ==
    /\ At(p, "exchange")
    /\ \E names, expiresIn \in BOOLEAN :
          /\ Grant(p, 0, names)
          /\ mem' = [mem EXCEPT ![p] = ParsedTokens(names, expiresIn)]
    /\ SaveNext(p)
    /\ UNCHANGED <<kind, fd, starts, refused, fileVars, mishap>>

ExchangeFailed(p) ==
    /\ At(p, "exchange")
    /\ Stop(p)
    /\ UNCHANGED <<fd, starts, fileVars, serverVars, history>>

-----------------------------------------------------------------------------
(* SaveTokens: WriteFile opens (and truncates) the temporary file, writes it *)
(* and closes it; then it is renamed.                                        *)

\* What follows a save: the provider goes on whatever came of it, login ends.
Saved(p) ==
    \/ /\ kind[p] = "mcp"
       /\ Goto(p, "send")
       /\ UNCHANGED <<mem, kind, refused>>
    \/ /\ kind[p] = "login"
       /\ Stop(p)

\* Mutant: tokens.json itself is written.
Truncate_InPlace(p) ==
    /\ file' = Empty
    /\ fd' = [fd EXCEPT ![p] = "file"]
    /\ UNCHANGED tmp

Truncate(p) ==
    /\ tmp' = Empty
    /\ fd' = [fd EXCEPT ![p] = "tmp"]
    /\ UNCHANGED file

OpenTmp(p) ==
    /\ At(p, "open")
    /\ Truncate(p)
    /\ Goto(p, "write")
    /\ UNCHANGED <<kind, mem, starts, refused, serverVars, history>>

\* Writing over what another process wrote may leave a longer tail behind.
Written(old, t) == IF old.state = "empty" THEN {Holding(t)}
                                          ELSE {Holding(t), Torn}

\* Mutant: the file is left open.
Close_Leaks(p) == UNCHANGED fd

Close(p) == fd' = [fd EXCEPT ![p] = "none"]

WriteTmp(p) ==
    /\ At(p, "write")
    /\ \/ /\ fd[p] = "tmp"
          /\ tmp' \in Written(tmp, mem[p])
          /\ UNCHANGED file
       \/ /\ fd[p] = "file"
          /\ file' \in Written(file, mem[p])
          /\ UNCHANGED tmp
       \/ /\ fd[p] = "gone"
          /\ UNCHANGED fileVars
    /\ Close(p)
    /\ Goto(p, "rename")
    /\ UNCHANGED <<kind, mem, starts, refused, serverVars, history>>

\* Whoever has the old file open writes to no name from now on, whoever has
\* the temporary file open writes to tokens.json.
AfterRename(where) == IF where = "tmp" THEN "file"
                      ELSE IF where = "file" THEN "gone" ELSE where

Rename(p) ==
    /\ At(p, "rename")
    /\ \/ /\ tmp.state # "absent"
          /\ file' = tmp
          /\ tmp' = Absent
          /\ fd' = [q \in Procs |-> AfterRename(fd[q])]
          /\ UNCHANGED mishap
       \/ /\ tmp.state = "absent"
          /\ mishap' = (mishap \/ Unsaved(p))
          /\ UNCHANGED <<fileVars, fd>>
    /\ Saved(p)
    /\ UNCHANGED <<starts, serverVars, overlap, spender>>

\* The directory cannot be written to, the disk is full: whatever step fails,
\* what was done stays.  A warning, for a provider; the end, for login.
SaveFailed(p) ==
    /\ Saving(p)
    /\ mishap' = (mishap \/ Unsaved(p))
    /\ fd' = [fd EXCEPT ![p] = "none"]
    /\ Saved(p)
    /\ UNCHANGED <<starts, fileVars, serverVars, overlap, spender>>

-----------------------------------------------------------------------------
(* Using the token *)

\* Mutant: the token itself is kept.
Invalidated_Kept(t) == [t EXCEPT !.expiry = "none"]

Invalidated(t) == [t EXCEPT !.access = 0, !.expiry = "none"]

Accepted(p) ==
    /\ At(p, "send")
    /\ mem[p].access \in accesses
    /\ Return(p)
    /\ UNCHANGED <<kind, mem, fd, starts, fileVars, serverVars, history>>

\* A 401: the token is invalidated and the request tried again, once.  The
\* second 401 is reported and leaves the token as it is.
Refused(p) ==
    /\ At(p, "send")
    /\ mem[p].access \notin accesses
    /\ \/ /\ refused[p] = 0
          /\ mem' = [mem EXCEPT ![p] = Invalidated(@)]
          /\ refused' = [refused EXCEPT ![p] = mem[p].access]
          /\ Goto(p, "token")
       \/ /\ refused[p] # 0
          /\ Return(p)
          /\ UNCHANGED mem
    /\ UNCHANGED <<kind, fd, starts, fileVars, serverVars, history>>

-----------------------------------------------------------------------------
(* The environment *)

\* Time passes for a token in memory.
Age(p) ==
    /\ mem[p].expiry = "later"
    /\ mem' = [mem EXCEPT ![p].expiry = "past"]
    /\ UNCHANGED <<kind, pc, fd, starts, refused, fileVars, serverVars,
                   history>>

\* The resource server stops accepting an access token: expired or revoked.
Revoke(a) ==
    /\ a \in accesses
    /\ accesses' = accesses \ {a}
    /\ UNCHANGED <<procVars, fileVars, serial, grants, history>>

\* A process dies, or its agent leaves.  Dying with a new grant that is not
\* renamed into place yet loses it.
Crash(p) ==
    /\ ~At(p, "down")
    /\ mishap' = \/ mishap
                 \/ Saving(p) /\ Unsaved(p)
    /\ Stop(p)
    /\ fd' = [fd EXCEPT ![p] = "none"]
    /\ UNCHANGED <<starts, fileVars, serverVars, overlap, spender>>

\* The bound on starts is reached: nothing is left to run.
Terminated ==
    /\ starts = MaxStarts
    /\ \A p \in Procs : At(p, "down")
    /\ UNCHANGED vars

SaveStep(p) == OpenTmp(p) \/ WriteTmp(p) \/ Rename(p) \/ SaveFailed(p)

Next ==
    \/ \E p \in Procs :
          \/ Start(p) \/ StartLogin(p)
          \/ Request(p) \/ Token(p)
          \/ RefreshGranted(p) \/ RefreshLost(p) \/ RefreshFailed(p)
          \/ Exchange(p) \/ ExchangeFailed(p)
          \/ SaveStep(p)
          \/ Accepted(p) \/ Refused(p)
          \/ Age(p) \/ Crash(p)
    \/ \E a \in accesses : Revoke(a)
    \/ Terminated

Spec == Init /\ [][Next]_vars

-----------------------------------------------------------------------------
(* Properties *)

\* Types, and: a file is open as long as its process writes it.
TypeOK ==
    /\ file \in Contents /\ tmp \in Contents
    /\ kind \in [Procs -> {"mcp", "login"}]
    /\ pc \in [Procs -> {"down", "idle", "token", "refresh", "exchange", "open",
                         "write", "rename", "send"}]
    /\ mem \in [Procs -> Tokens]
    /\ fd \in [Procs -> {"none", "tmp", "file", "gone"}]
    /\ starts \in 0..MaxStarts
    /\ serial \in 1..MaxSerial
    /\ accesses \subseteq 1..MaxSerial /\ grants \subseteq 1..MaxSerial
    /\ refused \in [Procs -> 0..MaxSerial]
    /\ mishap \in BOOLEAN /\ overlap \in BOOLEAN
    /\ spender \in [1..MaxSerial -> SUBSET Procs]
    /\ \A p \in Procs : fd[p] # "none" <=> At(p, "write")

\* tokens.go:203, "SaveTokens writes tokens to stateDir/tokens.json atomically":
\* at every instant, and so after a crash at any step, the file is one that
\* LoadTokens reads.
SaveIsAtomic == file.state = "ok"

\* What SaveTokens guarantees with its one temporary file: as long as no two
\* processes of the workspace have something to save at the same time, whoever dies at whichever
\* step, and whatever a dead process left behind.
SoloSaveIsAtomic == overlap \/ SaveIsAtomic

\* The grant in tokens.json is one the server still takes, but for the time a
\* save needs, unless a rotation went unstored: a restart never asks for a new
\* login.  This is so with several processes, too.
StoredGrantLives ==
    (~mishap /\ ~overlap) =>
        \/ \E p \in Procs : Saving(p)
        \/ file.tokens.refresh \in grants \cup {0}

\* A process never keeps a refresh token that it had rotated itself: the grant
\* in memory dies only through a process it shares it with, a lost answer, or a
\* save that put the older of two grants into the file.
NeverSpendsItsOwn ==
    (~mishap /\ ~overlap) => \A p \in Procs :
        mem[p].refresh # 0 => p \notin spender[mem[p].refresh]

\* A process that can renew its token never loses that ability, whatever the
\* provider leaves out of its answers and however often a token is refused.
KeepsRefreshToken ==
    [][\A p \in Procs :
          (~At(p, "down") /\ ~At(p, "down")' /\ mem[p].refresh # 0) =>
              mem'[p].refresh # 0]_vars

\* A request that could renew its token does not send the refused one again.
NeverResends ==
    \A p \in Procs :
        (At(p, "send") /\ refused[p] # 0) => mem[p].access # refused[p]
=============================================================================
