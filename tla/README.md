# slack-mcp-extender in TLA+

`slack-mcp-extender mcp` stands between an agent (JSON-RPC lines on stdin and
stdout) and the Slack MCP server (Streamable HTTP). It forwards everything, adds
three tools to the answer of `tools/list`, and runs those three tools itself.
This directory holds TLA+ models of its concurrent and failure-prone parts, TLC
configurations that check them on small instances, and TLAPS proofs of all their
safety properties, and of one refinement, for every value of the constants.

    tlc -workers 2 -config MCProxySafety.cfg MCProxy     # any run of PROJECT.json
    tlapm ProxyProofs.tla                                # any module of proofs

## The system

| Part | State | Operations | Talks to |
|---|---|---|---|
| Pipe, `internal/proxy/proxy.go` | `pending` (id -> channel of capacity 1), two goroutines, a write mutex | read a line of the agent, forward and wait with a timer, read a message of the upstream, resolve or relay, write a line | transport (calls), injected tools (calls), agent (stdio) |
| Transport, `internal/transport/sse.go` | `incoming` (64 messages), `closed`, session id | `Send` (POST, one retry after a 401), `ReadLine`, `Close`, one consumer goroutine per event stream | upstream (HTTP), token store (calls) |
| Messages, `internal/jsonrpc` | none | parse, marshal, merge tools into a `tools/list` result | |
| Token store, `internal/transport/tokens.go` | tokens in memory, `tokens.json`, `tokens.json.tmp` | load, `Token` (refresh, save), `Invalidate` | authorization server; other processes through the files |
| Login, `internal/oauth` | callback server, two channels, a timeout | wait for the callback, exchange the code, save | browser, authorization server, the same files |
| Download, `internal/proxy/tools.go`, `internal/transfer/download.go` | a temporary file in the work directory | `files.info`, checks, fetch, rename | Slack (HTTP), the work directory, audit log |
| Upload, `internal/proxy/tools.go`, `internal/transfer/upload.go` | none of its own | checks, upload URL, bytes, completion, one retry per API call | Slack (HTTP), the work directory, audit log |
| Audit log, `internal/transfer/audit.go` | `audit.jsonl` | append | download, upload |
| Paths: `internal/containment`, `internal/workdir`, `policyFor` in `internal/proxy/tools.go` | none | judge a work directory and a path, in a fixed order of refusals, with a look at the disk between | file system, an external library (pathguard) |
| Setup: `internal/config`, `internal/app` | configuration files, state directories | `init` (prompts, write, round trip), look a configuration up, load, validate, start `login` or `mcp` | the operator, other commands through the files |

What is hard about each part, and what makes it correct:

- **Pipe.** Two goroutines and the stream consumers run around one map; a timer
  races an answer that is being resolved. Correct means: each request is settled
  exactly once and before the next line is read; an answer is never lost outside
  the one race the code accepts; the map never outlives the request; what the
  upstream sends first is written first; the injected tools appear in exactly
  the answers they belong to; nothing blocks readUpstream for good.
- **Transport.** `enqueue` blocks in `Send` when `incoming` is full, which is
  safe only because readUpstream never waits for readAgent. readAgent reads no
  line while it waits for an answer, not even the reply to what the upstream asks
  in between; a session is named by any answer and forgotten by the upstream at
  will; a refused POST is repeated; the body is the scanner's own buffer. Correct
  means: no line is served twice, or altered; replies stay in the session of
  their question; `Close` leaves no session behind; what was asked is settled.
- **Token store.** The server takes a refresh token once; a crash or a lost answer
  between the rotation and the rename loses the grant; several processes share
  the files and never read them again. Correct means: `tokens.json` is readable at
  every instant; its grant is alive unless a rotation went unstored; a refresh
  token is never dropped; a refused token is not sent again by the retry.
- **Download and upload.** Every step can fail, the directory and the file belong
  to others as well, sizes told and sizes served differ, the process can die.
  Correct means: whole files or none, within the cap; nothing left behind where
  it can be removed; nothing replaced; posted at most once; "ok" only of what happened; a log that
  agrees with the disk and with Slack.
- **Paths.** Whoever shares the disk can turn a directory into a link between
  two looks. Correct means: what is accepted was judged under the name it is
  accepted under; a refused place is refused in the same words whether something
  is there or not (but for a hard link to a credential file, which is recognised);
  hidden places stay hidden.
- **Login.** A browser tab outlives the attempt that opened it: its callback may
  come twice, late, or to the next attempt on the same port. Correct means: an
  attempt sends only its own code, once; tokens change only through an attempt
  that succeeds.
- **Setup.** Minutes of prompts lie between the lookup of a path and the write;
  commands look their configuration up in several places; the state directory
  is derived from a name. Correct means: what `init` reports as written is what
  the commands load; tokens are used only beside the configuration whose login
  obtained them.

The hazards are listed, each with its line and its properties, under `hazards`
in `PROJECT.json`.

## Modules

| Module | Models | Lines up with the code by |
|---|---|---|
| `RequestReply` | what the agent is promised, without goroutines or channels | abstract; `said` is every line the agent gets, in order; `Proxy` implements it |
| `Proxy` | pipe, `incoming`, consumers | `pc` is the program counter of readAgent, `rx` of readUpstream; `stream[i]` the consumer that answers request i; `pending`, `chan` are the map and its channels; `wire` behind `taken` is `incoming`; `out` is what was written |
| `Session` | `Send` as readAgent calls it, session id, retry, `Close`, what the upstream asks | `turn` is where readAgent is, `line` what it has in hand, `buf` what the scanner's buffer holds by now, `post` the POST under way, `sid` is `sessionID`; `alive` are the upstream's sessions, `retired` those the client has replaced or was never told of |
| `TokenStore` | tokens.go, its use by `mcp` and `login` | `mem[p]` is `storedTokenProvider.tokens`, `file`/`tmp` the two names, `fd[p]` the name under which p's open file is found now, `refused[p]` the token whose 401 p is retrying after |
| `Login` | login.go, several attempts on one port | `codeCh`, `errCh` are the listener's channels, `tab[a]` the browser tab of attempt a |
| `Download` | handleDownload, FetchTo | `pc[p]` walks down the two functions; `dir` and `temp` are the work directory; `excuse[p]` says why a temporary file of p may outlive its call |
| `Upload` | handleUpload, Upload, apiCall | `pc` walks down the functions; `sent`, `stored`, `posts` are what left, what Slack keeps, what it posted |
| `Paths` | policyFor, workdir, containment | `pc` walks down Resolve and ResolveNewFile; `root` is the policy's, `where` the path as placed, `canonical` as found, `kind` and `leads` the disk that every look reads |
| `Setup` | init, login and mcp up to their tokens | `step[w]` is the prompt of wizard w, `pc[c]` walks down a command, `tries` are the candidates of ResolveConfigArg |
| `MCProxy`, `MCTokenStore`, `MCDownload`, `MCPaths`, `MCSetup` | small instances | the other modules are instantiated by their `.cfg` alone |
| `ProxyProofs`, `SessionProofs`, `TokenStoreProofs`, `DownloadProofs`, `UploadProofs`, `LoginProofs`, `PathsProofs`, `SetupProofs` | proofs about the module of that name | |

How they compose: `Proxy` and `Session` are two views of one process. `Proxy`
keeps the goroutines and the queue and lets any exchange succeed or fail;
`Session` keeps what an exchange is made of and lets a message of the upstream
arrive when it is sent. A 401 of `Session` is `Refused` in `TokenStore`; `Save` of
`Login` is the sequence of `SaveStep`s of `TokenStore`; the accepted path of `Paths`
is the file of `Upload` and the directory of `Download`, where the looks that are
repeated later (size, target) race; the tokens `Setup` starts with are those of
`Login` and `TokenStore`.

`map` in `PROJECT.json` names the lines each definition stands for. An operator
named `X_Something` is not part of a model: it is a mutated form of `X`, kept to
show that some property fails when the code has that bug.

What the models abstract from:

- *Messages* are a kind, an id, and the shape of the result. A request id is used
  once, the upstream answers a request at most once and on its own exchange, as
  MCP has it. Bodies that do not parse are `junk`. A message that parses but is
  neither request, response nor notification goes the way of a push and is not
  told apart from one.
- *Writing a line* is one step, for the code holds `outMu` over the whole line.
- *Tokens* are the number of the grant that issued them, 0 the empty string;
  expiry is later than the 30 s margin, past, or none. A server takes a refresh
  token once if its answer names a new one.
- *Sessions* are the numbers under which the upstream handed them out, 0 the empty
  id. An answer may name one whatever its status is and whether or not its body
  can be read; a session opened for an answer that is lost exists all the same.
  Any POST may be answered with a 401.
- *Places* are paths without links; a link leads from a place to another. pathguard
  judges by name and by file identity: its lists are sets of places (and, for the
  filename of a download, a name that is on them anywhere), and a hard link to a
  credential file is a kind of file. One judgement is one look at the disk. A root
  that lies under a dot name is no obstacle, as in the code.
- *Configurations* are the workspace they were made for, and whether Validate
  accepts them. All have one base name: the default directory, the directory the
  commands run in, and the extension tell them apart.
- *Files* in a work directory are who made them, a size, and whether all bytes are
  there. In `Download` and `Upload` all path refusals but the one whose race
  matters (the target exists) are one; `Paths` tells them apart.
- *Slack* answers, refuses, or takes effect and its answer is lost. An answer in
  an envelope that is not `ok` had no effect.

## Runs

| Run | Shows | Bounds |
|---|---|---|
| `proxy_safety` | the invariants of the pipe | three requests, one of each method, one push, channel of 1, all four shapes of a result |
| `proxy_live` | `Proxy` implements `RequestReply`; requests are answered, pushes relayed | the same requests and push, channel of 1, results an object or null |
| `session` | served once, bodies, replies in session, nothing left at `Close`, what is asked is settled | two requests, an ask during each, two sessions |
| `tokens` | file integrity, the stored grant, retries, kept refresh tokens | two processes, each mcp or login at every start, 3 grants, 3 starts |
| `login` | own code once, failures keep the tokens | three attempts |
| `download_shared` | whole files, clean-up, log, what is replaced | two proxies (alike: symmetry) and a user, one name, sizes 0..3, cap 1 |
| `upload` | at-most-once, ok, egress log, cap | sizes 0..2, cap 1 |
| `paths` | judged where it is, refusals hide existence, hidden places | seven places, one change of the disk, two work directories, one of them hidden |
| `setup` | what init reports, what it replaces, whose tokens are used | two wizards, a login, an mcp, two paths, one edit by hand |
| `proxy_null_tools`, `tokens_tmp`, `setup_twins` | differences, see below | as the run above of the same module; `setup_twins` with two paths of one directory and no edits |

A channel of capacity 1 fills with every message, so that the blocking of
`enqueue` is exercised more than with 64. A third request and a second push add
no new pair of races, since readAgent serves one request at a time: the races are
between one request and the answer of an earlier one. `proxy_live` has of the
results the two that lead to different ends: with null the process panics, and a
result that cannot be merged, or an error, takes the way of an object through every
queue and differs in the one line that writes it. Two requests and two
sessions let a session be replaced between a question and its reply, and a late
answer come after the next line. Three starts let a process come back to a file
that a dead one left in any state, after another has been there; three grants let
a rotated token be rotated again. Three attempts at a login give a tab of each of
two earlier ones to the third. Sizes go two beyond the cap, since the limit of a
download tells "more than the cap" by one byte. The seven places are one of each
verdict, the root, a file below a hidden directory and a place outside; one change
of the disk between two looks is what a race needs. The proofs are for any number. Two wizards are needed for one to
overwrite the other.

Models that can end (the pipe, the session, the token store with its bounded
starts, the attempts at a login, the judgement of a path, the commands of a
setup) say so with an explicit `Terminated` step; deadlock is checked everywhere.
`TypeOK` is a property of `proxy_safety`, `tokens` and `upload`. In `Session`,
`Download`, `Login` and `Setup` it is proved instead; in `Paths` it documents the
variables.

### Fairness

`CodeFairness` is weak fairness of the steps of readAgent that wait for nobody
but the proxy (with the timer, which the runtime fires) and of readUpstream: Go
schedules a runnable goroutine eventually. Nothing is assumed of the upstream, of
the agent, of HTTP exchanges, or of injected tools: no client has a timeout, so none
of these need ever end. `RequestsAnswered` says what is left without that: a request
is answered, unless its own exchange or its injected tool hangs for ever (`HungUp`),
or a null result of `tools/list` ends the process.

`Session` has weak fairness of readAgent's steps (reading a line, sending), of the
timer, of the exchange, and of an agent that replies to what it is asked. The code
guarantees the first two; the others are conditions of `AskSettled`, which is about
readAgent's own wait and not about a POST that hangs. Nothing is assumed of what the
upstream answers. No other run states fairness.

### Where code and documentation differ

Each of these runs is expected to fail and is listed under `findings`.

| Run | The text | The code |
|---|---|---|
| `proxy_null_tools` | an unmergeable result is forwarded (`proxy.go:153`) | a null result panics in the merge |
| `tokens_tmp` | tokens.json is written atomically (`tokens.go:203`) | two processes share one temporary file |
| `setup_twins` | nothing is shared implicitly between workspaces (`config.go:4`) | `ws` and `ws.json` of one directory share `ws.state` |

Others were met while reading and are visible in the models, as a history variable
or a branch, without a run of their own:

- TimeoutMs is said to bound each request's wait (`proxy.go:29`); the timer starts
  after the POST (`proxy.go:199`).
- Expiry 0 is "no known expiry", but with a kept refresh token it counts as
  expired and every request renews (`tokens.go:76`).
- "On any failure no partial file remains" (`download.go:63`), but the errors of
  `os.Remove` are ignored (`download.go:95`, `:113`, `:117`, `:121`): what makes a
  rename fail, a directory made unwritable, makes the removal fail too. Nor does a
  process that dies remove anything. `NoPartialRemains` says that a temporary file
  outlives its call in these two cases only, and never one that is told "ok".
- "An existing path and a missing one get the same answer" (`containment.go:16`),
  but a hard link to a credential file is refused as `sensitive_path` where a missing
  path would be outside. `README.md:76` and ADR-0004 say so, the comment does not;
  `RefusalHidesExistence` has exactly this exception.
- The judgement of a place recognises a hard link to a credential file by what is
  there when it looks. One that is made afterwards is accepted, and a download or
  an upload opens the path after the last look; `AcceptedWhereItIs` therefore
  speaks of names for good and of hard links only while the disk stays as it is.
- A download never overwrites, but a file that came to be during the transfer is
  replaced (`tools.go:135`); `ReplacesOnlyLatecomers` says that nothing else is.
- An upload is capped, but measured again after the check, and an empty
  measurement sends the file to its end; `BeyondCapMeansWritten` says that the cap
  is passed only by a file that is written to during the call.
- `init` refuses to overwrite (`initcmd.go:59`), but the lookup is made minutes
  before the write. A configuration its round trip rejects stays behind and makes
  the next `init` refuse (`initcmd.go:130`). At the end of its input it asks for ever.
- A session the upstream has forgotten is never renewed: its id goes with every
  later POST until a restart (`sse.go:147`).
- A bare configuration name means the file in the current directory if there is
  one, else the default one: `login` and `mcp` of one name may use two files. The
  tokens stay beside each (`StateStaysBeside`).
- An awaited answer is parsed and marshalled again by `writeMessage`, so it is not
  passed on "byte for byte" (`proxy.go:5`, `jsonrpc.go:2`).
- A refusal of the work directory (`tools.go:182`, `tools.go:242`) is answered
  without the audit entry that `audit.go:14` promises for "every attempt".

## Proofs

Each module of proofs states one inductive invariant as a conjunction of named
parts, proves that Init establishes it and that each action preserves it, and
derives the theorems, which name the properties of the runs. TLC checked each
invariant on the instance of the run before it was proved. The assumptions are the
`ASSUME` of the module alone (bounds are positive numbers, ids are no messages of
the proxy's own, and the like); the two theorems that add one of their own,
`OnlyNullBreaks` and `OneFilePerDirectoryIsOneState`, say under what condition a
difference shown by a run cannot arise.

**The pipe.** `ProxyProofs` proves, in six parts, for any set of request ids, any
methods, any pushes, any results and any capacity, from `ConstantsAssumption` alone:

- `TypesHold`: `Spec => []TypeOK`. Inductive together with `RegistersOK`: wherever a
  program counter says that a message is handled, the register holds one.
- `PendingStaysInFlight`: `Spec => []PendingIsInFlight`. It is not inductive: a
  request that is received from its channel needs no clean-up of the map only
  because readUpstream removed the key before it filled the channel. `FlightInv`
  adds that: what readUpstream carries to a channel, and what a channel holds,
  is for a request that is no longer pending; a channel holds answers to its own
  request; what is in hand at `answer` answers the current request.
- `EveryRequestAnswered`: `Spec => []AnsweredBeforeNextLine`. `AnsweredInv` says
  more than the property: at every label all requests read *but the current one*
  are settled. The current one becomes settled in the one step that writes what
  is in hand, and `FlightInv` says that this is an answer to it.
- `AgentGetsOneAnswer`: `Spec => []OneAnswer`. The argument follows
  the upstream's answer to request i through the program. It is produced once:
  `SourceInv` says that as long as the exchange or the stream may still produce it,
  it is not on the wire, that the two cannot both produce it, and that a request
  the proxy has made up an answer to ("failed", "local") will never get one. From
  there it is in one place only: `PlaceInv` says that the places (still in
  `incoming`, with readUpstream, in the channel, in readAgent's hand, written)
  exclude each other. `OutInv` then counts lines: the upstream's answer is
  written at most once, readAgent writes at most one line for each request and
  none while the request is in hand. Two lines can therefore only be one of each
  sort, and the proxy's own is a timeout, the one made-up answer that leaves the
  upstream free to answer. `ForeignInv` keeps the two sorts apart: no message of
  the upstream has one of the results that stand for the proxy's own. TLC checked
  `OnceInv` on the instance of `proxy_safety` before it was proved.
- `PipeKeepsPromise`: `Spec => KeepsPromise`, the refinement of
  `RequestReply`. Only what is read of the agent and what is written to it is seen;
  every other step is a stutter. `Promise` maps `out` to `said` line by line, so that
  a line written twice is no stutter: it must be a step of the promise, which has
  none for it. A written answer is a step of the promise because
  of `AnsweredInv` (the one request not settled is the current one) and `OnceInv`
  (a line readUpstream relays is the only raw one, of a request that waits or
  timed out). `PushesInv` makes the same argument for a message of the upstream's
  own: it is in one place of `wire`, readUpstream, `out`, so it is written once.
- `ToolsInjectedOnTime`: `Spec => []InjectedOnTime`, by `FlightInv`: the only step that
  merges is the one that writes what is in hand, and what is in hand answers the
  request whose method was looked at. `OnlyNullBreaks` is the other side of the run
  `proxy_null_tools`: *if* no result of the upstream is null, the merge never panics.
- `NoAnswerIsLost`: `Spec => []NoAnswerLost`. `OnceInv` says that an answer is in at
  most one place; `KeptInv`, that it is in at least one. An answer readUpstream has
  taken is with it, in the channel of its request, in hand, or written; and where
  readUpstream carries it to a channel, the request still waits there or has
  given up. Without the second part the first is not inductive: the send to the
  channel would lose an answer if the request had gone on to another line.
- `PushesComeFirst`: `Spec => []PushBeforeAnswer`. `RelayedInv`: of the messages the
  upstream sends of its own accord, all that were taken are written, but for the
  one in readUpstream's hand, which is the last one taken. As readUpstream holds one
  message at a time, it holds no push when it takes an answer, and readAgent can
  only write what was taken. `FullInv` tells the upstream's answers from everything
  else, wherever they are.

**The session** (`SessionProofs`, any requests, any number of sessions handed out).
A line of the agent is followed from its pen to the POST: `StdinInv` and `HandInv` say
that it waits in stdin once, or is in hand, and has then not been taken up; that is
why the retry after a 401 (`LinesServedOnce`) and a lost reply repeat nothing.
`BodiesIntact` needs that the buffer holds the line in hand for as long as Send
lasts. `AliveInv`: the upstream knows no session but the client's, those it has
replaced, and those it was never told of because the answer was lost, which gives
`NothingLeftBehind`: what an accepted DELETE leaves is nothing the client still has
the name of. An accepted DELETE ends the program.
`OpenInv`: an exchange is open in the client's session, in a replaced one, or in
none, from which `RepliesKeepSession` follows, step by step.

**The token store** (`TokenStoreProofs`, any processes, grants, starts).
`SerialInv`: numbers in use have been handed out, and a token that was rotated is
accepted no more. `RetryInv`: a token that was refused is not the one in memory.
`SoloInv`: as long as no two processes have something to save, one at most is
between its grant and its rename, and the temporary file it writes is its own,
empty and then whole. `LiveInv`: the grant in `tokens.json` is alive, or it is the
one that the process which is saving has just had rotated. Neither
`StoredGrantLives` nor `NeverSpendsItsOwn` is inductive: a save that fails leaves
the grant of the file alive only because what is saved is alive, or the same, and a
process that starts takes a grant no one else but that saver can have spent.
`KeepsRefreshToken` follows action by action.

**Download** (`DownloadProofs`, any proxies, names, sizes, cap). `TempInv`: a
temporary file exists only while it is copied, measured or renamed, or there is an
excuse (the process died, or `os.Remove` failed), and is whole and within the cap
before the rename; a call that is decided as "ok" has renamed it. `RecordInv`: record, reply and the landing of
a file agree from the decision on. `LateInv`: a target that is taken during the
transfer was taken after the look.

**Upload** (`UploadProofs`, any sizes, cap). `EgressInv`: nothing is posted before
the last step, nothing sent before the bytes step, and the completing call follows
an upload of the declared length. `LogInv`: one record, in the last step but one.
`CapInv`: until the bytes go, a file beyond the cap was written to.

**Login** (`LoginProofs`, any attempts). `CodeInv`: a code in the channel is the
listener's own and its tab was approved (the handler compares the state), and where
an attempt is tells how far its code has come.

**Paths** (`PathsProofs`, any places, links and changes). `JudgedInv`: after the
judgement of `where`, and again after that of `canonical`, the verdict by name
(`Missing`) is "ok"; no answer is given earlier. It depends on the place and the
call, not on the disk, so that changes of the disk cannot undo it. The verdict by
identity (`Planted`) does read the disk, and is kept for as long as nothing changes.
A refusal is either the verdict by name, or "sensitive_path" of something that is a
hard link in the state in which the call is refused.

**Setup** (`SetupProofs`, any wizards, commands and paths, any number of edits by
the operator). Everybody's files are changed by one operator, `Puts`, and `OthersPut`
says once and for all what another's hand does to a wizard. `WizardInv`: a file that
is at the path of a wizard which still asks came to be after its lookup (`Expects`);
from its truncation on it is there and, once filled, its own, unless `shared` is set
(`Keeps`). Of the look of the round trip no more is used than that it is the last
one, so `ReportsAreTrue` says nothing of the file a moment later; nor does the code.
`GrantInv`: the tokens of a directory were put there by a login that has ended well
and therefore keeps its configuration. `TokensStayInDirectory` follows, and so does
`OneFilePerDirectoryIsOneState`: with one configuration for each directory (the
theorem's assumption, which the instance of `setup` meets) mcp uses tokens of its own
configuration, so that `ws` beside `ws.json` is *all* there is to the difference that
`setup_twins` shows.

Model-checked only: liveness (`RequestsAnswered`, `PushesRelayed`, `AskSettled`),
which is out of the prover's reach, as is ENABLED; and that no state but the ends is
a deadlock.

What the properties do not catch, although it is next to what they say: an answer
that comes before the body of its request was read (`BodyIntact` exempts it); a
process that spends a refresh token another one has rotated (`NeverSpendsItsOwn` and
`StoredGrantLives` are about a process's own rotations and the stored grant); the
reply of the agent that is lost with a refused POST (`AskSettled` counts it as
settled); the sharing of one state directory by two configurations
(`StateStaysBeside` judges directories; `setup_twins` shows it).

## Plan

The order so far: the pipe first, because every call goes through it; then the
token store, whose failures end a user's session; the two transfers; then the
session, login, paths and setup around them. What is left:

1. State and prove what joins two modules: the `SaveStep`s of `TokenStore` implement
   the `Save` of `Login`, the places `Paths` accepts are those `Upload` and `Download` use.
2. Model the merge of tools/list against a reference, name collisions included, as
   an operator of its own: it is a pure function with tests, so it comes last.

## Not modelled

- Which entries the merge of `tools/list` keeps, drops or renames; whether a result
  can be merged at all is in `Proxy`.
- Of a configuration: the single fields, `ServerOwnedDirs`, `Warnings`, `Redacted`
  (pure functions of one loaded record); `config show` and `config validate`, which
  load and print; dispatch and usage.
- A configuration's explicit `state_dir`: every configuration of `Setup` has the
  derived one. Two that name the same directory share it as the twins do.
- The loopback certificate (generated data) and client authentication at the token
  endpoint (a header or a form field).
- The lists of pathguard (an external library) and the policy fields that a
  configured work directory makes unreachable.
- The line format of the audit log, and the wording of errors and logs.
- The end-to-end tests against a real workspace, which are no part of the program.
