# Verification of gws-mcp-server

TLA+ specifications of `gws-mcp-server`, an MCP server that gives an assistant
Gmail, Calendar, Drive, Directory and further Google Workspace tools, over stdio
for one person or over HTTP as an OAuth resource server for many. TLC checks every
module on a small instance; TLAPS proves the main theorems for all instances.
Source paths are relative to `src/`.

1. [The system](#1-the-system)
2. [The plan](#2-the-plan)
3. [The modules and the code](#3-the-modules-and-the-code)
4. [What the runs show](#4-what-the-runs-show)
5. [What is proved](#5-what-is-proved)
6. [Where code and documentation disagree](#6-where-code-and-documentation-disagree)
7. [What is assumed of the environment](#7-what-is-assumed-of-the-environment)
8. [What is not modelled](#8-what-is-not-modelled)

## 1. The system

A tool call comes in over stdio or HTTP, is handled by a tool handler, which builds
one or a few REST requests, passes its gate if it changes anything, and hands them to
the Google client. The client asks its token source for an access token and sends the
request, up to five times. Nothing is persistent: all state is in memory, and a
restarted process knows nothing of the previous one.

| Component | State | Operations | Hard behaviour | Correct when |
|---|---|---|---|---|
| Google REST client, `internal/gapi/client.go` | per call: attempt, token, body | `Get GetRaw Post Patch Put Delete PostRaw`, all through `doRaw` | an answer that is lost, late, cut or 5xx after the execution; retries; cancellation during a backoff | no blind resend; the answer never overstates; the loop ends |
| Domain-wide-delegation tokens, `internal/googleauth/dwd.go` | one token source per user, a mutex | `GoogleToken`, `newSource` | concurrent first calls; a mint that never ends; the context a source outlives | a token is its caller's; one source per user; a hung mint is contained |
| Personal tokens, `internal/googleauth/personal.go` | one token source, a mutex held across the sign-in | `GoogleToken`, `authorizeLoopback` and its redirect handler | queueing behind a sign-in; stale redirects; failures with the mutex held | one consent, the right one; nobody is blocked by a failed sign-in |
| Gated writes, `write.go` | the two gates, fixed at start | `runWrite`: gate, `Prepare`, request | a gate that leaks a read or a write | a closed gate sends nothing |
| Application tier, `powerful_app_tools.go`, `powerful_app_bulk.go` | its own client; the audit log | `appApply`, `runBulk`, `asUser` | a target of a batch that fails; a crash before the log line | a batch is complete and accounted for; the log is truthful |
| RSVP and vacation, `calendar_write_tools.go`, `gmail_settings_tools.go` | none; the resource is Google's | read, change, write back without an etag, possibly resent | whatever changes between the read and a write | only what was asked for changes |
| Deployment, `main.go`, `serve.go`, `scopes.go`, `internal/config` | configuration, two keys, registered tools | startup of both transports | checks and loads of a key file as separate steps; two tiers, one of which may fail | tiers never share a credential; scopes fit the tools |
| HTTP resource server, `serve.go`, `actor.go`, `internal/oidcauth/verifier.go` | sessions (in the SDK), user and actor on a context | verification, sessions, middleware, shutdown | sessions that outlive tokens; requests in flight at the end | a request acts as its own bearer, and the log names it |
| Mail, file, directory and task writes | none | each builds one request for `runWrite` | none beyond the gate and the scope | see the gates and the scopes |
| Message and file contents, `gmail_tools.go`, `drive_tools.go`, `tools.go` | none; the file is Google's | `messageBody`, `htmlToText`, `drive_get_file_content`, `truncateUTF8` | a scan that jumps by a distance measured in another copy of the text, and reads its landing place again; a file replaced between two requests; a cap inside a rune | the scan ends, shows prose and no code; the cap splits nothing |
| Other read tools | none | one or two client calls and a projection | none | registered and scoped as documented |

How they interact: handlers share one `gapi.Client` per tier; the client shares one
token source; in HTTP mode the token source finds the user on the context of the
request, which `userMiddleware` put there and `asUser` replaces in the application
tier. The OIDC verifier, the MCP SDK, `oauth2`, `net/http` and Google are libraries and
services around it. `PROJECT.json` lists the hazards by line with the properties that
cover each.

## 2. The plan

| Step | Module | Builds on | State |
|---|---|---|---|
| 1 | `Operation`, the abstract contract of a call | | done |
| 2 | `GapiClient`, the client, which implements `Operation`; `Backoff`, its waits | `Operation` | done, safety and refinement proved |
| 3 | `DwdTokens`, `PersonalTokens`, the two token sources | | done, safety proved |
| 4 | `WriteTools`, gates, batches and audit log | instantiates `Operation` | done, safety proved |
| 5 | `ReadModifyWrite`, RSVP and vacation | instantiates `Operation` | done, safety proved |
| 6 | `ToolCatalogue`, `Deployment`, startup, tiers and scopes | | done, tiers and scopes proved |
| 7 | `ResourceServer`, the HTTP mode | | done, safety proved |
| 8 | `HttpServer`, the client composed with the token cache | `GapiClient`, `DwdTokens` | done, safety and contract proved |
| 9 | `ContentReads`, what a message and a file read as | | done, safety proved |
| 10 | `resolveBindAddr` beyond its three outcomes, the paths of the resource metadata | | left out, section 8 |

The order is by what would hurt most: a mutation done twice or misreported, then a
token of the wrong user, then the gates, then the startup checks that separate the
tiers, then the HTTP mode, then what the halves do to each other, then the contents.

The abstract specification is `Operation`. It says what a caller may rely on without
tokens, attempts or transport: a call is begun, is carried out at most once per
attempt, and is answered once with *applied*, *refused* or *unknown*. `GapiClient`
refines it; `WriteTools` and `ReadModifyWrite` are built on it, so what is shown of
them holds for every client that keeps the contract. `HttpServer` composes the other
way round: its token half is `DwdTokens`, extended, and its client half `GapiClient`,
instantiated with the context of the request as the only thing the two share.

All modules avoid `RECURSIVE`, take their sets as constants with named assumptions,
and have one action per step of the code at which another party can intervene. An
operator introduced by "Seeded fault" stands beside the definition it spoils; no
specification uses it, and `PROJECT.json` pairs it with the property that notices it.

## 3. The modules and the code

The exact lines of every definition are in `PROJECT.json` under `map`.

**Operation.** `phase`, `verdict`, `executed` of each call. `Execute` may come after
the answer: a request that timed out can still arrive.

**GapiClient** (`client.go`). `pc` follows `doRaw`: the body and URL, the token (taken
once, before the loop), `http.Do`, the answer, the backoff. `wire`, `executed` and the
choice of an answer belong to Google and the network. `Receive` is the whole judgement
of an answer: reading the body under its cap, `retryable`, the retry limit,
`statusError`. `Send` waits for a live context, because `http.Do` refuses a dead one;
`BackoffElapsed` and `BackoffCancelled` may both be enabled, as in the `select`.

**Backoff** (`client.go`, `retryDelay` and `clampDelay`). How long a call waits is a
function of the answer in hand and the attempt, so it has no variable. `Wrap` is the
product of a signed `time.Duration`: it keeps its low bits, and the clamp comes after.

**DwdTokens** (`dwd.go`). `Call`, `Lock` (the mutex and the lookup), `Hit` / `Miss` /
`MissFails` (the rest of the critical section), then, outside the mutex, `Reuse` or a
mint. The source itself is `oauth2.ReuseTokenSource`: one mint per source at a time,
with the context the source was built with. Neither the mutex nor a mint looks at the
context of the request that waits for it.

**HttpServer** (`serve.go`, `client.go`, `dwd.go`). One tool call from `BeginCall`, which
puts its user on the context, through the cache (`TokenStep`, `MintStep`), the hand-over
of the token (`TakeToken`), the attempts (`ClientRuns`) to Google, which acts as the
subject of the token (`GoogleHandles`). `at` is the position in the client, `pc` that in
the cache. The cache outlives every call; a call's context may end at any step.

**PersonalTokens** (`personal.go`). The mutex is held from `Lock` to `Return`, across
the sign-in, the exchange and the refresh. `Deliver` is the redirect handler: an error,
a wrong state, or the code; a caller is the state parameter of its own attempt.
`Revoke` is Google ending the grant.

**WriteTools** (`write.go`, `powerful_app_tools.go`, `powerful_app_bulk.go`).
`Invoke` checks the arguments, `CheckGate` the gate; `BeginRead` and `Prepare` are the
read of a plan that has one; `Mutate` hands a request to the client, `Answered` takes its
answer, `WriteLog` ends an application-tier call; a batch returns to `Mutate` for its next
target. Before each request the client waits for a token (`readToken`, `token`): `Token`
ends the wait, `NoToken` is a token source that fails, and a source that hangs is a wait
that never ends. `Crash` is the process being killed at any step.

**ReadModifyWrite** (`calendar_write_tools.go`, `gmail_settings_tools.go`,
`powerful_app_tools.go`). The resource is a function from its entries (attendees, or
settings) to values. `Prepare` builds the body from what is stored then; `Apply` is
Google replacing the resource by that body, on any attempt, also late. `read[c]` is the
resource as `c` read it, and `changed[c]` collects the entries others changed since; the
two exist only to state the properties.

**ToolCatalogue** (the register functions and `scopes.go`). Each tool with its gate and
the scopes Google accepts for it, and `RequiredScopes` / `AppScopes` as the code builds
them. The code keeps these two lists apart; the module is where they meet.

**Deployment** (`main.go`, `serve.go`, `scopes.go`, `internal/config`). `step` is the
position in `run`, `serveHTTP` or `newMCPServer`. A key file is an inode with an account
and a key id, or something that is not a key; `RequireAppOnly`,
`RequireDistinctServiceAccounts` and `LoadAppKey` look at it in three separate steps,
and `Replace` lets the operator change a file in between. `Exit` forgets everything and
the process may be started again with any configuration.

**ResourceServer** (`serve.go`, `actor.go`, `verifier.go`). `Verify` is the bearer
middleware with the verifier, `OpenSession` and `JoinSession` are the SDK's sessions,
`CallTool` puts user and actor on the context, `Interrupt`, `GraceOver` and `Exit` are
the shutdown.

**ContentReads** (`gmail_tools.go`, `drive_tools.go`, `tools.go`). A text is a sequence of
lexemes, the pieces `htmlToText` tells apart: a rune of text, a tag, `<!--`, `-->`, a `<`
that opens no tag. Each has two sizes, its own and that of its lower-case copy: U+0130
shrinks from two bytes to one, U+023A grows to three, and so does a byte that is no rune.
`WriteText`, `SkipToAngle` and `Tag` are the turns of the loop, with `AfterTag` the jump
over a code element: the distance to the closing tag as `strings.ToLower(s[i:])` has it
(`LoweredEndsOf`), taken in the text itself (`EndsOf`, `PlaceAt`). The jump may therefore
end inside a lexeme, `into` bytes from its start, and `WriteByte` shows the rest of it byte
by byte. `shown` holds positions of the text, so that a property can say which piece is
missing: a position for a whole lexeme, its negative for one byte of it, 0 for a newline.
`Steady` says of a text that lower case changes no distance from a code element's tag to the
end of one; for ASCII, and for most other scripts, that is so. `Put` is one line of `collapseBlankLines`, `Offset`
the bytes up to each place of a text. `ReadMeta` and `ReadContent` are the two requests
for a file, `Replace` an upload at any time, and `Cut` is `truncateUTF8` for both.
`Context` and `TextIn` are not in the code: they are a reader of HTML that keeps track of
where it is, which the loop is compared with.

## 4. What the runs show

A passing run lists its properties in its `.cfg`. States are distinct states.

| Run | Instance and bounds | States | Shows |
|---|---|---|---|
| `gapi_client` | 1 call, 4 retries as in the code, 15 kinds of answer, a 7-bit `Duration` | 15 thousand | `DuplicateOnlyAfterUnavailable`: an operation is carried out twice only if Google answered 503 after carrying it out. `RefusedMeansUntouched`: an answer that says "not done" is true, now and later. `WaitFollowsServer`: a wait is what the server asked for, up to the cap. `NothingSentAfterCancel`, `EveryCallReturns`. `ImplementsContract`: the refinement of `Operation`. |
| `http_server` | 2 requests, 2 users, mints of one may hang, 1 retry, tokens that expire, a 401 | 219 thousand | `ActsAsOwnUser`: Google acts as the user of the request on every attempt, whoever shares the cache. `CachedSourceOutlivesRequest`: the source does not die with the request that built it. `ResponsiveCallsReturn`: a call of the other user is answered while one mint hangs for ever. |
| `personal_tokens` | 3 callers | 6 thousand | `OwnConsentOnly`: no stale redirect completes a sign-in; `SourceOutlivesCall`; `ConsentOnce`: those who queued are not asked again; `EveryCallerAnswered`: only the user or the token endpoint can block. |
| `write_tools` | 2 calls, 5 kinds of tool, lists of up to 2 targets; tokens that fail or never come | 52 thousand | `ClosedGateIsSilent`: not even the read of `Prepare`; `BulkOncePerTarget`, `BulkIsComplete`, `LogIsTruthful`, `ReportedIsLogged`, `EveryCallAnswered`. |
| `read_modify_write` | 2 calls, 2 attempts each, 1 edit by an owner | 571 thousand | `OwnEntryOnly`: an RSVP changes the caller's entry, and any other one only if it changed after the read; those it puts back as they were read, and whoever was not on the list then is never put on it. `OmittedCarriedOver`. |
| `deployment` | all 256 switch combinations, 288 of transports, credentials and key files, 36 of server settings; one replacement per life of the process | 160 thousand | `TiersAreSeparate`, `NoTierIsSkipped`, `WriteGateIsInTheScopes`, `WritersAreScoped`. |
| `resource_server` | 2 requests at a time, 2 sessions, 7 tokens, 2 issuers | 1.0 million | `OnlyTrustedActs`; `ActsAsBearer`, which also says whom the log names; `SessionKeepsItsSubject`. |
| `content_reads` | every HTML text of up to 4 pieces, those of 5 with one code element and comments, or runes that lower case shortens or lengthens, of 7 paragraphs, and a few longer ones; all texts of up to 3 runes; caps of 6 and 9 bytes | 216 thousand | `ShowsProse`: where lower case keeps the distances, of a well-formed message no content of a code element is shown, unless one holds the closing tag of another that came before, and all its prose is if each code element comes once. `CutsAtRune`: the cap keeps exactly the runes that fit and the flag is right, also for bytes that are no UTF-8. `FileAsDeclared`. `ReadEnds`: no tag finds itself, also where the jump leads astray. |

`TypeOK` is an invariant of each; it also says where parts of the state may be used (a
tool runs only in an open session, a write carries a whole resource, what is shown of a
text keeps its order). The four violation runs are in section 6.

**Bounds.** Calls of `GapiClient` share no state, so one shows all of it, and the retry
limit is the real one. Its `Duration` has 7 bits and a second 5 units, so that a
`Retry-After` may be short, over the cap, wrap to a negative product and wrap to a short
positive one; the theorem has the real sizes among its values. Two requests of two users
are the least that share the cache: two of one user race for its source, or one waits
behind the hung mint of the other, and one retry is enough to reuse a token that has
expired; the races of more requests inside the cache are covered by the theorems about
it. Three callers are one signing in, one queued and one late. Five lexemes hold two code
elements with prose around or between them, seven paragraphs a run of blank lines inside
and at both ends; a cap of six bytes falls into every byte of a rune of every width. A batch of
two targets has a first and a last one, and a duplicate. Two calls with two attempts each give every order of read, write, late write and resend against each
other; four attempts would repeat the second. Two sessions and two requests let one
request meet the session of another subject while that one is in use, and a slot of the
model is reused for ever, so no number of requests is a bound. `MaxEdits` and
`MaxTargets` are the only caps on counters. Symmetry is used in `resource_server` only,
where requests and sessions are interchangeable and no liveness is checked.

**Deadlock** is checked in `deployment`, where a process can always be started again.
The other runs end on purpose: their calls are all answered, or the process is gone.

**Fairness.**

- `GapiClient`: weak fairness of the client's own steps once it has a token. `http.Do`
  is bounded by `defaultTimeout`, the backoff by its timer. Nothing is assumed of Google
  or of the token source, so `EveryCallReturns` starts after the token.
- `HttpServer`: goroutines run and `sync.Mutex` starves nobody, so the cache's own steps
  and the client's are fair. A mint has no timeout in the code and may hang, except for
  the users in `Responsive`. Google owes a request no answer: the client's timeout does.
- `PersonalTokens`: the process's own steps. Nobody makes the user answer, or the token
  endpoint; the property excuses exactly these waits.
- `WriteTools`: a running call takes its next step, the client's answer once it has its
  token included (`EveryCallReturns`). The token source is not fair: a mint has no timeout
  (`dwd.go:155`), and a sign-in or a refresh runs under the mutex without one
  (`personal.go:116`). `EveryCallAnswered` excuses a call that waits for its token for ever,
  and no other.
- `ContentReads`: the tool's own steps. Nothing makes its requests return, and nobody has
  to replace a file; `ReadEnds` begins when Google has answered.
- `ReadModifyWrite`, `Deployment`, `ResourceServer` have no fairness: their properties
  are safety properties.

## 5. What is proved

For every value of the constants that satisfies the named assumptions:

- `GapiClientProofs`: `TypeCorrect`, `NoBlindResend`, `RefusalIsFinal`,
  `ThrottlingIsRetried`, `CancelStopsSending`, `ContractHolds`, the refinement of
  `Operation`, `WaitsFollowServer` and `LoopEnds`. The safety properties are not inductive: they
  speak of what was executed, while the steps depend on what is on the wire. `IInv` adds
  that at most the request of the current attempt is on the wire and has not been executed
  (`WireInv`), that each execution is explained by an answer the client saw
  (`ExecutedInv`), and that `pc`, the answer in hand and the result agree (`ControlInv`).
  One lemma per action shows the acting call keeps its part; the other calls do not move.
  Assumes `MaxRetries \in Nat` and that answers are answers. For `WaitsFollowServer` the
  range and the exact value of `RetryDelay` are shown for every answer and attempt, from
  the modulus in `Wrap`.
- `HttpServerProofs`, of the cache alone: `TypeCorrect`, `Isolation`, `Sharing`,
  `SingleMint`, `SourcesSurvive`. `IInv` adds that the mutex holder is the one in the
  critical section (`MutexInv`), that the cache entry of a user impersonates that user with
  a context that never ends (`CacheInv`), and that a request's local source is the cached
  one (`LocalInv`): without `MutexInv` a second first request would replace the entry.
- `HttpServerProofs`, of the composed server: `ServerTypeCorrect`, `ActingUser`,
  `ServerSourcesSurvive`, `EndedCallsAreSilent`, `ServerRunsClient`. Every step of the server
  is a step or a stutter of the cache (`StepOfCache`) and of the client
  (`ServerRunsClient`), so `IInv` of both hold in it unchanged; what the composition adds is
  that a call past `token` holds a token, and that a token in hand is its caller's. Hence
  also `ServerAnswersAreTrue` and `ServerKeepsContract`: the server gives every
  tool what the tool modules assume of Google, the contract `Operation`. `NoWaitForOthers` needs
  one more invariant, that every busy source is the source of a request that is minting
  (`OwnedInv`): who waits for a source waits for a mint of its own user, and the mutex is
  never held while Google is asked. It is what keeps a hung mint to one user.
- `PersonalTokensProofs`: `TypeCorrect`, `SignInExcludes`, `OwnConsent`,
  `SourceSurvives`, `AskedOnce`, `NobodyIsStuck`. `IInv` ties the mutex to the states that
  hold it, the source to the states before and after the sign-in, and the channel of an
  attempt to the attempt's own code. `NobodyIsStuck` says that no error path keeps the
  mutex: its holder can go on, or the user or the token endpoint owes an answer.
- `DeploymentProofs`: `TypeCorrect`, `SeparateTiers`, `CompleteTiers`,
  `GateIsInTheScopes`, `ScopedWriters`, for any configurations, key files and replacements.
  A check and the load it protects are separate steps, so `IInv` carries the outcome of
  each check (`ChecksHold`) and the identity of file and key (`KeysAreOnDisk`) from the
  check to the running process, while no file is replaced. The two about scopes compare the
  tables of `ToolCatalogue`: which switch requests a scope that lets a tool write
  (`WritingScopesAreGated`), and that the tools of each tier find theirs among the requested
  ones (`DelegatedToolsAreScoped`, `AppToolsAreScoped`).
- `WriteToolsProofs`: `TypeCorrect`, `ClosedGates`, `OncePerTarget`, `Completeness`,
  `TruthfulLog`, `LoggedReports`, `CallsEnd`, `UsesOperations`. The log is written once,
  at the end, while its truth depends on every target: `IInv` carries, for each call, how
  far its list has come and that the list passed the checks (`ProgressInv`), that whoever
  has asked for a token or of Google passed its gate (`GateInv`), that Google has carried out what was
  answered *applied* (`GoogleInv`) and that a line in the log is the count of the outcomes
  (`LogInv`). `UsesOperations` is the tools' side of the contract that `ContractHolds` and
  `ServerKeepsContract` show of the client and the server.
- `ResourceServerProofs`: `TypeCorrect`, `TrustedOnly`, `ActingAsBearer`,
  `SessionsAreBound`. `IInv` follows the token from the verification to the tool
  (`IdentityInv`), to the session it uses (`SessionInv`) and to the deed (`DeedInv`).
  `SessionsAreBound` assumes that every token has a subject that is not empty: the SDK
  lets a session without a UserID be used by everybody.
- `ReadModifyWriteProofs`: `TypeCorrect`, `RsvpChangesOwnEntry`, `VacationCarriesOver`,
  `VacationLoses`, `UsesOperations`. The second to fourth
  speak of a write that may come long after the read, so `IInv` says of every body on its
  way that it agrees with what is stored, except where the call asked otherwise or
  somebody changed the entry since (`BodyInv`), and of an RSVP's that it is the list as
  read but for the caller's entry (`RsvpAsRead`). They assume `ShapedInputs`: a resource is
  at first, and after an edit by its owner, a resource of the same shape, with times that
  are integers. `SecondIsKept` is the arithmetic of a time that loses its fraction.
  `VacationLoses` bounds what `omitted_keeps_value` shows: without interference the HTML
  body and the fraction of a second are all that is lost.
- `ContentReadsProofs`: `TypeCorrect`, `ProseShown`, `FairCuts`, `DeclaredFiles`,
  `ScanAdvances`, for texts of any length and any caps. `ProseShown` compares the loop with
  a reader that never jumps: `ProseInv` says what has been written up to the loop's place
  `i`, and that the reader, too, is outside the code elements there, or at the end of one
  (`Stands`). It is stated, as `ShowsProse` is, for `Steady` texts, where the jump lands on
  the closing tag it looked for. `TypeCorrect` and `ScanAdvances` hold for all texts: a jump
  measured in the copy may land anywhere behind the tag (`AfterTagRange`), but it never goes
  back, and the place it lands on is in the text or at its end. Induction over an operator is out of the prover's reach, so the proofs go
  along a text by least places: what passes from each place to the next would, if it failed
  at all, fail first somewhere (`Least`, `Climb`). A function with the values that a
  recursive definition asks for exists for the same reason (`Table`).

`ScanAdvances`, `LoopEnds` and `CallsEnd` are the safety halves of three liveness properties:
a count of the steps left that every step lowers and nothing raises; of a call of a tool,
at most three for each target and six more. So is `NobodyIsStuck`
of `EveryCallerAnswered`, and `NoWaitForOthers` of `ResponsiveCallsReturn`.

Model-checked only: the liveness properties themselves (`EveryCallReturns`,
`ResponsiveCallsReturn`, `EveryCallerAnswered`, `EveryCallAnswered`, `ReadEnds`), because the
prover reaches neither fairness nor `ENABLED`. Every other property of a passing run is a
theorem.

## 6. Where code and documentation disagree

Each is a violation run with one property; `PROJECT.json` quotes the lines.

1. `prose_is_kept`: `htmlToText` strips the slash before it compares the name of a tag, so
   a closing `</style>` searches for the next `</style>` as an opening one does, and the
   prose between two style elements, or between `</head>` and a `</header>`, is dropped.
   The comments say code is dropped, not prose.
2. `omitted_keeps_value`: `gmail_set_vacation` drops an HTML body and the fraction of a
   second of a stored bound, though "anything omitted keeps its stored value".
3. `enabled_tools_scoped`: with sends on and writes off, the calendar tools and
   `drive_share_file` are enabled without a scope that lets them work.
4. `shuts_down_gracefully`: `serveHTTP` returns as soon as `Shutdown` is called, so the
   process ends with requests in flight and the five seconds of grace never apply.

Seen while modelling, without a run of their own:

- `scopes.go` says a read-only deployment never consents to a mutating scope;
  `--powerful` requests `gmail.settings.basic`, which permits writing, with both gates
  closed. `WriteGateIsInTheScopes` excepts that scope for this reason.
- A 403 whose envelope has both a canonical status and the legacy rate-limit reason is
  not retried, as `decodeError` prefers the former (`client.go:497`); the comments of
  `doRaw` and `retryable` say rate-limit 403s are. `gapi_client` has such an answer.
- A mutation whose answer is lost is applied and not in the audit log, where
  `docs/auth.md` says every applied one is logged. `ReportedIsLogged` is what holds.
- An RSVP sends the attendee list as it was read, without an etag. What others change
  between the read and the write is undone: an attendee taken off the list in between,
  the caller too, is put back on it, which invites them again. `OwnEntryOnly` says so.
- `client.go:105` describes the token source as asked once per HTTP request; it is asked
  once per call, and all attempts share the token. An attempt after a long wait may meet
  a 401, which is not retried; that the call then does not say *refused* is part of
  `RefusedMeansUntouched`.
- `retryDelay` multiplies before it clamps: a `Retry-After` of centuries wraps, and the
  wait may be anything between none and the cap. `WaitFollowsServer` excepts it.
- A file is described as "capped at 200 KiB"; one of more than 8 MiB is refused by the
  client before the cap applies.
- "Skip a comment or doctype wholesale" (`gmail_tools.go:403`) ends at the first `>`, so
  the rest of a comment that holds a tag is shown. `ShowsProse` excepts such comments.
- A code element that was skipped is searched for once more from its closing tag. When the
  contents of a later `script`, `style` or `head` hold that closing tag, as in
  `<style>..</style><script>..</style>..</script>`, the scan comes to rest inside them and
  what follows is shown as text. `ShowsProse` excepts such texts (`Untangled`).
- `htmlToText` looks for a closing tag in `strings.ToLower(s[i:])` and uses the offset in
  `s` (`gmail_tools.go:425`). Lower case may change the length of what stands between: for
  `<style>/*İ*/x</style>` the scan lands a byte early and shows the "x"; after runes that
  grow, or bytes that are no UTF-8, it lands inside the closing tag or behind it, and shows
  a fragment of the tag or drops prose. `ShowsProse` and `ProseShown` except such texts
  (`Steady`).
- A plain-text part that does not decode reads as no body, also when there is an HTML
  part to fall back to.
- A session is bound to the subject of its token and not to its issuer: two issuers that
  name the same subject share it. What a request acts as is its own token's in any case.
- `health` reports the resource-server mode when an audience is configured, also on
  stdio, and reports the admin and powerful tools as registered when stdio has no
  credentials and registers neither.
- A personal grant that Google ends is never replaced while the process lives: every
  call fails until a restart. `ConsentOnce` states the other side of this.

## 7. What is assumed of the environment

- A token may expire at any time; Google answers it with a 401 and does nothing.
- Google does not carry out what it answers with a 4xx, and has carried out what it
  answers with a 2xx; a 5xx says nothing. An attempt is carried out at most once:
  `http.Transport` does not resend a request of its own accord.
- A PUT, and a PATCH of an array, replaces what is stored. `responseBodyHtml` is a field
  of Google's that the code does not name.
- Google refuses a tool whose token has none of the scopes it accepts, and the
  domain-wide grant covers what the server requests.
- `oauth2.ReuseTokenSource` serializes its callers and uses the context it was built
  with. A refused code or refresh is an error.
- The SDK keeps the UserID of the token a session was opened with and refuses another
  one; it cancels the context of a tool call that has ended. Subjects are not empty.
- The OIDC library checks signature, issuer, audience and expiry. A token that expires
  is covered by the 401 that `Verify` may always give.
- `ListenAndServe` returns as soon as `Shutdown` is called, as `net/http` documents.
- Key files are replaced at most once per life of the process, by whole files.

## 8. What is not modelled

- The wording of answers, previews and logs, the MIME and multipart bodies, the
  projections of the other read tools, the URLs. No property is about them. The redaction
  of a password in a preview is one assignment that a unit test covers.
- `clampLimit`, one comparison; `toolError` and the annotations, wording.
- In `htmlToText`: attributes, entities, spaces inside a line, a bare ">" in text or in an
  attribute, and stray bytes that the removal of a tag joins to a rune.
- The three application-tier reads beside `app_get_message`, and the reads of the
  calendar, directory, governance and collaboration tools: one or two client calls whose
  errors end the tool, with no state and no order between them to get wrong.
- The resource metadata document and its paths: assembled from the configuration.
- Signatures, key sets, TLS, HTTP framing: libraries.
- The growth of the token cache: nothing evicts, so there is no behaviour to check.
- Case and aliases in the targets of a batch: how Google identifies an entry is not in
  the source; only the comparison after trimming is modelled.
- Bind addresses beyond the three kinds loopback, network and malformed.
- The composition of the client with `PersonalTokens`: stdio has one user, and what that
  source does to a caller is in `personal_tokens`.
