----------------------------- MODULE Deployment -----------------------------
(***************************************************************************)
(* A deployment from its configuration to its tool calls: the startup of   *)
(* main.go and serve.go, the checks of internal/config, the loading of the *)
(* two service-account keys, the tools that are registered and the scopes  *)
(* their tokens carry.                                                     *)
(*                                                                         *)
(* The process is started over and over with any of the configurations.    *)
(* The key files belong to the operator, who may replace one at any time,  *)
(* also while the process starts: the startup stats a file, reads its      *)
(* identity and loads it in separate steps.                                *)
(***************************************************************************)
EXTENDS ToolCatalogue

CONSTANTS
    Configurations,  \* what the process is started with
    FileAt,          \* FileAt[p]: the file a path leads to at first
    Replacements     \* <<path, file>>: the replacements an operator may make

Paths == DOMAIN FileAt

\* What a path leads to: Missing, or a file with its inode.  Only a "key" is a
\* service account's; "json" is some other JSON document, "text" is not JSON.  An
\* account or key id that is absent reads as "".
File == [inode : STRING, kind : {"key", "json", "text"}, account : STRING, id : STRING]
Missing == [missing |-> TRUE]

\* A path is "" when its variable is unset or blank.
Configuration ==
    [http : BOOLEAN, writes : BOOLEAN, sends : BOOLEAN, admin : BOOLEAN,
     powerful : BOOLEAN, appOnly : BOOLEAN, personal : BOOLEAN, audience : BOOLEAN,
     issuers : BOOLEAN, adminSubject : BOOLEAN, dwdPath : Paths \union {""},
     appPath : Paths \union {""}, addr : {"loopback", "network", "malformed"}]

ASSUME ConfigurationsAssumption == Configurations \subseteq Configuration
ASSUME FilesAssumption ==
    /\ FileAt \in [Paths -> File \union {Missing}]
    /\ Replacements \subseteq Paths \X (File \union {Missing})

VARIABLES
    step,      \* where the process is in run or serveHTTP
    cfg,       \* its configuration
    at,        \* at[p]: the file a path leads to now
    replaced,  \* a file was replaced since the process was started
    dwdKey, appKey,  \* the keys it loaded
    tools,     \* the tools it registered
    last       \* the tool call being answered, and the answer

vars == <<step, cfg, at, replaced, dwdKey, appKey, tools, last>>

NoConfig == [none |-> TRUE]
NoCall == [none |-> TRUE]

Steps == {"off", "require", "discover", "dwdKey", "requireApp", "distinct", "appKey",
          "bind", "personal", "serving"}
Outcomes == {"ok", "error", "dryRun", "noScope", "refused", "done"}

TypeOK ==
    /\ step \in Steps
    /\ cfg \in Configurations \union {NoConfig}
    /\ (step = "off") = (cfg = NoConfig)
    /\ at \in [Paths -> File \union {Missing}]
    /\ replaced \in BOOLEAN
    /\ {dwdKey, appKey} \subseteq File \union {Missing}
    /\ tools \subseteq AllTools
    /\ last \in [tool : tools, outcome : Outcomes] \union {NoCall}

Init ==
    /\ step = "off"
    /\ cfg = NoConfig
    /\ at = FileAt
    /\ replaced = FALSE
    /\ dwdKey = Missing
    /\ appKey = Missing
    /\ tools = {}
    /\ last = NoCall

\* Seeded fault: the next process finds the configuration of the last one.
ExitKeepsConfig ==
    /\ step' = "off"
    /\ dwdKey' = Missing
    /\ appKey' = Missing
    /\ tools' = {}
    /\ last' = NoCall
    /\ UNCHANGED <<cfg, at, replaced>>

\* The process is gone, and with it all it held.
Exit ==
    /\ step' = "off"
    /\ cfg' = NoConfig
    /\ dwdKey' = Missing
    /\ appKey' = Missing
    /\ tools' = {}
    /\ last' = NoCall
    /\ UNCHANGED <<at, replaced>>

Goto(from, to) ==
    /\ step = from
    /\ step' = to

Continue(from, to) ==
    /\ Goto(from, to)
    /\ UNCHANGED <<cfg, at, replaced, dwdKey, appKey, tools, last>>

-----------------------------------------------------------------------------
(* Startup: every check that fails ends the process. *)

AfterDelegatedKey(c) ==
    CASE c.appOnly -> "requireApp"
      [] ~c.appOnly /\ c.http -> "bind"
      [] OTHER -> "personal"

\* run: --http selects serveHTTP; newMCPServer begins with the application tier.
Start(c) ==
    /\ Goto("off", IF c.http THEN "require" ELSE AfterDelegatedKey(c))
    /\ cfg' = c
    /\ replaced' = FALSE
    /\ UNCHANGED <<at, dwdKey, appKey, tools, last>>

ResourceServerConfigured == cfg.audience /\ cfg.issuers /\ cfg.dwdPath # ""

RequireResourceServer ==
    /\ step = "require"
    /\ IF ResourceServerConfigured THEN Continue("require", "discover") ELSE Exit

\* NewVerifier fetches the metadata of every issuer.
Discover ==
    /\ step = "discover"
    /\ Continue("discover", "dwdKey") \/ Exit

\* NewDWD reads the file and parses it.
IsKey(f) == f # Missing /\ f.kind = "key"

LoadDwdKey ==
    /\ step = "dwdKey"
    /\ IF IsKey(at[cfg.dwdPath])
         THEN /\ Goto("dwdKey", AfterDelegatedKey(cfg))
              /\ dwdKey' = at[cfg.dwdPath]
              /\ UNCHANGED <<cfg, at, replaced, appKey, tools, last>>
         ELSE Exit

SameFile(p, q) ==
    /\ Missing \notin {at[p], at[q]}
    /\ at[p].inode = at[q].inode

AppOnlyConfigured ==
    /\ cfg.appPath # ""
    /\ cfg.dwdPath # "" =>
         cfg.appPath # cfg.dwdPath /\ ~SameFile(cfg.dwdPath, cfg.appPath)

\* RequireAppOnly, in both transports.
RequireAppOnly ==
    /\ step = "requireApp"
    /\ IF AppOnlyConfigured THEN Continue("requireApp", "distinct") ELSE Exit

\* KeyIdentity reads what JSON there is, a key or not.
HasIdentity(f) == f # Missing /\ f.kind # "text"

SameIdentity(f, g) ==
    \/ f.account # "" /\ f.account = g.account
    \/ f.id # "" /\ f.id = g.id

\* Seeded fault: only the resource server compares.
DistinctOverHttp ==
    cfg.http /\ HasIdentity(at[cfg.appPath]) /\ HasIdentity(at[cfg.dwdPath])
    => ~SameIdentity(at[cfg.appPath], at[cfg.dwdPath])

\* An unreadable key is left to the loaders.
DistinctAccounts ==
    cfg.dwdPath # "" /\ HasIdentity(at[cfg.appPath]) /\ HasIdentity(at[cfg.dwdPath])
    => ~SameIdentity(at[cfg.appPath], at[cfg.dwdPath])

RequireDistinctServiceAccounts ==
    /\ step = "distinct"
    /\ IF DistinctAccounts THEN Continue("distinct", "appKey") ELSE Exit

AfterAppKey == IF cfg.http THEN "bind" ELSE "personal"

\* Seeded fault: a broken application key starts the server without the tier.
LoadAppKeyOrSkip ==
    /\ step = "appKey"
    /\ Goto("appKey", AfterAppKey)
    /\ appKey' = IF IsKey(at[cfg.appPath]) THEN at[cfg.appPath] ELSE Missing
    /\ UNCHANGED <<cfg, at, replaced, dwdKey, tools, last>>

\* buildAppClient: the application tier's own NewDWD.
LoadAppKey ==
    /\ step = "appKey"
    /\ IF IsKey(at[cfg.appPath])
         THEN /\ Goto("appKey", AfterAppKey)
              /\ appKey' = at[cfg.appPath]
              /\ UNCHANGED <<cfg, at, replaced, dwdKey, tools, last>>
         ELSE Exit

\* A tier is registered when it has a client.
Registered(delegated) ==
    HealthTool
    \union (IF appKey # Missing THEN AppTools ELSE {})
    \union (IF delegated THEN DelegatedTools(cfg) ELSE {})

Serve(from, delegated) ==
    /\ Goto(from, "serving")
    /\ tools' = Registered(delegated)
    /\ UNCHANGED <<cfg, at, replaced, dwdKey, appKey, last>>

\* resolveBindAddr.
Bindable ==
    \/ cfg.addr = "loopback"
    \/ cfg.addr = "network" /\ cfg.audience

\* The resource server listens, unless the address is taken.
Bind ==
    /\ step = "bind"
    /\ Exit \/ (Bindable /\ Serve("bind", TRUE))

\* newMCPServer: without credentials the delegated tools are left out.
NewPersonal ==
    /\ step = "personal"
    /\ Serve("personal", cfg.personal)

-----------------------------------------------------------------------------

\* requiredScopes and appScopes: what the token of a tool's client carries.
TokenScopes(t) == IF t \in AppTools THEN AppScopes(cfg) ELSE RequiredScopes(cfg)

GateOpen(t) ==
    CASE t.gate = "none" -> TRUE
      [] t.gate = "writes" -> cfg.writes
      [] t.gate = "sends" -> cfg.sends

HasScope(t) == t.scopes \intersect TokenScopes(t) # {}

\* health calls nobody; a batch needs its admin before it looks at its gate; Google
\* refuses a token without the scope, and what the user may not do.
OutcomesOf(t) ==
    IF t \in HealthTool THEN {"ok"}
    ELSE IF t \in AppBulkTools /\ ~cfg.adminSubject THEN {"error"}
    ELSE IF ~GateOpen(t) THEN {"dryRun"}
    ELSE IF ~HasScope(t) THEN {"noScope"}
    ELSE {"refused", "done"}

Call(t) ==
    /\ step = "serving"
    /\ last = NoCall
    /\ \E o \in OutcomesOf(t) : last' = [tool |-> t, outcome |-> o]
    /\ UNCHANGED <<step, cfg, at, replaced, dwdKey, appKey, tools>>

\* A call leaves nothing behind.
Answer ==
    /\ last # NoCall
    /\ last' = NoCall
    /\ UNCHANGED <<step, cfg, at, replaced, dwdKey, appKey, tools>>

Interrupt == step = "serving" /\ Exit

Replace(p, f) ==
    /\ ~replaced
    /\ step # "off"
    /\ at[p] # f
    /\ at' = [at EXCEPT ![p] = f]
    /\ replaced' = TRUE
    /\ UNCHANGED <<step, cfg, dwdKey, appKey, tools, last>>

Next ==
    \/ \E c \in Configurations : Start(c)
    \/ RequireResourceServer
    \/ Discover
    \/ LoadDwdKey
    \/ RequireAppOnly
    \/ RequireDistinctServiceAccounts
    \/ LoadAppKey
    \/ Bind
    \/ NewPersonal
    \/ \E t \in tools : Call(t)
    \/ Answer
    \/ Interrupt
    \/ \E r \in Replacements : Replace(r[1], r[2])

Spec == Init /\ [][Next]_vars

-----------------------------------------------------------------------------

\* The key of the delegated tier: the one loaded, on stdio the one configured.
OtherKey ==
    CASE dwdKey # Missing -> dwdKey
      [] dwdKey = Missing /\ cfg.dwdPath # "" -> at[cfg.dwdPath]
      [] OTHER -> Missing

\* docs/auth.md: the two tiers never share a credential.  A process that holds the
\* application key is configured with another file, account and key for the
\* resource server, in both transports, if nobody replaced a file while it ran.
TiersAreSeparate ==
    step = "serving" /\ appKey # Missing /\ HasIdentity(OtherKey) /\ ~replaced =>
        /\ appKey.inode # OtherKey.inode
        /\ ~SameIdentity(appKey, OtherKey)

\* A tier that was asked for is there, or the process is not: only the delegated
\* tools of stdio may be missing.
NoTierIsSkipped ==
    step = "serving" =>
        /\ cfg.appOnly => AppTools \subseteq tools
        /\ cfg.http \/ cfg.personal => DelegatedTools(cfg) \subseteq tools

\* The write gate is there twice: where it is closed, Google would refuse the tools
\* behind it, had they no gate.  The vacation tools are the exception.
WriteGateIsInTheScopes ==
    step = "serving" /\ ~cfg.writes =>
        \A t \in tools :
            t.gate = "writes" /\ "gmail.settings.basic" \notin t.scopes => ~HasScope(t)

\* Where writes are on, or sends are off, no enabled tool lacks its scope.
WritersAreScoped ==
    last # NoCall /\ (cfg.writes \/ ~cfg.sends) => last.outcome # "noScope"

\* scopes.go: "requiredScopes returns the OAuth scopes the currently-enabled tools
\* need."
EnabledToolsAreScoped == last # NoCall => last.outcome # "noScope"
=============================================================================
