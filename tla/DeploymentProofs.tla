-------------------------- MODULE DeploymentProofs --------------------------
(***************************************************************************)
(* Proofs about Deployment, for every set of configurations, key files and *)
(* replacements: the tiers that come up are separate, none that was asked  *)
(* for is left out, and the scopes of a deployment fit its tools.          *)
(*                                                                         *)
(* A check and the load it protects are separate steps, so the invariant   *)
(* carries the outcome of each check to the load, and from the load to the *)
(* running process, for as long as no file is replaced.                    *)
(***************************************************************************)
EXTENDS Deployment, TLAPS

\* What a startup step relies on: the keys loaded so far, and where it is.
Progress ==
    /\ step \in Steps
    /\ step # "off" => cfg \in Configurations
    /\ step \in {"off", "require", "discover", "dwdKey"} => dwdKey = Missing
    /\ step \in {"off", "require", "discover", "dwdKey", "requireApp", "distinct",
                 "appKey"} => appKey = Missing
    /\ step # "serving" => last = NoCall
    /\ step \in {"discover", "dwdKey"} => cfg.dwdPath # ""
    /\ step \in {"distinct", "appKey"} => cfg.appPath # ""
    /\ step \in {"require", "discover", "dwdKey", "bind"} => cfg.http
    /\ step = "personal" => ~cfg.http

\* A loaded key is what its path leads to.
KeysAreOnDisk ==
    ~replaced =>
        /\ dwdKey # Missing => cfg.dwdPath # "" /\ dwdKey = at[cfg.dwdPath]
        /\ appKey # Missing => IsKey(appKey) /\ appKey = at[cfg.appPath]

\* The checks hold until the key they protect is loaded, and after that.
ChecksHold ==
    ~replaced =>
        /\ step = "distinct" => AppOnlyConfigured
        /\ step = "appKey" \/ appKey # Missing => AppOnlyConfigured /\ DistinctAccounts

\* The requested application tier has its key, and the tools are those of the tiers.
TiersAreComplete ==
    /\ step \in {"bind", "personal", "serving"} /\ cfg.appOnly => appKey # Missing
    /\ step = "serving" => tools = Registered(cfg.http \/ cfg.personal)

\* The inductive invariant.
IInv == Progress /\ KeysAreOnDisk /\ ChecksHold /\ TiersAreComplete

LEMMA InitIInv == Init => IInv
BY DEF Init, IInv, Progress, KeysAreOnDisk, ChecksHold, TiersAreComplete, Steps

\* A process that ends holds nothing.
LEMMA ExitKeepsIInv == IInv /\ Exit => IInv'
BY DEF Exit, IInv, Progress, KeysAreOnDisk, ChecksHold, TiersAreComplete, Steps

LEMMA NextIInv == IInv /\ [Next]_vars => IInv'
<1> SUFFICES ASSUME IInv, [Next]_vars PROVE IInv'
  OBVIOUS
<1> USE DEF IInv, Progress, KeysAreOnDisk, ChecksHold, TiersAreComplete, Steps
<1>1. ASSUME NEW c \in Configurations, Start(c) PROVE IInv'
  BY <1>1 DEF Start, Goto, AfterDelegatedKey
<1>2. CASE RequireResourceServer
  BY <1>2, ExitKeepsIInv
     DEF RequireResourceServer, ResourceServerConfigured, Continue, Goto,
         AppOnlyConfigured, DistinctAccounts, SameFile, Registered
<1>3. CASE Discover
  BY <1>3, ExitKeepsIInv DEF Discover, Continue, Goto
<1>4. CASE LoadDwdKey
  BY <1>4, ExitKeepsIInv DEF LoadDwdKey, AfterDelegatedKey, Goto
<1>5. CASE RequireAppOnly
  BY <1>5, ExitKeepsIInv DEF RequireAppOnly, Continue, Goto, AppOnlyConfigured, SameFile
<1>6. CASE RequireDistinctServiceAccounts
  BY <1>6, ExitKeepsIInv
     DEF RequireDistinctServiceAccounts, Continue, Goto, AppOnlyConfigured, SameFile,
         DistinctAccounts
<1>7. CASE LoadAppKey
  <2>1. CASE IsKey(at[cfg.appPath])
    BY <1>7, <2>1 DEF LoadAppKey, AfterAppKey, Goto, AppOnlyConfigured, SameFile,
                      DistinctAccounts, IsKey
  <2>2. CASE ~IsKey(at[cfg.appPath])
    BY <1>7, <2>2, ExitKeepsIInv DEF LoadAppKey
  <2> QED BY <2>1, <2>2
<1>8. CASE Bind
  <2>1. CASE Serve("bind", TRUE)
    BY <2>1 DEF Serve, Goto, AppOnlyConfigured, SameFile, DistinctAccounts, Registered
  <2> QED BY <1>8, <2>1, ExitKeepsIInv DEF Bind
<1>9. CASE NewPersonal
  BY <1>9 DEF NewPersonal, Serve, Goto, AppOnlyConfigured, SameFile, DistinctAccounts,
              Registered
<1>10. ASSUME NEW t \in tools, Call(t) PROVE IInv'
  BY <1>10 DEF Call, AppOnlyConfigured, SameFile, DistinctAccounts, Registered
<1>11. CASE Answer
  BY <1>11 DEF Answer, AppOnlyConfigured, SameFile, DistinctAccounts, Registered
<1>12. CASE Interrupt
  BY <1>12, ExitKeepsIInv DEF Interrupt
<1>13. ASSUME NEW r \in Replacements, Replace(r[1], r[2]) PROVE IInv'
  BY <1>13 DEF Replace, Registered
<1>14. CASE UNCHANGED vars
  <2>1. Progress' /\ KeysAreOnDisk'
    BY <1>14 DEF vars
  <2>2. ChecksHold'
    BY <1>14 DEF vars, AppOnlyConfigured, SameFile, DistinctAccounts
  <2>3. TiersAreComplete'
    BY <1>14 DEF vars, Registered
  <2> QED BY <2>1, <2>2, <2>3 DEF IInv
<1> QED
  BY <1>1, <1>2, <1>3, <1>4, <1>5, <1>6, <1>7, <1>8, <1>9, <1>10, <1>11, <1>12, <1>13,
     <1>14 DEF Next

LEMMA InvariantHolds == Spec => []IInv
BY InitIInv, NextIInv, PTL DEF Spec

\* The tools of a configuration are among all tools.
LEMMA DelegatedToolsAreTools == \A c : DelegatedTools(c) \subseteq AllTools
BY DEF DelegatedTools, AllTools

LEMMA RegisteredAreTools == \A d : Registered(d) \subseteq AllTools
BY DelegatedToolsAreTools DEF Registered, AllTools

LEMMA NoConfigIsNone == NoConfig \notin Configurations
BY ConfigurationsAssumption DEF NoConfig, Configuration

\* Every variable of a deployment keeps its type, and a process without a
\* configuration is no process.
THEOREM TypeCorrect == Spec => []TypeOK
<1> USE DEF TypeOK, Steps, Outcomes
<1>1. Init => TypeOK
  <2>1. Init => at \in [Paths -> File \union {Missing}]
    BY FilesAssumption DEF Init, Paths
  <2> QED BY <2>1 DEF Init
<1>2. TypeOK /\ IInv /\ [Next]_vars => TypeOK'
  <2> SUFFICES ASSUME TypeOK, IInv, [Next]_vars PROVE TypeOK'
    OBVIOUS
  <2>0. Exit => TypeOK'
    BY DEF Exit
  <2>1. ASSUME NEW c \in Configurations, Start(c) PROVE TypeOK'
    BY <2>1, NoConfigIsNone DEF Start, Goto, AfterDelegatedKey
  <2>2. CASE RequireResourceServer
    BY <2>2, <2>0 DEF RequireResourceServer, Continue, Goto
  <2>3. CASE Discover
    BY <2>3, <2>0 DEF Discover, Continue, Goto
  <2>4. CASE LoadDwdKey
    <3>1. CASE ~IsKey(at[cfg.dwdPath])
      BY <2>4, <3>1, <2>0 DEF LoadDwdKey
    <3>2. CASE IsKey(at[cfg.dwdPath])
      <4>1. cfg \in Configuration /\ cfg.dwdPath \in Paths
        BY <2>4, ConfigurationsAssumption DEF LoadDwdKey, IInv, Progress, Configuration
      <4> QED BY <2>4, <3>2, <4>1 DEF LoadDwdKey, Goto, AfterDelegatedKey
    <3> QED BY <3>1, <3>2
  <2>5. CASE RequireAppOnly
    BY <2>5, <2>0 DEF RequireAppOnly, Continue, Goto
  <2>6. CASE RequireDistinctServiceAccounts
    BY <2>6, <2>0 DEF RequireDistinctServiceAccounts, Continue, Goto
  <2>7. CASE LoadAppKey
    <3>1. CASE ~IsKey(at[cfg.appPath])
      BY <2>7, <3>1, <2>0 DEF LoadAppKey
    <3>2. CASE IsKey(at[cfg.appPath])
      <4>1. cfg \in Configuration /\ cfg.appPath \in Paths
        BY <2>7, ConfigurationsAssumption DEF LoadAppKey, IInv, Progress, Configuration
      <4> QED BY <2>7, <3>2, <4>1 DEF LoadAppKey, Goto, AfterAppKey
    <3> QED BY <3>1, <3>2
  <2>8. CASE Bind
    BY <2>8, <2>0, RegisteredAreTools DEF Bind, Serve, Goto, IInv, Progress
  <2>9. CASE NewPersonal
    BY <2>9, RegisteredAreTools DEF NewPersonal, Serve, Goto, IInv, Progress
  <2>10. ASSUME NEW t \in tools, Call(t) PROVE TypeOK'
    BY <2>10 DEF Call, OutcomesOf
  <2>11. CASE Answer
    BY <2>11 DEF Answer
  <2>12. CASE Interrupt
    BY <2>12, <2>0 DEF Interrupt
  <2>13. ASSUME NEW r \in Replacements, Replace(r[1], r[2]) PROVE TypeOK'
    BY <2>13, FilesAssumption DEF Replace
  <2>14. CASE UNCHANGED vars
    BY <2>14 DEF vars
  <2> QED
    BY <2>1, <2>2, <2>3, <2>4, <2>5, <2>6, <2>7, <2>8, <2>9, <2>10, <2>11, <2>12, <2>13,
       <2>14 DEF Next
<1> QED BY <1>1, <1>2, InvariantHolds, PTL DEF Spec

\* requireDistinctServiceAccounts and RequireAppOnly do what they are for, for every
\* pair of key files and in both transports: a process that holds the application key
\* is configured with another file, account and key for the resource server.
THEOREM SeparateTiers == Spec => []TiersAreSeparate
<1>1. IInv => TiersAreSeparate
  <2> SUFFICES ASSUME IInv, step = "serving", appKey # Missing, HasIdentity(OtherKey),
                      ~replaced
               PROVE  appKey.inode # OtherKey.inode /\ ~SameIdentity(appKey, OtherKey)
    BY DEF TiersAreSeparate
  <2>1. cfg.dwdPath # "" /\ OtherKey = at[cfg.dwdPath] /\ OtherKey # Missing
    BY DEF IInv, KeysAreOnDisk, OtherKey, HasIdentity
  <2>2. appKey = at[cfg.appPath] /\ HasIdentity(appKey)
    BY DEF IInv, KeysAreOnDisk, IsKey, HasIdentity
  <2>3. AppOnlyConfigured /\ DistinctAccounts
    BY DEF IInv, ChecksHold
  <2>4. appKey.inode # OtherKey.inode
    BY <2>1, <2>2, <2>3 DEF AppOnlyConfigured, SameFile
  <2>5. ~SameIdentity(appKey, OtherKey)
    BY <2>1, <2>2, <2>3 DEF DistinctAccounts
  <2> QED BY <2>4, <2>5
<1> QED BY <1>1, InvariantHolds, PTL

\* newMCPServer and serveHTTP: a tier that was asked for is served, or nothing is.
THEOREM CompleteTiers == Spec => []NoTierIsSkipped
<1>1. IInv => NoTierIsSkipped
  BY DEF IInv, TiersAreComplete, NoTierIsSkipped, Registered
<1> QED BY <1>1, InvariantHolds, PTL

-----------------------------------------------------------------------------
(* The two lists the code keeps apart: the tools that are registered, and  *)
(* the scopes that are requested.                                          *)

LEMMA Shapes ==
    \A scopes, names, t :
        /\ t \in Reads(scopes, names) =>
             t.gate = "none" /\ t.scopes = scopes /\ t.name \in names
        /\ t \in Writes(scopes, names) =>
             t.gate = "writes" /\ t.scopes = scopes /\ t.name \in names
        /\ t \in Sends(scopes, names) =>
             t.gate = "sends" /\ t.scopes = scopes /\ t.name \in names
BY DEF Reads, Writes, Sends, ToolsOf

\* An application tool and a delegated one never go by the same name, so the scopes
\* of a registered tool are those of its own tier.
AppNames == {"app_list_messages", "app_get_message", "app_send_mail", "app_list_events",
             "app_list_files", "app_set_vacation", "app_bulk_user_suspend",
             "app_bulk_group_add_members"}

LEMMA AppToolsAreNamed == \A t \in AppTools : t.name \in AppNames
BY Shapes DEF AppTools, AppUserTools, AppBulkTools, AppNames

LEMMA DelegatedToolsAreNamed ==
    ASSUME NEW c, NEW t \in DelegatedTools(c)
    PROVE  t.name \notin AppNames
<1> USE Shapes DEF AppNames
<1>1. \A u \in GmailReadTools \union CalendarReadTools \union DriveReadTools :
        u.name \notin AppNames
  BY DEF GmailReadTools, CalendarReadTools, DriveReadTools
<1>2. \A u \in GmailWriteTools \union CalendarWriteTools \union DriveWriteTools :
        u.name \notin AppNames
  BY DEF GmailWriteTools, CalendarWriteTools, DriveWriteTools
<1>3. \A u \in DirectoryReadTools \union GovernanceReadTools \union DirectoryWriteTools :
        u.name \notin AppNames
  BY DEF DirectoryReadTools, GovernanceReadTools, DirectoryWriteTools
<1>4. \A u \in PowerfulTools : u.name \notin AppNames
  BY DEF PowerfulTools, GmailSettingsTools, TasksTools, CollabTools
<1> QED BY <1>1, <1>2, <1>3, <1>4 DEF DelegatedTools

-----------------------------------------------------------------------------
(* Where the write gate is closed. *)

WritingScopes == {"gmail.modify", "calendar.events", "drive", "directory.user",
                  "directory.group", "directory.group.member", "tasks"}

LEMMA WritingScopesAreGated ==
    ASSUME NEW c, c.writes = FALSE
    PROVE  /\ WritingScopes \intersect RequiredScopes(c) = {}
           /\ WritingScopes \intersect AppScopes(c) = {}
BY DEF WritingScopes, RequiredScopes, AppScopes, AdminScopes, PowerfulScopes, If

\* A tool behind the write gate needs a scope that is requested for writing alone,
\* or it is one of the vacation tools.
WriterByScope(t) ==
    t.gate = "writes" =>
        t.scopes \subseteq WritingScopes \/ "gmail.settings.basic" \in t.scopes

LEMMA WritersAreWriters == \A t \in AllTools : WriterByScope(t)
<1> USE Shapes DEF WriterByScope, WritingScopes
<1>1. \A t \in HealthTool \union AppTools : WriterByScope(t)
  BY DEF HealthTool, AppTools, AppUserTools, AppBulkTools
<1>2. \A t \in GmailReadTools \union CalendarReadTools \union DriveReadTools :
        WriterByScope(t)
  BY DEF GmailReadTools, CalendarReadTools, DriveReadTools
<1>3. \A t \in GmailWriteTools \union CalendarWriteTools \union DriveWriteTools :
        WriterByScope(t)
  BY DEF GmailWriteTools, CalendarWriteTools, DriveWriteTools
<1>4. \A t \in DirectoryReadTools \union GovernanceReadTools \union DirectoryWriteTools :
        WriterByScope(t)
  BY DEF DirectoryReadTools, GovernanceReadTools, DirectoryWriteTools
<1>5. \A t \in PowerfulTools : WriterByScope(t)
  BY DEF PowerfulTools, GmailSettingsTools, TasksTools, CollabTools
<1> QED BY <1>1, <1>2, <1>3, <1>4, <1>5 DEF AllTools, DelegatedTools

\* scopes.go and the gates agree where writes are off: whatever tools a deployment
\* registers, Google would refuse the ones behind the closed gate, had they no gate.
THEOREM GateIsInTheScopes == Spec => []WriteGateIsInTheScopes
<1>1. IInv => WriteGateIsInTheScopes
  <2> SUFFICES ASSUME IInv, step = "serving", ~cfg.writes, NEW t \in tools,
                      t.gate = "writes", "gmail.settings.basic" \notin t.scopes
               PROVE  ~HasScope(t)
    BY DEF WriteGateIsInTheScopes
  <2>1. t \in AllTools
    BY RegisteredAreTools DEF IInv, TiersAreComplete
  <2>2. t.scopes \subseteq WritingScopes
    BY <2>1, WritersAreWriters DEF WriterByScope
  <2>3. cfg.writes = FALSE
    BY ConfigurationsAssumption DEF IInv, Progress, Configuration
  <2>4. WritingScopes \intersect TokenScopes(t) = {}
    BY <2>3, WritingScopesAreGated DEF TokenScopes
  <2> QED BY <2>2, <2>4 DEF HasScope
<1> QED BY <1>1, InvariantHolds, PTL

-----------------------------------------------------------------------------
(* Where writes are on, or sends are off. *)

LEMMA AppScopesRequested ==
    ASSUME NEW c \in Configuration
    PROVE  /\ {"gmail.readonly", "gmail.settings.basic", "calendar.readonly",
               "drive.readonly"} \subseteq AppScopes(c)
           /\ c.writes => {"directory.user", "directory.group.member"} \subseteq AppScopes(c)
           /\ c.sends => "gmail.send" \in AppScopes(c)
BY DEF AppScopes, If, Configuration

LEMMA RequiredScopesRequested ==
    ASSUME NEW c \in Configuration
    PROVE  /\ {"gmail.readonly", "calendar.readonly", "drive.readonly"}
                \subseteq RequiredScopes(c)
           /\ c.writes => {"gmail.modify", "calendar.events", "drive"}
                            \subseteq RequiredScopes(c)
           /\ c.admin => AdminScopes(c) \subseteq RequiredScopes(c)
           /\ c.powerful => PowerfulScopes(c) \subseteq RequiredScopes(c)
BY DEF RequiredScopes, If, Configuration

LEMMA AdminScopesRequested ==
    ASSUME NEW c \in Configuration
    PROVE  /\ {"directory.user.readonly", "directory.group.readonly",
               "directory.group.member.readonly", "directory.rolemanagement.readonly",
               "reports.audit.readonly", "directory.user.security", "apps.licensing"}
                \subseteq AdminScopes(c)
           /\ c.writes => {"directory.user", "directory.group", "directory.group.member"}
                            \subseteq AdminScopes(c)
BY DEF AdminScopes, If, Configuration

LEMMA PowerfulScopesRequested ==
    ASSUME NEW c \in Configuration
    PROVE  /\ {"gmail.settings.basic", "tasks.readonly", "contacts.readonly",
               "chat.spaces.readonly", "chat.messages.readonly", "meetings.space.readonly"}
                \subseteq PowerfulScopes(c)
           /\ c.writes => "tasks" \in PowerfulScopes(c)
           /\ c.sends => "chat.messages.create" \in PowerfulScopes(c)
BY DEF PowerfulScopes, If, Configuration

\* The gate of a tool, as GateOpen has it for the running configuration.
Open(c, t) ==
    \/ t.gate = "none"
    \/ t.gate = "writes" /\ c.writes
    \/ t.gate = "sends" /\ c.sends

Scoped(c, t, requested) ==
    /\ t.gate \in {"none", "writes", "sends"}
    /\ Open(c, t) => \E s \in t.scopes : s \in requested

LEMMA AppToolsAreScoped ==
    ASSUME NEW c \in Configuration, c.writes \/ ~c.sends, NEW t \in AppTools
    PROVE  Scoped(c, t, AppScopes(c))
<1> USE Shapes, AppScopesRequested DEF Scoped, Open
<1>1. CASE t \in AppUserTools
  BY <1>1 DEF AppUserTools, Mail, Files
<1>2. CASE t \in AppBulkTools
  BY <1>2 DEF AppBulkTools
<1> QED BY <1>1, <1>2 DEF AppTools

LEMMA DelegatedToolsAreScoped ==
    ASSUME NEW c \in Configuration, c.writes \/ ~c.sends, NEW t \in DelegatedTools(c)
    PROVE  Scoped(c, t, RequiredScopes(c))
<1> USE Shapes, RequiredScopesRequested DEF Scoped, Open
<1>1. CASE t \in GmailReadTools \union CalendarReadTools \union DriveReadTools
  BY <1>1 DEF GmailReadTools, CalendarReadTools, DriveReadTools, Mail, Files
<1>2. CASE t \in GmailWriteTools \union CalendarWriteTools \union DriveWriteTools
  BY <1>2 DEF GmailWriteTools, CalendarWriteTools, DriveWriteTools
<1>3. CASE c.admin /\ t \in DirectoryReadTools
  BY <1>3, AdminScopesRequested DEF DirectoryReadTools, Users, Groups, Members
<1>4. CASE c.admin /\ t \in GovernanceReadTools
  BY <1>4, AdminScopesRequested DEF GovernanceReadTools
<1>5. CASE c.admin /\ t \in DirectoryWriteTools
  BY <1>5, AdminScopesRequested DEF DirectoryWriteTools
<1>6. CASE c.powerful /\ t \in GmailSettingsTools \union TasksTools
  BY <1>6, PowerfulScopesRequested DEF GmailSettingsTools, TasksTools, TaskLists
<1>7. CASE c.powerful /\ t \in CollabTools
  BY <1>7, PowerfulScopesRequested DEF CollabTools, Files
<1> QED
  BY <1>1, <1>2, <1>3, <1>4, <1>5, <1>6, <1>7 DEF DelegatedTools, PowerfulTools

\* The answer a call is given is one its tool gives in this deployment.
AnswerFits ==
    last # NoCall =>
        /\ step = "serving"
        /\ last.tool \in tools
        /\ last.outcome \in OutcomesOf(last.tool)

LEMMA NextAnswerFits == IInv /\ AnswerFits /\ [Next]_vars => AnswerFits'
<1> SUFFICES ASSUME IInv, AnswerFits, [Next]_vars PROVE AnswerFits'
  OBVIOUS
<1>1. CASE last' = NoCall
  BY <1>1 DEF AnswerFits
<1>2. CASE UNCHANGED <<step, cfg, tools, last>>
  BY <1>2 DEF AnswerFits, OutcomesOf, GateOpen, HasScope, TokenScopes
<1>3. ASSUME NEW t \in tools, Call(t) PROVE AnswerFits'
  <2>1. PICK o \in OutcomesOf(t) : last' = [tool |-> t, outcome |-> o]
    BY <1>3 DEF Call
  <2>2. step = "serving" /\ UNCHANGED <<step, cfg, tools>>
    BY <1>3 DEF Call
  <2>3. OutcomesOf(t)' = OutcomesOf(t)
    BY <2>2 DEF OutcomesOf, GateOpen, HasScope, TokenScopes
  <2> QED BY <2>1, <2>2, <2>3 DEF AnswerFits
<1>4. Exit => last' = NoCall
  BY DEF Exit
<1>5. step # "serving" /\ UNCHANGED last => last' = NoCall
  BY DEF IInv, Progress
<1>6. ASSUME \/ \E c \in Configurations : Start(c)
             \/ RequireResourceServer \/ Discover \/ LoadDwdKey \/ RequireAppOnly
             \/ RequireDistinctServiceAccounts \/ LoadAppKey \/ Bind \/ NewPersonal
      PROVE  step # "serving" /\ (Exit \/ UNCHANGED last)
  BY <1>6 DEF Start, RequireResourceServer, Discover, LoadDwdKey, RequireAppOnly,
              RequireDistinctServiceAccounts, LoadAppKey, Bind, NewPersonal, Serve,
              Continue, Goto
<1>7. ASSUME \/ \E r \in Replacements : Replace(r[1], r[2])
             \/ UNCHANGED vars
      PROVE  UNCHANGED <<step, cfg, tools, last>>
  BY <1>7 DEF Replace, vars
<1>8. Answer \/ Interrupt => last' = NoCall
  BY <1>4 DEF Answer, Interrupt
<1> QED BY <1>1, <1>2, <1>3, <1>4, <1>5, <1>6, <1>7, <1>8 DEF Next

LEMMA NoScopeMeans ==
    ASSUME NEW t, "noScope" \in OutcomesOf(t)
    PROVE  t \notin HealthTool /\ GateOpen(t) /\ ~HasScope(t)
BY DEF OutcomesOf

\* requiredScopes and appScopes cover what is registered: where writes are on, or
\* sends are off, no call of a tool whose gate is open is refused for its scope.
THEOREM ScopedWriters == Spec => []WritersAreScoped
<1>1. IInv /\ AnswerFits => WritersAreScoped
  <2> SUFFICES ASSUME IInv, AnswerFits, last # NoCall, cfg.writes \/ ~cfg.sends,
                      last.outcome = "noScope"
               PROVE  FALSE
    BY DEF WritersAreScoped
  <2> DEFINE t == last.tool
  <2>1. step = "serving" /\ t \in tools /\ "noScope" \in OutcomesOf(t)
    BY DEF AnswerFits
  <2>2. t \notin HealthTool /\ GateOpen(t) /\ ~HasScope(t)
    BY <2>1, NoScopeMeans
  <2>3. cfg \in Configuration
    BY <2>1, ConfigurationsAssumption DEF IInv, Progress
  <2>4. t \in AppTools \/ t \in DelegatedTools(cfg)
    BY <2>1, <2>2 DEF IInv, TiersAreComplete, Registered
  <2> HIDE DEF t
  <2>5. Scoped(cfg, t, TokenScopes(t))
    <3>1. CASE t \in AppTools
      BY <3>1, <2>3, AppToolsAreScoped DEF TokenScopes
    <3>2. CASE t \in DelegatedTools(cfg)
      BY <3>2, <2>3, DelegatedToolsAreScoped, AppToolsAreNamed, DelegatedToolsAreNamed
      DEF TokenScopes
    <3> QED BY <2>4, <3>1, <3>2
  <2>6. Open(cfg, t)
    BY <2>2, <2>5 DEF GateOpen, Scoped, Open
  <2> QED BY <2>2, <2>5, <2>6 DEF Scoped, HasScope
<1>2. Init => AnswerFits
  BY DEF Init, AnswerFits
<1> QED BY <1>1, <1>2, NextAnswerFits, InvariantHolds, PTL DEF Spec
=============================================================================
