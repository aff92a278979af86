--------------------------- MODULE ToolCatalogue ---------------------------
(***************************************************************************)
(* The tools the register functions install, and the OAuth scopes that     *)
(* scopes.go requests for them: two lists the code keeps apart.            *)
(*                                                                         *)
(* A tool is a name, the gate of its plan ("none" for a read) and the      *)
(* scopes of which Google wants one.  No code relates a tool to a scope:   *)
(* the comments of scopes.go do, and Google, which is external, also takes *)
(* the writing scope of a service where it takes the reading one.          *)
(***************************************************************************)
ToolsOf(gate, scopes, names) ==
    {[name |-> n, gate |-> gate, scopes |-> scopes] : n \in names}

Reads(scopes, names) == ToolsOf("none", scopes, names)
Writes(scopes, names) == ToolsOf("writes", scopes, names)
Sends(scopes, names) == ToolsOf("sends", scopes, names)

Mail == {"gmail.readonly", "gmail.modify"}
Files == {"drive.readonly", "drive"}
Users == {"directory.user.readonly", "directory.user"}
Groups == {"directory.group.readonly", "directory.group"}
Members == {"directory.group.member.readonly", "directory.group.member"}
TaskLists == {"tasks.readonly", "tasks"}

-----------------------------------------------------------------------------

HealthTool == Reads({}, {"health"})

GmailReadTools ==
    Reads(Mail, {"gmail_get_profile", "gmail_list_labels", "gmail_list_messages",
                 "gmail_get_message"})

GmailWriteTools ==
    Writes({"gmail.modify"}, {"gmail_create_draft", "gmail_modify_labels"})
    \union Sends({"gmail.send", "gmail.modify"}, {"gmail_send", "gmail_reply"})

CalendarReadTools ==
    Reads({"calendar.readonly"}, {"calendar_list_calendars", "calendar_list_events",
                                  "calendar_get_event", "calendar_freebusy"})

CalendarWriteTools ==
    Writes({"calendar.events"}, {"calendar_create_appointment"})
    \union Sends({"calendar.events"},
                 {"calendar_create_event_with_attendees", "calendar_update_event",
                  "calendar_cancel_event", "calendar_respond_to_event"})

DriveReadTools == Reads(Files, {"drive_list_files", "drive_get_file_content"})

DriveWriteTools ==
    Writes({"drive"}, {"drive_upload_file"}) \union Sends({"drive"}, {"drive_share_file"})

DirectoryReadTools ==
    Reads(Users, {"directory_search_users", "directory_get_user"})
    \union Reads(Groups, {"directory_search_groups"})
    \union Reads(Members, {"directory_list_group_members"})
    \union Reads({"directory.rolemanagement.readonly"},
                 {"directory_list_roles", "directory_list_role_assignments"})

GovernanceReadTools ==
    Reads({"reports.audit.readonly"}, {"admin_list_audit_activities"})
    \union Reads({"directory.user.security"}, {"admin_list_connected_apps"})
    \union Reads({"apps.licensing"}, {"admin_list_license_assignments"})

DirectoryWriteTools ==
    Writes({"directory.user"},
           {"directory_create_user", "directory_update_user", "directory_suspend_user"})
    \union Writes({"directory.group"}, {"directory_create_group"})
    \union Writes({"directory.group.member"},
                  {"directory_add_group_member", "directory_remove_group_member"})

GmailSettingsTools ==
    Reads({"gmail.settings.basic"},
          {"gmail_get_vacation", "gmail_list_filters", "gmail_list_send_as"})
    \union Writes({"gmail.settings.basic"}, {"gmail_set_vacation"})

TasksTools ==
    Reads(TaskLists, {"tasks_list_tasklists", "tasks_list"})
    \union Writes({"tasks"}, {"tasks_create", "tasks_complete"})

CollabTools ==
    Reads({"contacts.readonly"}, {"people_search_contacts"})
    \union Reads({"chat.spaces.readonly"}, {"chat_list_spaces"})
    \union Reads({"chat.messages.readonly"}, {"chat_list_messages"})
    \union Sends({"chat.messages.create"}, {"chat_send_message"})
    \union Reads({"meetings.space.readonly"}, {"meet_list_conference_records"})
    \union Reads(Files, {"drive_shared_with_me"})

PowerfulTools == GmailSettingsTools \union TasksTools \union CollabTools

AppUserTools ==
    Reads(Mail, {"app_list_messages", "app_get_message"})
    \union Sends({"gmail.send"}, {"app_send_mail"})
    \union Reads({"calendar.readonly"}, {"app_list_events"})
    \union Reads(Files, {"app_list_files"})
    \union Writes({"gmail.settings.basic"}, {"app_set_vacation"})

AppBulkTools ==
    Writes({"directory.user"}, {"app_bulk_user_suspend"})
    \union Writes({"directory.group.member"}, {"app_bulk_group_add_members"})

AppTools == AppUserTools \union AppBulkTools

\* registerTools: the same in both transports.
DelegatedTools(cfg) ==
    GmailReadTools \union CalendarReadTools \union DriveReadTools
    \union GmailWriteTools \union CalendarWriteTools \union DriveWriteTools
    \union (IF cfg.admin
              THEN DirectoryReadTools \union GovernanceReadTools \union DirectoryWriteTools
              ELSE {})
    \union (IF cfg.powerful THEN PowerfulTools ELSE {})

AllTools ==
    HealthTool \union AppTools \union DelegatedTools([admin |-> TRUE, powerful |-> TRUE])

-----------------------------------------------------------------------------

If(condition, scopes) == IF condition THEN scopes ELSE {}

AdminScopes(cfg) ==
    {"directory.user.readonly", "directory.group.readonly",
     "directory.group.member.readonly", "directory.rolemanagement.readonly",
     "reports.audit.readonly", "directory.user.security", "apps.licensing"}
    \union If(cfg.writes, {"directory.user", "directory.group", "directory.group.member"})

\* Seeded fault: the scope that sends chat messages is left out.
PowerfulScopesNoChat(cfg) ==
    {"gmail.settings.basic", "tasks.readonly", "contacts.readonly",
     "chat.spaces.readonly", "chat.messages.readonly", "meetings.space.readonly"}
    \union If(cfg.writes, {"tasks"})

PowerfulScopes(cfg) ==
    {"gmail.settings.basic", "tasks.readonly", "contacts.readonly",
     "chat.spaces.readonly", "chat.messages.readonly", "meetings.space.readonly"}
    \union If(cfg.writes, {"tasks"})
    \union If(cfg.sends, {"chat.messages.create"})

RequiredScopes(cfg) ==
    {"gmail.readonly", "calendar.readonly", "drive.readonly"}
    \union If(cfg.writes, {"gmail.modify", "calendar.events", "drive"})
    \union If(cfg.sends, {"gmail.send"})
    \union If(cfg.admin, AdminScopes(cfg))
    \union If(cfg.powerful, PowerfulScopes(cfg))

\* Seeded fault: the directory scopes are requested whatever the gate.
AppScopesUngated(cfg) ==
    {"gmail.readonly", "gmail.settings.basic", "calendar.readonly", "drive.readonly",
     "directory.user", "directory.group.member"}
    \union If(cfg.sends, {"gmail.send"})

AppScopes(cfg) ==
    {"gmail.readonly", "gmail.settings.basic", "calendar.readonly", "drive.readonly"}
    \union If(cfg.writes, {"directory.user", "directory.group.member"})
    \union If(cfg.sends, {"gmail.send"})
=============================================================================
