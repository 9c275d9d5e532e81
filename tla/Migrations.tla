----------------------------- MODULE Migrations -----------------------------
(***************************************************************************)
(* The schema revisions of migrations/versions, 0001 to 0043: what each    *)
(* upgrade() and downgrade() does to a PostgreSQL database, in the order   *)
(* it does it.  A revision is a pair of sequences of statements; a         *)
(* database is its tables, the foreign keys between them, the columns that *)
(* some revision adds to a table that is there already, the CHECK sets     *)
(* that some revision changes, and the rows whose values those sets and    *)
(* the data statements look at.                                            *)
(*                                                                         *)
(* A table is created with its columns, checks and indexes and they go     *)
(* with it: only its foreign keys are kept apart, because they decide what *)
(* may be dropped.  A column added with a default or filled for every row  *)
(* can be required; indexes on existing columns are left out.              *)
(***************************************************************************)
EXTENDS Integers, Sequences, FiniteSets, SequencesExt

CONSTANT RowIds      \* the rows followed: assignments, channels, organizations

NoRow == [t |-> "none", val |-> "none", open |-> FALSE, legacy |-> FALSE]

-----------------------------------------------------------------------------
(* Statements *)

Create(t, refs) == [op |-> "create", t |-> t, refs |-> refs]
Drop(t) == [op |-> "drop", t |-> t]
DropAll(ts) == [i \in 1 .. Len(ts) |-> Drop(ts[i])]

\* A nullable column; one with a server default, which existing rows take;
\* ALTER COLUMN ... SET NOT NULL; the UPDATE that fills a column.
Add(t, c) == [op |-> "add", t |-> t, c |-> c, default |-> "none"]
AddColumns(t, cs) == [i \in 1 .. Len(cs) |-> Add(t, cs[i])]
AddDefault(t, c, d) == [op |-> "add", t |-> t, c |-> c, default |-> d]
DropColumn(t, c) == [op |-> "remove", t |-> t, c |-> c]
DropColumns(t, cs) == [i \in 1 .. Len(cs) |-> DropColumn(t, cs[i])]
Fill(t, c) == [op |-> "fill", t |-> t, c |-> c]
Require(t, c) == [op |-> "require", t |-> t, c |-> c]
Optional(t, c) == [op |-> "optional", t |-> t, c |-> c]

\* FOREIGN KEY, UNIQUE and CHECK constraints on a table that is there.
Refer(t, c, to) == [op |-> "refer", t |-> t, c |-> c, to |-> to]
Unrefer(t, c, to) == [op |-> "unrefer", t |-> t, c |-> c, to |-> to]
Constrain(t, name) == [op |-> "constrain", t |-> t, name |-> name]
Release(t, name) == [op |-> "release", t |-> t, name |-> name]
Allow(t, values) == [op |-> "allow", t |-> t, values |-> values]
Disallow(t) == [op |-> "disallow", t |-> t]

\* alembic_version.version_num becomes VARCHAR(128); alembic makes it 32 wide.
Widen == [op |-> "widen"]

\* Data statements: UPDATE one value to another, DELETE by value, cancel open
\* work of the given kinds (of any age, or created before the cutoff).
Convert(t, from, to) == [op |-> "convert", t |-> t, from |-> from, to |-> to]
Delete(t, val) == [op |-> "delete", t |-> t, val |-> val]
Cancel(kinds, legacyOnly) ==
    [op |-> "cancel", t |-> "task_assignments", kinds |-> kinds, legacyOnly |-> legacyOnly]

-----------------------------------------------------------------------------
(* What PostgreSQL does with a statement, and when it refuses it. *)

RowsOf(db, t) == {i \in RowIds : db.rows[i].t = t}

\* The value of a row that a checked column holds: of an assignment its kind,
\* of a wake channel its type.
CheckedColumn(t) ==
    CASE t = "task_assignments" -> "assignment_kind"
      [] t = "agent_wake_channels" -> "channel_type"
      [] OTHER -> "none"

\* A notification channel has no connector.
Unfilled(db, t, c) ==
    IF t = "agent_wake_channels" /\ c = "connector_instance_id"
        THEN \E i \in RowsOf(db, t) : db.rows[i].val = "feishu_notification_webhook"
        ELSE <<t, c>> \notin db.filled

Accepted(db, s) ==
    CASE s.op = "create" -> /\ s.t \notin db.tables
                            /\ s.refs \subseteq db.tables \cup {s.t}
      [] s.op = "drop" -> /\ s.t \in db.tables
                          /\ ~ \E r \in db.refs : r[3] = s.t /\ r[1] # s.t
      [] s.op = "add" -> s.t \in db.tables /\ <<s.t, s.c>> \notin db.columns
      [] s.op \in {"remove", "fill"} -> <<s.t, s.c>> \in db.columns
      [] s.op = "require" -> <<s.t, s.c>> \in db.nullable /\ ~ Unfilled(db, s.t, s.c)
      [] s.op = "refer" -> {s.t, s.to} \subseteq db.tables
      [] s.op = "unrefer" -> <<s.t, s.c, s.to>> \in db.refs
      [] s.op = "constrain" -> s.t \in db.tables /\ <<s.t, s.name>> \notin db.constraints
      [] s.op = "release" -> <<s.t, s.name>> \in db.constraints
      [] s.op = "allow" -> \A i \in RowsOf(db, s.t) : db.rows[i].val \in s.values
      [] s.op = "disallow" -> \E a \in db.allowed : a[1] = s.t
      [] s.op = "widen" -> TRUE
      [] OTHER -> s.t \in db.tables

\* The rows of table t become change(row), the others stay.
Rewritten(db, t, change(_)) ==
    [i \in RowIds |-> LET row == db.rows[i] IN IF row.t = t THEN change(row) ELSE row]

\* A column that goes takes what was stored in it and its foreign key with it.
Effect(db, s) ==
    CASE s.op = "create" ->
            [db EXCEPT !.tables = @ \cup {s.t},
                       !.refs = @ \cup {<<s.t, "own", r>> : r \in s.refs}]
      [] s.op = "drop" ->
            [db EXCEPT !.tables = @ \ {s.t},
                       !.refs = {r \in @ : r[1] # s.t},
                       !.columns = {c \in @ : c[1] # s.t},
                       !.filled = {c \in @ : c[1] # s.t},
                       !.nullable = {c \in @ : c[1] # s.t},
                       !.constraints = {c \in @ : c[1] # s.t},
                       !.allowed = {a \in @ : a[1] # s.t},
                       !.rows = Rewritten(db, s.t, LAMBDA row : NoRow)]
      [] s.op = "add" ->
            [db EXCEPT !.columns = @ \cup {<<s.t, s.c>>},
                       !.nullable = IF s.default = "none" THEN @ \cup {<<s.t, s.c>>} ELSE @,
                       !.rows = IF s.c = CheckedColumn(s.t)
                                    THEN Rewritten(db, s.t, LAMBDA row : [row EXCEPT !.val = s.default])
                                    ELSE @]
      [] s.op = "remove" ->
            [db EXCEPT !.columns = @ \ {<<s.t, s.c>>},
                       !.filled = @ \ {<<s.t, s.c>>},
                       !.nullable = @ \ {<<s.t, s.c>>},
                       !.refs = {r \in @ : r[1] # s.t \/ r[2] # s.c},
                       !.rows = IF s.c = CheckedColumn(s.t)
                                    THEN Rewritten(db, s.t, LAMBDA row : [row EXCEPT !.val = "none"])
                                    ELSE @]
      [] s.op = "fill" -> [db EXCEPT !.filled = @ \cup {<<s.t, s.c>>}]
      [] s.op = "require" -> [db EXCEPT !.nullable = @ \ {<<s.t, s.c>>}]
      [] s.op = "optional" -> [db EXCEPT !.nullable = @ \cup {<<s.t, s.c>>}]
      [] s.op = "refer" -> [db EXCEPT !.refs = @ \cup {<<s.t, s.c, s.to>>}]
      [] s.op = "unrefer" -> [db EXCEPT !.refs = @ \ {<<s.t, s.c, s.to>>}]
      [] s.op = "constrain" -> [db EXCEPT !.constraints = @ \cup {<<s.t, s.name>>}]
      [] s.op = "release" -> [db EXCEPT !.constraints = @ \ {<<s.t, s.name>>}]
      [] s.op = "allow" -> [db EXCEPT !.allowed = @ \cup {<<s.t, s.values>>}]
      [] s.op = "disallow" -> [db EXCEPT !.allowed = {a \in @ : a[1] # s.t}]
      [] s.op = "widen" -> [db EXCEPT !.wide = TRUE]
      [] s.op = "convert" ->
            [db EXCEPT !.rows = Rewritten(db, s.t, LAMBDA row :
                IF row.val = s.from THEN [row EXCEPT !.val = s.to] ELSE row)]
      [] s.op = "delete" ->
            [db EXCEPT !.rows = Rewritten(db, s.t, LAMBDA row :
                IF row.val = s.val THEN NoRow ELSE row)]
      [] OTHER ->      \* "cancel"
            [db EXCEPT !.rows = Rewritten(db, s.t, LAMBDA row :
                IF row.val \in s.kinds /\ (s.legacyOnly => row.legacy)
                    THEN [row EXCEPT !.open = FALSE] ELSE row)]

\* The first statement that is refused fails them all.
Attempt(db, s) ==
    IF db.ok /\ Accepted(db, s) THEN Effect(db, s) ELSE [db EXCEPT !.ok = FALSE]

\* One statement after another.  (The singleton has TLC finish one before it
\* starts the next.)
Only(S) == CHOOSE x \in S : TRUE

Execute(db, statements) ==
    LET after[k \in 0 .. Len(statements)] ==
            IF k = 0 THEN db ELSE Only({Attempt(d, statements[k]) : d \in {after[k - 1]}})
    IN  after[Len(statements)]

-----------------------------------------------------------------------------
(* The revisions *)

R0001 == [up |-> <<>>, down |-> <<>>]

R0002 ==
    [up   |-> <<Create("agents", {}), Create("agent_api_keys", {"agents"})>>,
     down |-> <<Drop("agent_api_keys"), Drop("agents")>>]

R0003 ==
    [up   |-> <<Create("messages", {"messages", "agents"}),
                Create("deliveries", {"messages", "agents"}),
                Create("idempotency_records", {"messages", "agents"}),
                Create("audit_logs", {"agents"})>>,
     down |-> DropAll(<<"audit_logs", "idempotency_records", "deliveries", "messages">>)]

R0004 ==
    [up   |-> <<Create("attachments", {"messages", "agents"})>>,
     down |-> <<Drop("attachments")>>]

R0005 ==
    [up   |-> <<AddDefault("agents", "inbound_policy", "public"),
                Constrain("agents", "ck_agents_inbound_policy"),
                Create("access_rules", {"agents"})>>,
     down |-> <<Drop("access_rules"), Release("agents", "ck_agents_inbound_policy"),
                DropColumn("agents", "inbound_policy")>>]

R0006 ==
    [up   |-> <<Create("human_users", {}), Create("human_access_keys", {"human_users"}),
                Create("agent_ownerships", {"agents", "human_users"}),
                Create("human_agent_grants", {"agents", "human_users"})>>,
     down |-> DropAll(<<"human_agent_grants", "agent_ownerships", "human_access_keys",
                        "human_users">>)]

R0007 ==
    [up   |-> <<Create("human_sessions", {"human_users"})>>,
     down |-> <<Drop("human_sessions")>>]

R0008 ==
    [up   |-> <<Create("organizations", {}),
                Create("organization_memberships", {"human_users", "organizations"}),
                Create("organization_agents", {"agents", "organizations"})>>,
     down |-> DropAll(<<"organization_agents", "organization_memberships", "organizations">>)]

R0009 ==
    [up   |-> <<Add("human_sessions", "csrf_token_digest"),
                Create("human_action_confirmations", {"human_sessions", "human_users"}),
                Create("human_action_audits", {"human_sessions", "human_users"})>>,
     down |-> DropAll(<<"human_action_audits", "human_action_confirmations">>)
              \o <<DropColumn("human_sessions", "csrf_token_digest")>>]

R0010 ==
    [up   |-> <<Create("approval_requests", {"agents"}),
                Create("approval_decisions", {"approval_requests", "human_sessions",
                                              "human_action_confirmations", "human_users"})>>,
     down |-> DropAll(<<"approval_decisions", "approval_requests">>)]

R0011Up ==
    <<Create("connector_instances", {"agents", "human_users"}),
      Create("agent_connector_bindings", {"agents", "connector_instances"}),
      Create("agent_pairing_sessions",
             {"agents", "connector_instances", "human_users", "human_sessions"}),
      Add("agent_api_keys", "connector_instance_id"),
      Refer("agent_api_keys", "connector_instance_id", "connector_instances"),
      Constrain("agent_api_keys", "ix_agent_api_keys_connector_instance_id")>>

R0011Down ==
    <<Release("agent_api_keys", "ix_agent_api_keys_connector_instance_id"),
      Unrefer("agent_api_keys", "connector_instance_id", "connector_instances"),
      DropColumn("agent_api_keys", "connector_instance_id")>>
    \o DropAll(<<"agent_pairing_sessions", "agent_connector_bindings", "connector_instances">>)

R0012 ==
    [up   |-> <<Add("human_users", "email_verified_at"),
                AddDefault("human_access_keys", "label", "legacy"),
                AddDefault("human_sessions", "auth_method", "access_key"),
                Add("human_sessions", "mfa_authenticated_at"),
                Create("human_password_credentials", {"human_users"}),
                Create("human_email_challenges", {}),
                Create("human_totp_credentials", {"human_users"})>>,
     down |-> DropAll(<<"human_totp_credentials", "human_email_challenges",
                        "human_password_credentials">>)
              \o DropColumns("human_sessions", <<"mfa_authenticated_at", "auth_method">>)
              \o <<DropColumn("human_access_keys", "label"),
                   DropColumn("human_users", "email_verified_at")>>]

\* It widens alembic_version.version_num to hold its own name, for good.
R0013 ==
    [up   |-> <<Widen, Create("organization_invitations", {"human_users", "organizations"})>>,
     down |-> <<Drop("organization_invitations")>>]

R0014 ==
    [up   |-> <<Create("organization_domains", {"human_users", "organizations"})>>,
     down |-> <<Drop("organization_domains")>>]

R0015 ==
    [up   |-> <<AddDefault("connector_instances", "health_status", "unknown")>>
              \o AddColumns("connector_instances", <<"last_heartbeat_at", "last_error_code",
                                                 "last_error_at", "credential_rotated_at">>)
              \o <<Constrain("connector_instances", "ck_connector_instances_health_status")>>,
     down |-> <<Release("connector_instances", "ck_connector_instances_health_status")>>
              \o DropColumns("connector_instances",
                           <<"credential_rotated_at", "last_error_at", "last_error_code",
                             "last_heartbeat_at", "health_status">>)]

TokenOwners == {"agents", "human_users", "connector_instances", "agent_pairing_sessions"}

R0016 ==
    [up   |-> <<AddDefault("agent_pairing_sessions", "credential_mode", "agent_api_key")>>
              \o AddColumns("agent_pairing_sessions",
                        <<"oauth_client_id", "oauth_scope", "oauth_resource">>)
              \o <<Constrain("agent_pairing_sessions",
                             "ck_agent_pairing_sessions_credential_mode"),
                   Create("oauth_access_tokens", TokenOwners),
                   Create("oauth_refresh_tokens", TokenOwners)>>,
     down |-> DropAll(<<"oauth_refresh_tokens", "oauth_access_tokens">>)
              \o <<Release("agent_pairing_sessions",
                           "ck_agent_pairing_sessions_credential_mode")>>
              \o DropColumns("agent_pairing_sessions", <<"oauth_resource", "oauth_scope",
                                                       "oauth_client_id", "credential_mode">>)]

R0017 ==
    [up   |-> <<Create("organization_oidc_providers", {"organizations", "human_users"}),
                Create("organization_oidc_identities",
                       {"organization_oidc_providers", "human_users"}),
                Create("oidc_login_states", {"organization_oidc_providers", "human_users"})>>,
     down |-> DropAll(<<"oidc_login_states", "organization_oidc_identities",
                        "organization_oidc_providers">>)]

R0018 ==
    [up   |-> <<Create("rate_limit_buckets", {})>>,
     down |-> <<Drop("rate_limit_buckets")>>]

R0019 ==
    [up   |-> <<Add("agents", "handle"), Constrain("agents", "ck_agents_handle_lowercase"),
                Constrain("agents", "ix_agents_handle")>>,
     down |-> <<Release("agents", "ix_agents_handle"),
                Release("agents", "ck_agents_handle_lowercase"), DropColumn("agents", "handle")>>]

R0020 ==
    [up   |-> <<Add("agent_pairing_sessions", "requested_existing_agent_id")>>,
     down |-> <<DropColumn("agent_pairing_sessions", "requested_existing_agent_id")>>]

R0021 ==
    [up   |-> <<Create("human_thread_views", {"human_users", "messages"})>>,
     down |-> <<Drop("human_thread_views")>>]

R0022 ==
    [up   |-> <<Create("oauth_dynamic_clients", {}),
                Create("oauth_authorization_requests",
                       {"agent_pairing_sessions", "oauth_dynamic_clients"})>>,
     down |-> DropAll(<<"oauth_authorization_requests", "oauth_dynamic_clients">>)]

\* Every Human gets a username that no other has, then the column is required.
R0023 ==
    [up   |-> <<Add("human_users", "username"), Fill("human_users", "username"),
                Require("human_users", "username"),
                Constrain("human_users", "ck_human_users_username_lowercase"),
                Constrain("human_users", "ix_human_users_username")>>,
     down |-> <<Release("human_users", "ix_human_users_username"),
                Release("human_users", "ck_human_users_username_lowercase"),
                DropColumn("human_users", "username")>>]

\* A Human's first active Agent becomes the default; who has none keeps NULL.
R0024 ==
    [up   |-> <<Add("human_users", "default_agent_id"),
                Refer("human_users", "default_agent_id", "agents")>>,
     down |-> <<Unrefer("human_users", "default_agent_id", "agents"),
                DropColumn("human_users", "default_agent_id")>>]

R0025 ==
    [up   |-> <<Create("human_thread_archives", {"human_users"})>>,
     down |-> <<Drop("human_thread_archives")>>]

\* Bound attachments get their link; the links themselves are not followed.
R0026 ==
    [up   |-> <<Create("message_attachments", {"attachments", "messages"})>>,
     down |-> <<Drop("message_attachments")>>]

R0027Up ==
    <<Create("friendships", {"human_users"}),
      Create("tasks", {"human_users", "agents"}),
      Create("task_memberships", {"tasks", "human_users", "agents"}),
      Create("task_agent_participants", {"tasks", "agents", "human_users"}),
      Create("task_assignments", {"tasks", "human_users", "agents"}),
      Create("agent_runs", {"task_assignments", "agents"}),
      Create("task_activities", {"tasks", "human_users", "agents"})>>

R0027Down ==
    DropAll(<<"task_activities", "agent_runs", "task_assignments",
              "task_agent_participants", "task_memberships", "tasks", "friendships">>)

R0028 ==
    [up   |-> AddColumns("connector_instances",
                     <<"runtime_version", "runtime_version_reported_at">>),
     down |-> DropColumns("connector_instances",
                        <<"runtime_version_reported_at", "runtime_version">>)]

FirstKinds == {"participant_start", "human_directed", "result_sync"}

R0029 ==
    [up   |-> <<Add("tasks", "agent_creation_key"),
                Constrain("tasks", "uq_tasks_agent_creation_key"),
                AddDefault("task_memberships", "agent_selection_source", "selected"),
                AddDefault("task_memberships", "email_notification_status", "not_applicable"),
                AddDefault("task_memberships", "email_notification_attempts", "0"),
                Add("task_memberships", "email_notified_at"),
                Constrain("task_memberships", "ck_task_memberships_agent_selection_source"),
                Constrain("task_memberships", "ck_task_memberships_email_notification_status"),
                AddDefault("task_assignments", "assignment_kind", "human_directed"),
                Add("task_assignments", "trigger_activity_id"),
                Refer("task_assignments", "trigger_activity_id", "task_activities"),
                Constrain("task_assignments", "uq_task_assignments_agent_trigger"),
                Allow("task_assignments", FirstKinds)>>,
     down |-> <<Disallow("task_assignments"),
                Release("task_assignments", "uq_task_assignments_agent_trigger"),
                Unrefer("task_assignments", "trigger_activity_id", "task_activities"),
                DropColumn("task_assignments", "trigger_activity_id"),
                DropColumn("task_assignments", "assignment_kind"),
                Release("task_memberships", "ck_task_memberships_email_notification_status"),
                Release("task_memberships", "ck_task_memberships_agent_selection_source")>>
              \o DropColumns("task_memberships",
                           <<"email_notified_at", "email_notification_attempts",
                             "email_notification_status", "agent_selection_source">>)
              \o <<Release("tasks", "uq_tasks_agent_creation_key"),
                   DropColumn("tasks", "agent_creation_key")>>]

MessageKinds == FirstKinds \cup {"task_message"}

R0030 ==
    [up   |-> <<AddDefault("connector_instances", "runtime_capabilities", "[]")>>
              \o AddColumns("task_activities", <<"idempotency_key", "request_hash">>)
              \o <<Constrain("task_activities", "uq_task_activities_agent_idempotency"),
                   Disallow("task_assignments"), Allow("task_assignments", MessageKinds)>>,
     down |-> <<Convert("task_assignments", "task_message", "result_sync"),
                Disallow("task_assignments"), Allow("task_assignments", FirstKinds),
                Release("task_activities", "uq_task_activities_agent_idempotency")>>
              \o DropColumns("task_activities", <<"request_hash", "idempotency_key">>)
              \o <<DropColumn("connector_instances", "runtime_capabilities")>>]

R0031 ==
    [up   |-> AddColumns("connector_instances",
                     <<"upgrade_target_version", "upgrade_status", "upgrade_requested_at",
                       "upgrade_completed_at", "upgrade_notification_message_id">>)
              \o <<Constrain("connector_instances", "ck_connector_instances_upgrade_status")>>,
     down |-> <<Release("connector_instances", "ck_connector_instances_upgrade_status")>>
              \o DropColumns("connector_instances",
                           <<"upgrade_notification_message_id", "upgrade_completed_at",
                             "upgrade_requested_at", "upgrade_status",
                             "upgrade_target_version">>)]

\* The organizations go; going back loads the four revisions that made them
\* and runs their upgrade().
R0032 ==
    [up   |-> DropAll(<<"oidc_login_states", "organization_oidc_identities",
                        "organization_oidc_providers", "organization_domains",
                        "organization_invitations", "organization_agents",
                        "organization_memberships", "organizations">>),
     down |-> R0008.up \o R0013.up \o R0014.up \o R0017.up]

R0033 ==
    [up   |-> AddColumns("connector_instances", <<"installed_version", "configured_version",
                                              "runtime_session_started_at">>),
     down |-> DropColumns("connector_instances", <<"runtime_session_started_at",
                                                 "configured_version", "installed_version">>)]

RunRouting == <<"claimed_at", "local_session_id", "session_mapped_at", "woken_at",
                "result_idempotency_key", "result_request_hash">>

\* Going back allows the kinds of 0030 again, over whatever rows there are.
R0034 ==
    [up   |-> <<Disallow("task_assignments"), Add("task_assignments", "source_message_id"),
                AddDefault("task_assignments", "priority", "normal"),
                Constrain("task_assignments", "ck_task_assignments_priority"),
                Allow("task_assignments", MessageKinds \cup {"revision"})>>
              \o AddColumns("agent_runs", RunRouting)
              \o <<Constrain("agent_runs", "uq_agent_runs_agent_result_idempotency")>>,
     down |-> <<Release("agent_runs", "uq_agent_runs_agent_result_idempotency")>>
              \o DropColumns("agent_runs", Reverse(RunRouting))
              \o <<Disallow("task_assignments"),
                   Release("task_assignments", "ck_task_assignments_priority"),
                   DropColumn("task_assignments", "priority"),
                   DropColumn("task_assignments", "source_message_id"),
                   Allow("task_assignments", MessageKinds)>>]

\* Cancelled work stays cancelled on the way back: only the reason goes.
R0035 ==
    [up   |-> <<Add("task_assignments", "cancellation_reason"),
                Add("agent_runs", "cancellation_reason"),
                Cancel({"participant_start", "task_message", "result_sync"}, TRUE)>>,
     down |-> <<DropColumn("agent_runs", "cancellation_reason"),
                DropColumn("task_assignments", "cancellation_reason")>>]

R0036 ==
    [up   |-> <<Cancel({"task_message", "result_sync"}, FALSE)>>,
     down |-> <<>>]

R0037 ==
    [up   |-> <<Create("task_activity_relations", {"tasks", "task_activities", "human_users"})>>,
     down |-> <<Drop("task_activity_relations")>>]

R0038 ==
    [up   |-> <<Create("human_task_preferences", {"human_users", "tasks"})>>,
     down |-> <<Drop("human_task_preferences")>>]

\* Every activity gets its place among its Task's, in the order of creation.
R0039 ==
    [up   |-> <<Add("task_activities", "sequence"), Fill("task_activities", "sequence"),
                Require("task_activities", "sequence"),
                Constrain("task_activities", "uq_task_activities_sequence")>>,
     down |-> <<Release("task_activities", "uq_task_activities_sequence"),
                DropColumn("task_activities", "sequence")>>]

R0040 ==
    [up   |-> AddColumns("connector_instances",
                     <<"task_listener_status", "task_listener_session_id",
                       "task_listener_last_heartbeat_at">>)
              \o <<AddDefault("connector_instances", "wake_capability", "unsupported"),
                   Constrain("connector_instances",
                             "ck_connector_instances_task_listener_status"),
                   Constrain("connector_instances",
                             "ck_connector_instances_wake_capability")>>,
     down |-> <<Release("connector_instances", "ck_connector_instances_wake_capability"),
                Release("connector_instances",
                        "ck_connector_instances_task_listener_status")>>
              \o DropColumns("connector_instances",
                           <<"wake_capability", "task_listener_last_heartbeat_at",
                             "task_listener_session_id", "task_listener_status">>)]

HostChannels == {"feishu_aily_webhook"}

R0041 ==
    [up   |-> <<Create("agent_wake_channels", {"agents", "human_users", "connector_instances"}),
                Allow("agent_wake_channels", HostChannels),
                Create("agent_wake_deliveries", {"agent_wake_channels", "agents", "tasks",
                                                 "task_assignments", "agent_runs"})>>,
     down |-> DropAll(<<"agent_wake_deliveries", "agent_wake_channels">>)]

\* Notification channels have no connector, and no place in the older schema.
R0042 ==
    [up   |-> <<Disallow("agent_wake_channels"),
                Optional("agent_wake_channels", "connector_instance_id"),
                Allow("agent_wake_channels",
                      HostChannels \cup {"feishu_notification_webhook"})>>,
     down |-> <<Delete("agent_wake_channels", "feishu_notification_webhook"),
                Disallow("agent_wake_channels"),
                Require("agent_wake_channels", "connector_instance_id"),
                Allow("agent_wake_channels", HostChannels)>>]

R0043 ==
    [up   |-> <<AddDefault("agent_wake_channels", "auth_scheme", "bearer"),
                Add("agent_wake_channels", "last_dispatch_at")>>,
     down |-> DropColumns("agent_wake_channels", <<"last_dispatch_at", "auth_scheme">>)]

Revisions ==
    <<R0001, R0002, R0003, R0004, R0005, R0006, R0007, R0008, R0009, R0010,
      [up |-> R0011Up, down |-> R0011Down], R0012, R0013, R0014, R0015, R0016, R0017,
      R0018, R0019, R0020, R0021, R0022, R0023, R0024, R0025, R0026,
      [up |-> R0027Up, down |-> R0027Down], R0028, R0029, R0030, R0031, R0032, R0033,
      R0034, R0035, R0036, R0037, R0038, R0039, R0040, R0041, R0042, R0043>>

-----------------------------------------------------------------------------
(* alembic upgrade and downgrade (env.py): the statements of every revision *)
(* on the way and the new version_num are one transaction, done or undone   *)
(* as a whole.                                                              *)

Empty == [rev |-> 0, ok |-> TRUE, wide |-> FALSE, tables |-> {}, refs |-> {},
          columns |-> {}, nullable |-> {}, filled |-> {}, constraints |-> {},
          allowed |-> {}, rows |-> [i \in RowIds |-> NoRow]]

LongNames == {13, 14, 31, 40}      \* revision names of more than 32 characters

Record(db, r) ==
    IF r \in LongNames /\ ~ db.wide THEN [db EXCEPT !.ok = FALSE] ELSE [db EXCEPT !.rev = r]

\* One revision up to r, or down to it.
Up(db, r)   == Record(Execute(db, Revisions[r].up), r)
Down(db, r) == Record(Execute(db, Revisions[r + 1].down), r)

Upgraded(db, to) ==
    LET at[r \in db.rev .. to] ==
            IF r = db.rev THEN db ELSE Only({Up(d, r) : d \in {at[r - 1]}})
    IN  at[to]

Downgraded(db, to) ==
    LET at[r \in to .. db.rev] ==
            IF r = db.rev THEN db ELSE Only({Down(d, r) : d \in {at[r + 1]}})
    IN  at[to]

\* What a database's revision should say all about: everything but the rows.
Schema(db) == [db EXCEPT !.rows = [i \in RowIds |-> NoRow], !.wide = TRUE]

SchemaAt == [r \in 0 .. Len(Revisions) |-> Upgraded(Empty, r)]

\* What a service of that schema stores: its tables, and of the checked columns
\* the values they allow.
Storable(db) ==
    (IF "organizations" \in db.tables THEN {<<"organizations", "none">>} ELSE {})
        \cup UNION {{<<a[1], v>> : v \in a[2]} : a \in db.allowed}
        \cup (IF "task_assignments" \in db.tables /\ ~ \E a \in db.allowed : a[1] = "task_assignments"
                  THEN {<<"task_assignments", "none">>} ELSE {})

\* Every revision is a finite script; the first of them, up to any one, run on an
\* empty database; and every downgrade() takes back what its upgrade() did: it
\* runs on the schema its revision leaves, and leaves that of the one before.
ASSUME RevisionsAssumption ==
    \A r \in 1 .. Len(Revisions) :
        /\ {Len(Revisions[r].up), Len(Revisions[r].down)} \subseteq Nat
        /\ SchemaAt[r].ok
        /\ Schema(Down(SchemaAt[r], r - 1)) = Schema(SchemaAt[r - 1])

\* The rows that outlive a rollback, and such rows as revision r stores.
Followed == {"task_assignments", "agent_wake_channels"}

Shapes(r) ==
    {[t |-> w[1], val |-> w[2], open |-> o, legacy |-> l] :
        w \in {v \in Storable(SchemaAt[r]) : v[1] \in Followed}, o, l \in BOOLEAN}

\* The schema of revision r with the row x, wherever there is one.
Filled(r, x) == [SchemaAt[r] EXCEPT !.wide = TRUE, !.rows = [i \in RowIds |-> x]]

\* y is the row x, unless work that was open has ended.
SameRow(y, x) == /\ y.t = x.t /\ y.val = x.val /\ y.legacy = x.legacy
                 /\ y.open => x.open

\* Every upgrade() runs over the rows of the revision before it and makes rows of
\* its own revision of them, its downgrade() makes the same rows of those again,
\* and what it leaves of any others are rows of the revision before it.
ASSUME RowsAssumption ==
    \A r \in 1 .. Len(Revisions) :
        /\ \A x \in Shapes(r - 1) :
            LET up == Up(Filled(r - 1, x), r)
            IN  /\ up.ok
                /\ \A i \in RowIds :
                    /\ up.rows[i] \in Shapes(r)
                    /\ LET down == Down(Filled(r, up.rows[i]), r - 1)
                       IN  down.ok /\ SameRow(down.rows[i], x)
        /\ \A y \in Shapes(r) :
            LET down == Down(Filled(r, y), r - 1)
            IN  down.ok => \A i \in RowIds :
                    down.rows[i].t \in Followed => down.rows[i] \in Shapes(r - 1)
=============================================================================
