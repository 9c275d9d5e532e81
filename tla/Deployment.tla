----------------------------- MODULE Deployment -----------------------------
(***************************************************************************)
(* Switching production from one release to the next:                      *)
(* scripts/aliyun/switch-release.sh and the rollback script it writes,     *)
(* over the schema of Migrations, with the server writing rows whenever it *)
(* runs.  A release is known by its number; HeadOf[r] is the last schema     *)
(* revision its code brings.                                               *)
(*                                                                         *)
(* The script stops at the first command that fails; its ERR trap runs the *)
(* rollback once production has been touched.  A restart of the host kills *)
(* the script, and systemd starts what the unit file says; an operator can *)
(* then run the rollback, as he can later, after a switch that ended well. *)
(* Commands of the rollback fail only where the model can tell: when       *)
(* PostgreSQL refuses the downgrade.                                       *)
(***************************************************************************)
EXTENDS Migrations

CONSTANTS
    HeadOf,          \* HeadOf[r]: the schema revision of release r
    MaxDeploys,    \* bound on switches started
    MaxReboots     \* bound on host restarts

DeploymentAssumption ==
    /\ 0 \notin DOMAIN HeadOf
    /\ \A r \in DOMAIN HeadOf : HeadOf[r] \in 1 .. Len(Revisions)
    /\ MaxDeploys \in Nat /\ MaxReboots \in Nat

ASSUME DeploymentAssumption

VARIABLES
    db,            \* the production database
    server,        \* the release the running service executes, 0: it is stopped
    current,       \* the release /opt/agentpost/current points to
    unit,          \* the release whose environment the unit file names
    env,           \* the release the environment file is written for
    phase,         \* how far the script, or the rollback, has come
    plan,          \* the switch: prior release, its schema, target
    dump,          \* agentpost.dump in the backup directory
    deploys,       \* switches started
    reboots,       \* host restarts
    disturbed      \* the host restarted in the middle of a switch

vars == <<db, server, current, unit, env, phase, plan, dump, deploys, reboots, disturbed>>

Releases == DOMAIN HeadOf
NoPlan == [prior |-> 0, schema |-> 0, target |-> 0]

\* From prepare_configuration on, mutated=1.
Mutated == {"configured", "replaced", "stopped", "dumped", "migrated", "switched", "restarted"}
Rolling == {"rollback", "rbStopped", "rbDowngraded", "rbRestored"}

Init ==
    /\ current \in Releases
    /\ db = SchemaAt[HeadOf[current]]
    /\ server = current /\ unit = current /\ env = current
    /\ phase = "idle" /\ plan = NoPlan /\ dump = Empty
    /\ deploys = 0 /\ reboots = 0 /\ disturbed = FALSE

-----------------------------------------------------------------------------
(* The running service *)

\* A request adds a row: any that its schema allows, if it is the service's own.
Write(i) ==
    /\ server # 0 /\ HeadOf[server] = db.rev
    /\ db.rows[i] = NoRow
    /\ \E w \in Storable(db), old \in BOOLEAN :
        /\ w[1] # "task_assignments" => ~ old
        /\ db' = [db EXCEPT !.rows[i] = [t |-> w[1], val |-> w[2],
                                         open |-> w[1] = "task_assignments", legacy |-> old]]
    /\ UNCHANGED <<server, current, unit, env, phase, plan, dump, deploys, reboots, disturbed>>

\* Work ends.
Close(i) ==
    /\ server # 0 /\ HeadOf[server] = db.rev
    /\ db.rows[i].open
    /\ db' = [db EXCEPT !.rows[i].open = FALSE]
    /\ UNCHANGED <<server, current, unit, env, phase, plan, dump, deploys, reboots, disturbed>>

-----------------------------------------------------------------------------
(* The switch *)

\* preflight and backup: the service runs the current release, which is another
\* one; the dump is taken while it serves, and the rollback script is written.
Backup(r) ==
    /\ phase = "idle" /\ deploys < MaxDeploys
    /\ r # current /\ server = current
    /\ plan' = [prior |-> current, schema |-> db.rev, target |-> r]
    /\ dump' = db
    /\ deploys' = deploys + 1
    /\ phase' = "prepared"
    /\ UNCHANGED <<db, server, current, unit, env, reboots, disturbed>>

\* prepare_release, rehearse_migration: the dump goes up, down and up again.
Rehearsed ==
    LET up == Upgraded(dump, HeadOf[plan.target])
        down == Downgraded(up, plan.schema)
    IN  /\ HeadOf[plan.target] >= plan.schema
        /\ up.ok /\ down.ok /\ Upgraded(down, HeadOf[plan.target]).ok

Rehearse ==
    /\ phase = "prepared"
    /\ phase' = IF Rehearsed THEN "rehearsed" ELSE "idle"
    /\ UNCHANGED <<db, server, current, unit, env, plan, dump, deploys, reboots, disturbed>>

\* prepare_configuration: the environment file, then the units and nginx.
Configure ==
    /\ phase = "rehearsed"
    /\ env' = plan.target
    /\ phase' = "configured"
    /\ UNCHANGED <<db, server, current, unit, plan, dump, deploys, reboots, disturbed>>

ReplaceUnit ==
    /\ phase = "configured"
    /\ unit' = plan.target
    /\ phase' = "replaced"
    /\ UNCHANGED <<db, server, current, env, plan, dump, deploys, reboots, disturbed>>

StopSkipped ==
    /\ phase = "replaced"
    /\ phase' = "stopped"
    /\ UNCHANGED <<db, server, current, unit, env, plan, dump, deploys, reboots, disturbed>>

\* switch: quiesce, dump again, migrate, move the link, restart.
Stop ==
    /\ phase = "replaced"
    /\ server' = 0
    /\ phase' = "stopped"
    /\ UNCHANGED <<db, current, unit, env, plan, dump, deploys, reboots, disturbed>>

SnapshotSkipped ==
    /\ phase = "stopped"
    /\ phase' = "dumped"
    /\ UNCHANGED <<db, server, current, unit, env, plan, dump, deploys, reboots, disturbed>>

Snapshot ==
    /\ phase = "stopped"
    /\ dump' = db
    /\ phase' = "dumped"
    /\ UNCHANGED <<db, server, current, unit, env, plan, deploys, reboots, disturbed>>

\* One transaction: a refused statement leaves the database as it was.
Migrate ==
    LET up == Upgraded(db, HeadOf[plan.target])
    IN  /\ phase = "dumped"
        /\ db' = IF up.ok THEN up ELSE db
        /\ phase' = IF up.ok THEN "migrated" ELSE "rollback"
        /\ UNCHANGED <<server, current, unit, env, plan, dump, deploys, reboots, disturbed>>

SwitchLink ==
    /\ phase = "migrated"
    /\ current' = plan.target
    /\ phase' = "switched"
    /\ UNCHANGED <<db, server, unit, env, plan, dump, deploys, reboots, disturbed>>

Restart ==
    /\ phase = "switched"
    /\ server' = unit
    /\ phase' = "restarted"
    /\ UNCHANGED <<db, current, unit, env, plan, dump, deploys, reboots, disturbed>>

\* verify_local: health, readiness, link, schema, counts; then the trap is off.
Verify ==
    /\ phase = "restarted"
    /\ server = plan.target /\ current = plan.target /\ db.rev = HeadOf[plan.target]
    /\ phase' = "idle"
    /\ UNCHANGED <<db, server, current, unit, env, plan, dump, deploys, reboots, disturbed>>

FailLate ==
    /\ phase \in {"prepared", "rehearsed"} \cup Mutated
    /\ phase' = IF phase \in Mutated \ {"configured"} THEN "rollback" ELSE "idle"
    /\ UNCHANGED <<db, server, current, unit, env, plan, dump, deploys, reboots, disturbed>>

\* rollback_on_error: any command of the script fails.
Fail ==
    /\ phase \in {"prepared", "rehearsed"} \cup Mutated
    /\ phase' = IF phase \in Mutated THEN "rollback" ELSE "idle"
    /\ UNCHANGED <<db, server, current, unit, env, plan, dump, deploys, reboots, disturbed>>

-----------------------------------------------------------------------------
(* The rollback script *)

RollbackStop ==
    /\ phase = "rollback"
    /\ server' = 0
    /\ phase' = "rbStopped"
    /\ UNCHANGED <<db, current, unit, env, plan, dump, deploys, reboots, disturbed>>

RollbackInPieces ==             \* mutant: statements before the refused one stay
    LET down == Downgraded(db, plan.schema)
    IN  /\ phase = "rbStopped"
        /\ db' = [down EXCEPT !.ok = TRUE]
        /\ phase' = IF down.ok THEN "rbDowngraded" ELSE "refused"
        /\ UNCHANGED <<server, current, unit, env, plan, dump, deploys, reboots, disturbed>>

RollbackTooFar ==               \* mutant: one revision below the prior schema
    LET down == Downgraded(db, plan.schema - 1)
    IN  /\ phase = "rbStopped"
        /\ db' = IF down.ok THEN down ELSE db
        /\ phase' = IF down.ok THEN "rbDowngraded" ELSE "refused"
        /\ UNCHANGED <<server, current, unit, env, plan, dump, deploys, reboots, disturbed>>

\* Only if the schema is not the prior one; set -e ends the script otherwise.
RollbackSchema ==
    LET down == Downgraded(db, plan.schema)
    IN  /\ phase = "rbStopped"
        /\ db' = IF down.ok THEN down ELSE db
        /\ phase' = IF down.ok THEN "rbDowngraded" ELSE "refused"
        /\ UNCHANGED <<server, current, unit, env, plan, dump, deploys, reboots, disturbed>>

RollbackFiles ==
    /\ phase = "rbDowngraded"
    /\ env' = plan.prior /\ unit' = plan.prior /\ current' = plan.prior
    /\ phase' = "rbRestored"
    /\ UNCHANGED <<db, server, plan, dump, deploys, reboots, disturbed>>

RollbackRestart ==
    /\ phase = "rbRestored"
    /\ server' = unit
    /\ disturbed' = FALSE
    /\ phase' = "idle"
    /\ UNCHANGED <<db, current, unit, env, plan, dump, deploys, reboots>>

-----------------------------------------------------------------------------
(* The host and its operator *)

\* The script dies with the host; systemd starts the unit.
Reboot ==
    /\ reboots < MaxReboots
    /\ phase \in {"prepared", "rehearsed"} \cup Mutated
    /\ reboots' = reboots + 1
    /\ server' = unit
    /\ disturbed' = (phase \in Mutated)
    /\ phase' = IF phase \in Mutated THEN "interrupted" ELSE "idle"
    /\ UNCHANGED <<db, current, unit, env, plan, dump, deploys>>

\* The rollback script of the last backup is run by hand.
OperatorRollback ==
    /\ \/ phase = "interrupted"
       \/ phase = "idle" /\ plan # NoPlan /\ current = plan.target
    /\ phase' = "rollback"
    /\ UNCHANGED <<db, server, current, unit, env, plan, dump, deploys, reboots, disturbed>>

-----------------------------------------------------------------------------
Script ==
    \/ Fail \/ Rehearse \/ Configure \/ ReplaceUnit \/ Stop \/ Snapshot \/ Migrate
    \/ SwitchLink \/ Restart \/ Verify
    \/ RollbackStop \/ RollbackSchema \/ RollbackFiles \/ RollbackRestart

Next ==
    \/ \E i \in RowIds : Write(i) \/ Close(i)
    \/ \E r \in Releases : Backup(r)
    \/ Script
    \/ Reboot \/ OperatorRollback

\* A script that runs goes on to its end: every wait in it is bounded.
Spec == Init /\ [][Next]_vars /\ WF_vars(Script)

-----------------------------------------------------------------------------
(* Properties *)

\* A database's schema is that of its revision, whichever upgrades, rollbacks
\* and repeated upgrades brought it there: every downgrade undoes its upgrade,
\* with the tables 0032 drops and rebuilds, and the checks 0030, 0034 and 0042
\* widen and narrow.
SchemaOfRevision == Schema(db) = Schema(SchemaAt[db.rev])

\* A running service finds the schema it was written for, at every step of a
\* switch and of a rollback: the old writers are gone before the migration, the
\* new ones start after it.  A restart of the host in the middle of a switch is
\* the one exception, until the rollback has run.
ServerMatchesSchema == server # 0 /\ ~ disturbed => HeadOf[server] = db.rev

\* While the migrated database has no writer yet, the dump in the backup holds
\* every row there is: it was taken after the last old writer had stopped.
SnapshotHoldsAll ==
    phase \in {"migrated", "switched"} =>
        \A i \in RowIds : db.rows[i].t # "none" => dump.rows[i].t = db.rows[i].t

\* What the prior release had written when the switch began is there after the
\* rollback, with the value it had, and no ended work is open again.  Only the
\* organizations 0032 drops are lost; 0035 and 0036 cancel open work for good.
RollbackKeepsRows ==
    phase \in {"rbDowngraded", "rbRestored"} =>
        \A i \in RowIds :
            dump.rows[i].t \in {"task_assignments", "agent_wake_channels"} =>
                /\ db.rows[i].t = dump.rows[i].t
                /\ db.rows[i].val = dump.rows[i].val
                /\ db.rows[i].open => dump.rows[i].open

\* A switch that was started ends with a release served, unless the host
\* restarted under it or PostgreSQL refused the downgrade.
SwitchEnds ==
    phase = "prepared" ~> \/ phase = "idle" /\ server = current /\ unit = current /\ env = current
                          \/ phase \in {"interrupted", "refused"}

\* ALIYUN_DEPLOYMENT_EFFICIENCY.md:77: when the local checks fail, the switch is
\* rolled back automatically.  The downgrade of 0034 allows the kinds of 0030
\* again without converting the revisions requested meanwhile.
FailedSwitchRecovers == phase # "refused"
=============================================================================
