# Verification of the V Rising server site

TLA+ specifications of the backend under `src/backend`, the TLC runs that
model-check them and the theorems about them that TLAPS proves.

## 1. The system

A FastAPI application, one uvicorn worker, one asyncio event loop. Every
request is a task with a database session of its own; background loops
(publishing, backup, cleanup, leaderboard snapshot, newsletter, server monitor,
event reminders) are tasks of the same loop with sessions of their own. Tasks
interleave at every `await`. The database is one SQLite file in WAL mode.

| component | state | operations | what makes it correct |
|---|---|---|---|
| points economy (`routers/points_shop.py`, `.nick` in `plugin_integration.py`, bulk grant in `users.py`, `_award_points`) | `users.points_balance`, the append-only ledger, the catalog, the redemption queue | redeem, fulfil, cancel, grants, nickname change, catalog edits | no overdraft, no oversold stock, the weekly limit, a ledger that explains the balance, one refund |
| plugin integration (`plugin_integration.py`, `server_admin.py`, `_track_players`) | player records, daily activity, clan rosters, scheduled restarts, announcements, keys | session report, A2S poll, connect streak, clan sync, restart poll and clean-up, announcement poll, `.register`, `.login` | a row per player, claims are final, no unplayed minute is paid, one bonus per day, no member attached to a foreign clan, daily restarts recur |
| moderation (`moderation.py`) | bans, warnings, appeals, the due-unban queue | ban, unban, warn and escalate, appeal, plugin polls | a lifted ban reaches the game once, an appeal decides its own ban |
| content (`news.py`, `reports.py`, `events.py`, `polls.py`, loops of `main.py`) | posts, comments, reports, events, participants, votes | publish, schedule, digest, comment, report, join, remind, vote | a scheduled post goes out, no post is mailed in two digests, an event is reminded of, nobody is told twice |
| monitor (`monitor.py`, `main.py`) | snapshots, cache, in-memory outage state | poll, alert, back-online notice, incidents | an outage is reported although cycles fail and the process restarts |
| accounts (`auth.py`, `routers/auth.py`, `users.py`, `profile.py`) | users, roles, revoked tokens, recovery codes, attempt counters, login history, presence | login, logout everywhere, second factor, recovery, setup, role changes, online list | a revoked token stays refused, a code of an old batch is dead, a superadmin remains, a logged-out user is not shown |
| messages and live streams (`messages.py`, queues of `main.py` and `helpers.py`) | messages, notifications, bounded queues | send, broadcast, fetch, delete, connect | an open tab shows every message, a stream has no gap |
| rankings (`leaderboard.py`, `activity_feed.py`) | nightly snapshots; otherwise computed from rows | standings, ranks of a week ago, streaks, milestones | the walk over the rows computes what it should |
| administration (`admin_settings.py`, `admin_system.py`, uploads) | settings, maintenance flag and history, upload files, backups | maintenance mode, uploads, nightly and manual backup | nginx serves what the setting says, a shown cover exists, the last good backup stays |

How they interact: everything shares the database and therefore SQLite's single
writer lock. Requests of players, admins and the game plugin write the same
user rows; background loops read what requests write. Notifications, pushes and
feed entries leave after the commit and are best effort.

### What is hard here

* A SELECT outside a transaction sees the last commit and locks nothing, so
  what a handler read may be stale when it writes. The first
  INSERT/UPDATE/DELETE of a session takes the writer lock until commit or
  rollback; another writer waits and finally gets "database is locked".
* An ORM attribute assignment emits the new value as a literal
  (`SET points_balance = 7`), where a conditional UPDATE computes in the engine.
* Foreign keys are not enforced and primary keys without AUTOINCREMENT are
  reused.
* What is remembered in a dictionary of the process (attempt counters, outages,
  reminders, presence, queues) is gone after a restart, while rows stay.
* Files and rows change in different steps: the maintenance flag, covers, backups.
* The process may stop at any await.

`PROJECT.json` lists the hazards at their lines, with the property that covers
each or the reason why none does.

## 2. The modules

| module | what it is |
|---|---|
| `ShopContract` | what `POST /api/shop/redeem` promises: an indivisible purchase |
| `PointsShop` | the points economy, one action per awaited statement |
| `PointsShopClaims` | claims of docstrings the code does not keep |
| `MCPointsShop` | a small instance for TLC |
| `PointsShopProofs` | types, the inductive invariant, isolation, refinement of the contract, the ledger properties |
| `ClanBoard` | what a clan sync promises: a server's board is replaced in one step |
| `ClanSync` | `POST /api/plugin/clans/sync`, one action per database step |
| `MCClanSync` | a small instance for TLC |
| `ClanSyncProofs` | types, the inductive invariant, no orphans, what the history lacks, refinement of `ClanBoard` |
| `Moderation` | bans, appeals and warnings, each handler split at its awaits |
| `MCModeration` | small instances for TLC |
| `ModerationProofs` | types, why bans are lifted, approved appeals, escalations |
| `Playtime` | session reports and the A2S poll on one table of player records |
| `Streaks` | the connect streak; one bonus a day |
| `Restarts` | scheduled and daily restarts between admins and the plugin's poll |
| `Announcements` | one announcement between admins and the plugin's poll |
| `GameLink` | plugin keys, heartbeats, templates, `.register` and `.login` |
| `Community` | comments with their notifications, reports, reactions, votes |
| `Publishing` | posts, the two publishing loops, the digests |
| `Events` | an event, its participants and its reminders |
| `Monitor` | the server monitor's cycles, alerts and incidents |
| `Streams` | the bounded queues of the live streams |
| `Rankings` | operators for standings, trends, streaks and milestones |
| `Sessions`, `SessionsProofs` | tokens, passwords, resets, second factor, attempt limits |
| `Roles` | first start, setup, role migration, admins acting on accounts |
| `Logins` | login history and the mail about a new address |
| `Presence`, `PresenceProofs` | who is online; nobody who left |
| `Messages` | direct messages and the recipient's tab |
| `Uploads` | covers, badges, the file manager |
| `Maintenance`, `MaintenanceProofs` | maintenance mode and nginx's flag file |
| `Backups` | nightly and manual copies and their retention |
| `Accounts` | `Sessions`, `Roles`, `Logins`, `Playtime`, `GameLink`, `Community`, `Messages`, `Uploads`, `Maintenance`, `Presence`, `Backups` interleaved |
| `AccountsProofs` | what is proved of `Accounts` |
| `Site` | `Streaks`, `Restarts`, `Monitor`, `Publishing`, `Events`, `Streams`, `Announcements` interleaved |
| `SiteProofs` | what is proved of `Site` |
| `MCAccounts`, `MCSite` | small instances of the two for TLC; the latter with `Rankings` |

Each component is a module of its own. They share the database and the rules of
its writer lock, and hardly any rows: the clan tables are written by the sync alone,
the moderation tables by `moderation.py` alone. Point balances are written by the
handlers of `PointsShop` and by the awards of `Playtime` and `Streaks`. The latter
are modelled up to the award they ask for; what then happens to a balance is the
`AwardCommit` of `PointsShop`, the same whoever asks.

`Accounts` and `Site` compose these parts: a step is a step of one part that leaves
the variables of the others alone. They name the properties of their parts, and the
theorems are about their specifications, `AccountsSpec` and `SiteSpec`, in which all
parts move. For TLC, components that share no variable have no interesting product, so
`MCAccounts` and `MCSite` add a variable `focus`, chosen in the initial state, that says
which part moves; the states of a run are the sum of those of its parts, and each
property is the part's own, in every overlap of that part's requests. `SiteTypeOK`
and `AccountsTypeOK` are the conjunctions of the parts' types.

### PointsShop

State: `disk` is the committed database (balances, catalog, redemptions,
ledger), `draft` the database as the holder of the writer lock sees it,
`writer` that holder, `req[r]` the stage of request `r` and what it has read,
`now` a day counter. `published` collects every offer the catalog made under an
id (the contract needs it) and `edits` counts catalog changes for the bounds.

| code | actions |
|---|---|
| `redeem_shop_item` | `RedeemRead`, `RedeemLimitEarly`, `RedeemDebit`, `RedeemStock`, `RedeemRecheck`, `RedeemRecord` |
| `plugin_nickname_change` | `NickRead`, `NickCharge` |
| `grant_points`, `grant_points_bulk`, `bulk_user_action` | `GrantPoints`, `GrantPointsBulk`, `BulkUserAction`, then `AwardCommit` |
| `fulfill_shop_redemption` | `FulfillRead`, `FulfillCommit` |
| `cancel_shop_redemption` | `CancelRead`, `CancelReadUser`, `CancelCommit` |
| create, update, delete of an item | `CreateShopItem`, `UpdateShopItem`, `DeleteShopItem` |
| driver and process | `LockTimeout`, `Crash`, `Tick` |

Statements after the first write that read nothing which could turn the request
back are folded into its commit. `UpdateShopItem` writes an arbitrary set of
columns: those its body names, less those equal to what it had read, so a
purchase between its read and its write is covered. The redemption a refund
belongs to stands in `ref`; the code writes it in the row's detail.

Abstracted: audit rows, notifications and pushes (same transaction, or after the
commit, and read by nothing here); user deletion; an identifier given twice in a
bulk grant; the wishlist; the playtime and streak awards, which race like any
other grant. In a bulk grant the admin's own row, read at authentication, is
taken to be read with the first account. Stock is not restored by a
cancellation, as in the code.

### ClanSync

State: `clans` is the table `game_clans`, `rows[i][e]` how many member or castle
rows entry `e` has under clan id `i`, `history` the joined rows less the left
rows of a clan and player, `writer` the holder of the writer lock, `req[r]` the
sync and what it has read. `missed` is for the property: what `history` would have
got from the syncs whose diff failed.

| code | action |
|---|---|
| `_record_clan_membership_events`: read the roster, stage the difference; if that fails, stage nothing and go on | `SyncDiff` |
| the SELECT of the clan ids, which flushes what was staged and then takes the lock | `SyncIds` |
| deletes, inserts and the commit | `SyncReplace` |
| lock timeout, error, crash | `Fail` |

A new clan gets the largest id in use plus one, as in SQLite. Names,
levels, power and presence of a member are left out: rows are counted, not
read. A sync whose diff fails still replaces the roster and commits, without
history (its docstring: best effort). So `HistoryExplainsRoster` says that history and
`missed` together add up to the roster: exactly what those syncs left out is
missing, for ever, and nothing that was rolled back is in it.
`MayOverlap` says whether a plugin may send a sync while one of its server is
still being answered. The plugin is not part of the repository; that it waits is
an assumption of the `clans` run and of the theorems, and the `clans_overlap` run
lifts it.

### Moderation

State: `bans` by primary key (a row's `nr` numbers the bans ever issued and is
never given twice, a key is), `appeals` in the order of their ids, per player the
number of warnings, the high-water mark of `warn_escalation_state` and the answers
with `should_escalate`, the clock, `poll[s]` what the due-unbans poll of a server
has read, `req[r]` what any other request has read.

| code | actions |
|---|---|
| `plugin_ban` | `PluginBan` |
| `plugin_unban` | `UnbanRead`, `UnbanStamp` |
| `plugin_due_unbans` | `PollRead`, `PollStamp`, `PollFail` |
| `unban_admin`, `_force_unban` | `ForceRead`, `ForceWrite` |
| `clear_moderation_log` | `ClearLog` |
| `submit_ban_appeal` | `AppealRead`, `AppealCheck`, `AppealFile` |
| `resolve_ban_appeal` | `ResolveRead`, `ResolveWrite` |
| `plugin_warn` | `Warn`, `WarnCount`, `WarnDecide`, `WarnEscalate` |
| error, lock timeout, crash | `Fail` |

A handler's writes are one transaction and so one action; its reads are older.
`ResolveWrite` includes the read of the ban, because the status is flushed before
it and the flush takes the lock. An update of a row that is gone fails
(`StaleDataError`), hence the `Exists` guards of `UnbanStamp`, `PollStamp` and
`ForceWrite`. A read that finds nothing to do changes nothing and is not a step.
Left out: the log-action insert, audit rows and the notification of an appeal,
which nothing here reads; rate limits; the listings and exports.

A player may be warned twice at once, by two admins or on two servers, and nothing in
the code keeps the two apart: after a first escalation both count both and both
escalate, and the one that writes last may put the mark back to a lower count. (At a first
escalation the primary key of `warn_escalation_state` stops the second.) `overlapped[p]`
counts the warnings that began while another of the player was under way, and both
properties about warnings give way by that much and no more: without overlap a
threshold's worth of warnings escalates exactly once.

### The plugin's components

`Playtime`: `records` are the rows, `report[p]` and `poll` the two sources under
way and what they have read, `session` and `played` the game's truth.

| code | actions |
|---|---|
| `plugin_report_session` | `ReportRead`, `ReportWrite`, `ReportFails` |
| `_track_players` | `PollAsk` (the A2S answer), `PollRead`, `PollWrite`, `PollFails` |
| the game | `Join`, `Play`, `Leave`, `Rename`; `Crash` of the backend |

A report finds its row by Steam id, then by a name without one, which it claims.
Either source writes the columns that differ from what it had read (`Flushed`), as
SQLAlchemy does, and the unique key on the name fails the later insert. Two facts
about the game are assumed: a player joins again only after the last session's report
was answered, and two characters have different names at any time.

`Streaks`: `Connect`, `Record` (the day's commit), `Count`, `Award`, `Lost`; the
date moves by `Midnight` and, when an admin changes the timezone, either way
(`ShiftTimezone`). `Restarts`: `PollRead`, `PollArm`, `PollFails` are
`restart-status`, which arms the next daily restart in a second step; `CleanUp` is
`cancel-restart`, called by the plugin; `Schedule`, `Cancel`, `SetDaily`, `ClearDaily` the
admins; `Execute` the plugin. `Announcements`: `PollRead`, `PollStamp`, `PollFails`,
and the admins' `Create`, `Update`, `Delete`, `SendNow`. `GameLink`:
`RegisterRead`, `LoginRead` and their `Write`, `AcceptRules`, `Heartbeat`,
`SetGlobalKey`, `SetServerKey`, `SetTemplate`, `SignUp`.

### Content and loops

| module | code | actions |
|---|---|---|
| `Community` | `add_comment` | `AddComment`, `Flag`, `Reply`, `Mention`, `PostLost` |
| | `delete_comment`, `create_report`, the reviews | `DeleteComment`, `CreateReport`, `Review` |
| | `toggle_reaction`, `vote_poll` | `ReactRead`, `ReactWrite`, `VoteRead`, `VoteWrite` |
| `Publishing` | `_scheduled_publish_task`, `_scheduler_task` | `Read`, `Publish`, `CycleFails` |
| | admins | `Create`, `Update`, `Delete`; `Moment` is the time of a post |
| | `send_newsletter_digest`, by the weekly task or an admin | `DigestStart`, `DigestRead`, `DigestSend`, `DigestFails` |
| `Events` | admins, `join_event`, `leave_event` | `Create`, `Update`, `Delete`, `JoinRead`, `JoinWrite`, `Leave` |
| | `_scheduler_task`, `_event_reminder_task` | `ScheduleRead`, `ScheduleWrite`, `RemindRead`, `Remind`, `RemindFails`, `Restart`; `Tick` |
| `Monitor` | `_monitor_poll_task`, `_monitor_poll_cycle` | `Wake`, `Ask`, `Save`, `CycleFails`, `Restart`; `Visit` reads the cache, `Flip` is the game server |
| `Streams` | the SSE generators and broadcasts | `Connect`, `Send`, `Disconnect`, `Broadcast` |

What goes out on the live feed when a post is published is left to `Streams`: the
handlers broadcast the title and slug they read, whatever has the id by then.

An event's start may be moved (`Update`), and the reminder is about one start. `told` says
that the start the event has now was reminded of, `spent` that its id had a reminder for
another start, so that the loop, which remembers ids, will pass it over, and `blind` that polls
were further apart than the window is wide since the start was fixed. A poll may fail
(`RemindFails`) or not come; nothing bounds for how long.

`Rankings` has no state. Its operators translate what the handlers compute and are
compared with definitions of what they should compute, for all inputs up to a
bound, by assumptions TLC evaluates in the `site` run; so is the walk of
`Monitor` that finds incidents.

### Accounts, messages, administration

| module | code | actions |
|---|---|---|
| `Sessions` | `login`, `totp` | `LoginBegin`, `LoginWrongPassword`, `LoginRead`, `LoginCode`, `LoginStamp`, `LoginOpen`, `TotpSetup`, `TotpRequest`, `TotpEnable`, `TotpDisable`, `RegenerateCodes` |
| | logouts, passwords | `Logout`, `LogoutWrite`, `LogoutEverywhere`, `RevokeUserSessions`, `ChangePassword`, `ForgotPassword`, `DoResetPassword`, each ending in `EndStamp`, `EndWrite` or `EndFails` |
| | memory and time | `Forget` (attempts that lapse), `Restart`, `Tick` |
| `Roles` | `lifespan`, setup, registration | `SeedDefaults`, `MigrateAdminRoleTiers`, `Restart`, `SetupRead`, `SetupWrite`, `SetupFails`, `Register` |
| | role changes, bans, deletions, single and bulk | `SignIn`, `ReadTargets`, `WriteTargets`, `WriteFails` |
| | `delete_my_account`, which asks for no role | `LeaveRead`, `Leave`, `LeaveFails` |
| `Logins` | `_maybe_notify_new_device`, `_record_login_attempt` | `Seen`, `Prior`, `SeenFails`, `PriorFails`, `Record`, `RecordFails` |
| `Presence` | `online_ping`, `me`, `logout`, `online_status` | `Ping`, `Me`, `PingCommit`, `PingFails`, `LogoutStamp`, `LogoutHide`, `LogoutRevoke`, `OnlineStatus`; `SignIn`, `Tick` |
| `Messages` | `send_message`, `broadcast_message` | `Send`, `AdminBroadcast`, `Notify`, `NotifyFails`, `Push` |
| | the tab, `messages_conversation` | `Connect`, `Disconnect`, `Fetch`, `FetchSelect`, `FetchCommit`, `FetchFails`, `Show`; `Delete` |
| `Uploads` | cover and badge | `Begin`, `Refuse`, `Write`, `Clear`, `Commit`, `Abort` |
| | admins | `AdminUpload`, `SetLogo`, `DeleteUnused`, `List`, `Expire` |
| `Maintenance` | `get_public_settings`, `update_setting` | `Visit`, `Switch`, `Commit`, `CommitFails`, `RefreshFails`, `WriteFlag`, `WriteFlagFails` |
| | history, import, schedule, start | `RecordRead`, `RecordWrite`, `RecordFails`, `Import`, `Reschedule`, `Extend`, `Restart`, `RestoreFails` |
| `Backups` | `_auto_backup_task` | `Midnight`, `NightCopied`, `NightFails`, `Offsite`, `Prune` |
| | admins | `CreateBackup`, `CreateCopied`, `CreateFails`, `DeleteBackup`, `Crash` |

A token is the whole second of its issue: JWTs of one account and second are equal.
Moments in `Presence` and `Announcements` are ages. An `Idle` or `Free` value stands for a
request that is not under way.

A reset updates the row of its link by id. `forgot_password` deletes the old row and
inserts the new one in one transaction, so the new link has the id of the one it replaces:
a reset that began with the old link goes through with the row of the new one (`Updated`)
and uses that up. It fails (`EndFails`) only when no link has the id.

The flag file is written after the commit by a function that swallows every error
(`WriteFlagFails`), `update_setting` reads its row again in between (`RefreshFails`), and
the start of the site swallows a restore that fails (`RestoreFails`).

Some properties say when they do not apply, because there the code does otherwise:

* `SuperadminRemains`: after a decision by a row that had changed (two superadmins who demote
  each other at once leave none), or after the last superadmin deleted the own account
  (`clean`).
* `RefusedStaysRefused`: once two requests which end the sessions overlapped; the earlier
  second may be written last.
* `FlagFollowsMode`: while the file is `astray`, after an import, writers that crossed, a file
  that could not be written or a refresh that failed. It is no longer after the next start
  that restores the file, or the next writer that commits alone and writes it.
* `NewAddressIsMailed`: for the first address and those whose check `failed`, which are
  recorded all the same; and no more once a login that held to be the first was on its way
  when another was recorded (`alone`).
* `TabNotStale`: the tab of a user who has not fetched since it connected, two answers that
  came in the wrong order, and a notification that failed after its message was committed.
* `LastNightIsKept`: after a night in which administrators made `Keep` or more files between
  its beginning and its pruning, none of those that stay complete (`flooded`). Nothing limits
  how many they make, and incomplete files count.

### What the runs show

| run | bounds | shows |
|---|---|---|
| `points_shop` | 2 accounts with 3 points, 3 symmetric requests, 1 item id, 2 replacement bodies, 1 update, 1 deletion, 2 days | the safety properties, and that every step is a step of `ShopContract` |
| `points_shop_live` | the same without catalog edits, on one day | every request is answered |
| `points_balance` | as the first, no catalog edits | counterexample: a grant overwrites a purchase |
| `points_refund` | as the first, no catalog edits | counterexample: two cancellations of one redemption refund it twice |
| `points_id_reuse` | a second item with another name, 1 deletion | counterexample: a reused id blocks the new item |
| `clans` | 2 servers, 2 clans, 2 players, 1 castle, 4 rosters, 4 symmetric syncs, ids up to 8; one sync per server at a time | the properties, and that every step is a step of `ClanBoard` |
| `clans_overlap` | 3 syncs, ids up to 6, overlapping | counterexample: member rows outlive their clan and a reused id shows them twice |
| `moderation` | 2 players, 1 server, 3 symmetric requests, 2 bans (permanent or until 1), a clock of 2 moments, 1 cleared log, threshold 2; a fourth request while only one player's warnings happen | the safety properties |
| `moderation_live` | 1 player, 2 servers, 2 requests, else the same | a due ban is lifted in the end |
| `moderation_reuse` | 2 players, 1 server, 2 requests | counterexample: an old appeal lifts another player's ban |
| `accounts` | the parts of `Accounts`, bounds below | what each part keeps: 10 invariants, 4 action properties |
| `site` | the parts of `Site`, bounds below | 5 invariants, `NotTooOften`, and three liveness properties |

Points: three requests are enough for the interesting cases: two that race and one
that created what they race for (a redemption to cancel, a purchase that took
the last unit). Three points and a price of two let one purchase succeed and two
overdraw. An update of the stock and limit lets an item run out, be refilled and
have a limit of two. The grant of -2 brings a balance below zero without a
purchase. Clans: a history that goes wrong needs a sync that makes a roster,
one that changes it and one that diffs against what it left; the fourth overlaps
them on the other server. `MaxId` never runs out within four syncs of at most two
clans. Moderation: three warnings pass a threshold of two and leave one, four are
two for the first escalation and two more that overlap, an appeal, its answer and a
forced unban meet on one ban, and two bans are what it takes to give an id again. The theorems cover every other size.

The properties of `accounts`:

| property | what it says | what could break it |
|---|---|---|
| `OnlyNewestValid` | only a code of the last batch of recovery codes, and one reset link, can be unused | requests that enable, disable, regenerate and log in at once |
| `AttemptsBounded` | the attempt limits are passed at most by requests already under way | the count and the check are steps apart |
| `RefusedStaysRefused` | a refused token is never let in again | a later cutoff that is earlier |
| `KeepsSession` | the tab that ends all other sessions keeps its own | tokens have whole seconds, the cutoff does not |
| `SuperadminRemains`, `OneFounder`, `ChosenRolesSurvive` | a site that was set up loses its last superadmin only by that one's own deletion or a stale decision, one setup founds it, no later start undoes chosen roles | decisions by rows read earlier; accounts deleted by their owners; two setups; the migration after a restart |
| `PlaytimeIsSound` | at most one row per Steam id (two would fail every later report), and no unplayed minute is paid | poll, claim, rename and insert in any order |
| `ClaimsAreFinal` | a claimed row stays with its player | a report under a name that another bore |
| `ReadersAreTold` | one notification per comment and user and none to the author; an idle open tab shows all messages; each new address whose check did not fail is mailed about | a parent deleted between transactions; notices, fetches and full queues; overlapping and failing logins |
| `FilesAreKept` | a shown cover exists; the last completed nightly backup, or a later one, stays | overlapping uploads; failing nights, any number of manual files, a night that drops the wrong ones |
| `FlagFollowsMode` | nginx's flag is the setting once no writer is in between, but for what leaves it astray | a crash between commit and file, which the next start must heal; a file that is not written |
| `NoGhosts` | who signed out on the last page is not listed as online | a ping that waits for the lock across the logout |

Bounds: at most two requests at a time in each part. `Sessions`: a limit of 1 attempt,
three seconds and 3 requests, or 4 that all come before the last second
(`LastNotLate`); a token, a cutoff and a second token need no more.
`Playtime`: 2 players, one with an account, 3 names, 1 second of play, 3 sessions, a rename each; two renames, or one and all
three sessions, only where no second is counted (`ShortSessions`).
`Community`: 3 comments, deletions and reports, 2 comments under way; or, without
comments, 2 clicks under way and 5 reactions and votes, enough to delete another's reaction. `GameLink`: 1 server, 2
accounts, 2 Steam ids, 1 key. `Roles`: 2 users, 2 writes. `Messages`: 1 user, 2 ids,
2 fetches, a queue of 1, 2 sends. `Uploads`: the badge, 3 files. `Maintenance`: 3
moments, 2 orders (admins' writes and starts), 2 episodes. `Presence`: 1 user on 2 pages, and
`Hidden = Shown + MaxWait`, the least `PresenceAssumption` allows. `Backups`: 2
files stay, 4 are made: a night's and three more that push it out, failed or not.
`Logins`: 2 logins, 3 addresses. The parts have between
14 thousand and 80 thousand states.

The properties of `site`: `BonusIsEarnedOnce` (one bonus a day, for days that are
recorded, although reports overlap and dates come twice), `MailedOnce` (no
post is in two digests, although digests fail and posts go public late; unless two were at
work at one time, or it was written while one that has it was), `ScheduledGoesOut`
(a scheduled post goes out or is unscheduled), `NoEventUnreminded` (no start fixed before
the window passes it unreminded, although starts move, polls fail and the process restarts;
unless polls were too far apart or the id had its reminder for another start), `DailyRecurs` (a daily time that
stays set restarts the server for ever), `DownIsReported` (from some moment on, the admins
have been alerted about a server that stays away and the last word on it is that it is
down: the outage in which it stays away, not an earlier one), `NoGap` (a stream is a prefix of what was sent), `NotTooOften` (no announcement
before its interval is over).
Bounds: `Streaks` 3 overlapping connections, 3 days, a minimum of 2, a shift of the
timezone. `Restarts` days of 3 hours, 3 orders. `Monitor` 2 servers, a
threshold of one cycle, a snapshot kept, 1 restart. `Publishing` both loops, 2 ids, 3 edits, enough
to give an id again; digests of two senders with one of the loops and until two have crossed
(`MCSite`), as nothing is promised of them after. `Events` 2 users for one place, and,
in units of half a poll interval, a window from 2 to 6, starts at 3 and 8, 3 plans and
restarts: enough for a reminder, a postponement and a restart.
`Streams` 2 clients, 2 channels, queues of 2, 4 items. `Announcements` an
interval of 2 and one-offs, 3 writes.

Deadlock is not checked: each request is made once, so a behaviour ends.

Fairness. Points: `WF_vars(Step(r))` for each request, the event loop runs ready tasks
and the database answers. There is none on starting a request, on the lock
timeout, the crash or the clock.
Moderation: the plugin of every server polls with its heartbeat
(`WF(PollRead)`), every poll ends one way or the other (`WF` of `PollStamp` or
`PollFail`), and a poll that is repeated without end is not turned away without
end (`SF(PollStamp)`): without the last a database that locks every poll out
would leave players banned, with no code to do better. Nothing is assumed of
admins, players or the clock. The clan sync has no liveness of its own: a report
that fails is lost and the next one replaces it.
Site: `WF` of the loops that wake up whatever happened (`Monitor!Wake`,
`Publishing!Read`, the plugin's `PollRead`, `Execute` and `CleanUp`), of a monitor cycle that
has begun (it goes on or, after a minute at most, fails: `wait_for` in `_monitor_poll_task`)
and of the clock; `SF`
of what such a loop tries again each time and what only a failing database
stops (`PollArm`, `Publish` of each task; `Retry` groups them by part). Without the `SF` a
database that fails every time would stop each. The monitor has none: a cycle ends at the
first failure, and a server that fails for ever hides those behind it. `DownIsReported`
therefore asks, of the server and of those in front of it, that a cycle which gets to it
again and again stores its answer now and then (`PolledNowAndThen`).
None of admins, visitors, failures,
restarts or the game servers. The other parts have no
liveness: a comment, an upload or a login that fails is not repeated.

### What is proved

Points, for every value of the constants allowed by `ConstantsAssumption` (any
sets of accounts and requests, any catalog, any prices and limits):

* `TypeCorrect`: `TypeOK`. Its one deep part is that stock is never negative.
* `Isolation`: `TransactionInv`, in four parts: who holds the lock
  (`LockHeldByHolder`), what its draft is (`DraftIsDebit`), that what a request
  read of the queue still exists (`ReadsStand`), that offers in use were
  published (`OffersPublished`). The conjunction with `TypeOK` is inductive
  (`IInv`): `DraftIsDebit` needs the lock invariant so that nobody else changes
  `disk` while a redemption is under way.
* `Refinement`: `Spec => Contract!Spec`. From `IInv`, `RedeemRecord` is a
  `Purchase` of the contract: balance, stock and limit are those of the
  committed state, since the draft is the committed state plus the debit. Every
  other step is `Otherwise` or a stutter.
* `Snapshots`, `NoOverdraft`, `PaidOnce`: the ledger properties, each by its own
  induction on top of `IInv`.

Clans (`ClanAssumption`, and `~MayOverlap` for the last three):

* The inductive invariant `IInv` has five parts: types, one sync per server in
  flight (`OneInFlight`), what that sync has read of its own server is still so
  (`ReadsCurrent`), `NoOrphans` and `HistoryExplainsRoster`. `ReadsCurrent` is what
  the lock does not give, since the reads precede it; without `OneInFlight` it is
  not inductive, and `clans_overlap` shows that it is not true either.
* `NothingOrphaned`, `HistoryAddsUp`: two parts of it, for every report and
  failure, that of the diff alone included. `Refinement`: `Spec => Board!Spec`, where `SyncReplace` is the
  `Replace` of `ClanBoard` and every other step a stutter.

Moderation (`ModerationAssumption`; any players, servers, requests, terms and
threshold):

* `TypeCorrect`: `TypeOK`, which includes that no two rows hold the same ban.
* `LiftedJustly`: an action property. `ReadsHold` is its invariant: until the log
  is first cleared, what a poll or an unban has read of a row is still true of the
  row with that id. After a clear it is not, and the property says so.
* `ApprovedAreDue`: `ApprovalIsExecuted`, with purges and reused ids. `AppealInv`
  says that the only row that can hold the ban of an appeal is the one under the
  id it names, for the filed appeals and for those on their way. `BansStep` says
  what any step does to any row, and all three proofs go by it.
* `EscalatesOnce`: `EscalatesOncePerThreshold`, with overlap. `WarnInv` says that the mark
  is no more than the warnings, that a count still to be decided by lags behind them by at
  most the overlapping warnings (`CountedLately`), and that there is a mark `m` from when
  the first of the warnings under way began: the escalations that do not count as overlap
  are worth at most `m` and one threshold more, and whoever is about to escalate has
  counted so many (`Began`).
* `NoneSlips`: `NoThresholdSlips`, with overlap. `SlipInv` bounds the
  warnings since the last escalation by the threshold plus one for each failed
  request and each overlapping warning, strictly if none is under way; it counts over
  finite sets of requests.

`ClanSyncProofs!TypeCorrect` has the types of `ClanSync` under `~MayOverlap`.

Sessions (`SessionsProofs`, about `Spec` of `Sessions`, from `SessionsAssumption`: any
passwords, a positive limit of attempts, finitely many requests):

* `SessionTypes`: the types, and `Grounded`: what a request was let in with was issued,
  and the moment it stamps is past.
* `FewAttempts` (`AttemptsBounded`): `AttemptsInv` counts the requests that passed the
  check and have not failed yet together with the failed attempts.
* `NewestValid` (`OnlyNewestValid`): what is usable is of the last batch or is the last link.
  A reset that goes through with a replaced link makes nothing usable: it uses the newer one up.
* `RefusedForGood` (`RefusedStaysRefused`): `Ordered` says that no cutoff and no token
  lies in the future and that what a request stamps is not
  older than the cutoff unless the sessions were ended since it began.
* `SessionKept` (`KeepsSession`), from the types.

Accounts (`AccountsProofs`, about `AccountsSpec`; each invariant is over the variables of
one part, and a step of another leaves it alone):

* Roles. `SiteFoundedOnce` (`OneFounder`): `FounderInv` adds that before the
  welcome post there is no founder; its name is unique, so the second setup fails. `RolesSurvive`
  (`ChosenRolesSurvive`): `ServedAfterMigration`, that only a site which has run the
  migration serves, and so has founders. `SuperadminStays` (`SuperadminRemains`):
  `SuperInv` says that what a request has read still holds unless an account changed, and
  what the accounts are before there are tiers (`BeforeTiers`). A deletion of the own account
  keeps it while another superadmin stays.
* `ReadersTold` (`ReadersAreTold`), in three: `ToldInv` for comments (how far a comment's
  transactions are says who was told), `TabInv` for the tab (a list of messages
  that is not current is followed by a notice or another fetch, whatever the queue dropped),
  `LoginInv` for the mails (a login on its way has its address in the
  history, the mail or among the failed ones, or is the first).
* `FilesStay` (`FilesAreKept`, from `CopiesAssumption`), in two: `UploadInv`, that no two
  columns or uploads name one file and that those named are there; `CopyInv`, that a copy has
  one writer, that the files after a night's own are those counted since its beginning
  (`NightsFile`), and that a complete one among them has what the night has (`NewerHasMore`).
  Then either fewer than `Keep` came and the night's own stays, or a complete one does, or the
  night is `flooded`. Nothing is assumed of how many files the admins make.
* `ClaimsStay` (`ClaimsAreFinal`) and `PlaytimeStaysSound` (`PlaytimeIsSound`), from
  `PlaytimeAssumption`. `ClaimInv`: what a report has read is still its player's row, or
  one that nobody else can claim, since at any time a name is one player's. `PaidInv`: the
  points paid to a player are covered by the time played less what a report still to come
  will pay. TLC checked both with the types (`PlaytimeInv`) before they were proved.
* `FlagIsKept` (`FlagFollowsMode`) and `NobodyIsAGhost` (`NoGhosts`, from
  `PresenceAssumption`) apply `MaintenanceProofs!FlagIsRight` and
  `PresenceProofs!SignedOutAreNotListed`, which are about the component alone, to the
  composition: a behaviour of `Accounts` is one of each part. `FlagInv` adds that unless the
  file is astray, at most one writer is between its commit and the file and it carries the mode
  that was committed. The invariant of `Presence` says that the entry which hides a user who left is at
  most `MaxWait` older than the last stamp, on disk or still waiting; as the entry hides for
  `Shown + MaxWait`, the stamp is no longer shown when it goes.
* `AccountsTypes` (`AccountsTypeOK`, from `AccountsAssumption`: those above, and that limits
  are numbers): the types of all eleven parts. Most are inductive. `GameLink` says that a
  Steam id has one account, which a sign-up keeps only because an account that is not there
  yet has no Steam id (`LinkInv`). `Playtime` says that no session, report or poll counts more
  seconds than its player played: it takes `PaidInv`, and that what a poll has seen was played
  (`SeenInv`), which stays so as played seconds only grow. `Maintenance` says that at most
  `KeptEpisodes` are stored: what is cut and put in front is a lemma about sequences.
* `SessionsStaySound` takes the theorems of `SessionsProofs` over: a behaviour of `Accounts` is
  one of `Sessions` (`SessionsRun`).

Site (`SiteProofs`, about `SiteSpec`; the assumptions stand in `Site`, and TLC evaluates
them for the run's constants):

* `StreamsHaveNoGap` (`NoGap`, from `StreamsAssumption`): `StreamInv`, `NoGap` with the
  types, is inductive: the proof is about queues as sequences.
* `DigestsMailOnce` (`MailedOnce`): `MailInv` says that until two digests crossed at most one
  is at work, that it goes by the cutoff that is stored and has posts after it only, and that
  what was mailed is no later than the cutoff, but for the `early`.
* `EventsAreReminded` (`NoEventUnreminded`, from `EventsAssumption`): `EventInv` adds that an
  id marked as reminded had a reminder for this start or another (`ReminderIsKnown`) and
  that a start still to be reminded of was before the end of the window no longer ago than the
  last poll (`BeforeWindow`), as long as polls were not further apart than the window is
  wide. The assumption says only that the window is one; how often polls come is not assumed.
* `AnnouncedNotTooOften` (`NotTooOften`, from `AnnouncementsAssumption`): `AnnouncementInv`:
  the row tells when the players heard it (`SentWhenHeard`), and what a poll found due is due
  when it is stamped (`StillDue`), unless `pushed`.
* `SiteTypes` (`SiteTypeOK`, from all of these and `BoundsAssumption`): the types of all
  seven parts, in `TypesInv`. What is not plain is proved with them: a queue never holds more
  than its size, the snapshots are cut to what is kept, a server is alerted about only when it
  was away for the threshold, and a bonus needs a connection.
* `PaidOnceADay` (`BonusIsEarnedOnce`, from `StreaksAssumption`). `Claimed`: of the
  reports of a day and the bonus paid, at most one goes by a row it inserted; `Paid`: a
  report that earned has counted back over recorded days. The walk back is a least
  unrecorded day, whose existence is a lemma.

Model-checked only: liveness (`EveryRequestAnswered`, `DueIsLifted`, `DailyRecurs`,
`DownIsReported`, `ScheduledGoesOut`), which is out of the prover's reach, and what
`Rankings` computes, which are folds over data. Every other property of a passing run is
stated by a theorem. The proofs do not reason about fairness; they use `Init` and `Next`.

### Disagreements between the code and its docstrings

1. `_award_points` loses a purchase committed between the read and the write
   of a grant (`BalanceMatchesLedger`).
2. `cancel_shop_redemption` can refund twice (`NoDoubleRefund`).
3. A dangling `shop_item_id` is not harmless to the weekly limit
   (`DanglingIdIsHarmless`).
4. Overlapping syncs of one server do not replace the roster but pile members up
   (`NothingPilesUp`).
5. An appeal of a purged ban is not independent of its `ban_id`: approved, it
   lifts whichever ban has the id now (`ApprovalLiftsItsBan`).

Some modules state a promise that the code does not keep and no run checks; the
counterexamples were found with TLC:

* `Playtime!CountedOnce`: the docstring of `plugin_report_session` (244-247) says the report
  replaces A2S polling wherever the plugin runs. A poll that meets a fresh session before its report,
  or the row in between, adds the same seconds.
* `Presence!SeenIsListed`: a comment (`main.py:1076`) says a ping makes the user appear
  immediately; a logout on another page hides them for 5 minutes.
* `Uploads!LogoExists`: the file manager's "used by" is up to 15 s old, so it may
  delete the logo in use.
* `Backups!ListedAreComplete`: incomplete files are listed, and count among the ones kept.

Seen while modelling, and stated nowhere as a property. Accounts: the last superadmin may delete
the own account, whatever the role, and a setup that was completed does not open again; an
address whose check as new failed is recorded and never mailed about; a reset begun with a
replaced link goes through with the row of the newer one. Maintenance: a flag file that cannot be
written is noticed by nobody; setting the mode to the value it has writes the file all the same.
Backups: admins' copies of one night, if they are many and fail, push out the night's good one.
Moderation: the later of two overlapping warnings may move the mark back. Clans: a sync whose diff
fails leaves its joins and departures out of the history for good. News: the digest
selects by `created_at` (`helpers.py:664`), so a post written before a digest and published after it
is mailed never; the cutoff is committed before the mails, so what a restart then prevents is lost;
two digests at once mail twice, and a post written while a digest was at work is in the next one
too; a post deleted and replaced under its id while a loop is publishing is announced as
the old one. Events: one postponed after its reminder is not reminded of again, nor one whose window
passes while polls fail. Monitor: a server whose answers cannot be stored hides those
behind it. Reactions: a row read, freed and given to another user is deleted by its id. Others: the start time of maintenance is
never cleared, so a visit after an early end closes the site again; overlapping
visits leave flag and mode apart until the next start; the history of episodes loses
overlapping updates; `_scheduler_task` publishes templates, `_scheduled_publish_task`
does not; both may announce one post; a stale status write revives a cancelled event; a comment
or event that gets a freed id inherits reactions, or the reminder; two overlapping `.login` keep
the later link; a login in the second of a logout everywhere gets a dead token; one recovery code
can admit two overlapping logins; a client whose queue ran full is removed, though
`dm_broadcast` says only that update is dropped; `rank_delta` compares a rank among
the filtered with one among all.

## 3. Not modelled, and why

* The wishlist, push subscriptions, the rows that deleting an account removes or leaves (the
  account itself is in `Roles`), the
  marking of notifications, profile columns: rows of one request each. Their
  overlaps that matter (erasure leaves rows to a reused id) are hazards without a property.
* Token expiry, `is_active` at login, Discord and Steam sign-in; the in-game badge, peak and
  history of the online list; two A2S and status caches as two; the cap on incidents;
  offsite backup files; files named in the same second.
* The connection pool: when a stream gives its connection back is up to the framework.
* `_cleanup_task`, wipes, map and kill feeds, search, statistics, exports: reads, or
  deletions by age.
* Updates, git, docker, SSL, RCON and A2S packets, mail and Discord delivery: calls that leave the
  program. Their failure is an action where the code goes on after it.
* Database migration (except that of the roles), the frontend (except the message tab) and
  deployment files.

What would be worth adding next: erasure against the requests of the erased account.
