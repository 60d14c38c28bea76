------------------------------- MODULE Startup -------------------------------
(***************************************************************************)
(* One PC's start pipeline on Linux: do_start of bogo_oneclick.sh with     *)
(* infra_up.sh, provision_mm.py and service/install_service.sh.  A start   *)
(* brings the containers up, publishes Mattermost where .env says, sees to *)
(* the bots' tokens and the rooms' ids, restores a backup that came with   *)
(* the folder, does the first three again, and starts the services.  Any   *)
(* command may fail, the start may be killed between any two, and a human  *)
(* starts it again.                                                        *)
(*                                                                         *)
(* A command that fails before its effect and aborts the start is Killed;  *)
(* one that fails after its effect is its step and then Killed.            *)
(***************************************************************************)
EXTENDS Integers, FiniteSets

CONSTANTS
  Roles,      \* the services, each with a bot
  Nics,       \* the networks the PC may be on
  MaxStarts,  \* bound: starts
  MaxFaults,  \* bound: commands that fail
  MaxEvents   \* bound: what happens to the PC between starts

VARIABLES
  nic, env, det,                 \* the PC's network, MM_BIND_HOST of .env, the
                                 \* host the health checks probe
  pg, mm, net, bind,             \* the containers, pg's place in bogo-net, the
                                 \* host mm was created to be published at
  db, tokens, room, minted,      \* the database: "half" when a restore has replaced
                                 \* part of it; its valid tokens, the id of a room;
                                 \* tokens and ids made so far
  restored,                      \* nothing (more) to restore
  config, channel, blind,        \* *_config.json, channels.json; its id is unchecked
  units, enabled, proc, dash,    \* units systemd has loaded, and starts at boot; the
                                 \* token a bot's process uses; where the dashboard listens
  pc, part, todo,                \* control; what infra_up.sh is called for; roles to go
  hurt, faults, starts, events   \* hurt: a command of this start has failed

netVars == <<nic, env, det>>
boxVars == <<pg, mm, net, bind>>
srvVars == <<db, tokens, room, minted>>
fileVars == <<config, channel, blind>>
svcVars == <<units, enabled, proc, dash>>
ctlVars == <<pc, part, todo, hurt, faults, starts, events>>
vars == <<netVars, boxVars, srvVars, restored, fileVars, svcVars, ctlVars>>

Steps == {"idle", "net", "pg", "alias", "mm", "config", "wait", "bots",
          "host", "restore", "services", "check", "ok", "failed"}
\* No private network, or a public one as well; one; several.
NicKinds == {"loop", "lan", "multi"}

ASSUME StartupOK == /\ IsFiniteSet(Roles) /\ Nics \subseteq NicKinds
                    /\ MaxStarts \in Nat /\ MaxFaults \in Nat /\ MaxEvents \in Nat

\* A file that was truncated gives no id, a placeholder of the example files one
\* that is not the server's.
NoId == -1
Placeholder == 0

\* A fresh clone (placeholders, and nothing to restore), or a folder copied from
\* an old PC with its secrets (token 1, id 1) and its backup.
Init ==
  /\ nic \in Nics /\ env = "loop" /\ det = "loop"
  /\ pg = "absent" /\ mm = "absent" /\ net = "off" /\ bind = "loop"
  /\ db = "whole" /\ tokens = [r \in Roles |-> {}] /\ room = 0 /\ minted = 1
  /\ restored \in BOOLEAN
  /\ config = [r \in Roles |-> IF restored THEN Placeholder ELSE 1]
  /\ channel = (IF restored THEN Placeholder ELSE 1) /\ blind = FALSE
  /\ units = {} /\ enabled = {} /\ proc = [r \in Roles |-> 0] /\ dash = "down"
  /\ pc = "idle" /\ part = "infra" /\ todo = {}
  /\ hurt = FALSE /\ faults = 0 /\ starts = 0 /\ events = 0

-----------------------------------------------------------------------------
Resting == pc \in {"idle", "ok", "failed"}

Go(s) == pc' = s /\ UNCHANGED <<part, todo, hurt, faults, starts, events>>

\* A command fails, and the start goes on at s.
GoHurt(s) == /\ faults < MaxFaults /\ faults' = faults + 1 /\ hurt' = TRUE
             /\ pc' = s /\ UNCHANGED <<part, todo, starts, events>>

\* Step s, once for each role of rs.
GoEach(s, rs) == pc' = s /\ todo' = rs /\ UNCHANGED <<part, hurt, faults, starts, events>>

\* The same, when a command for role r has failed.
DoneHurt(r) == /\ faults < MaxFaults /\ faults' = faults + 1 /\ hurt' = TRUE
               /\ todo' = todo \ {r} /\ UNCHANGED <<pc, part, starts, events>>

do_start == /\ Resting /\ starts < MaxStarts
            /\ starts' = starts + 1 /\ hurt' = FALSE
            /\ pc' = "net" /\ part' = "infra" /\ todo' = {}
            /\ UNCHANGED <<netVars, boxVars, srvVars, restored, fileVars, svcVars, faults, events>>

Killed == /\ ~Resting /\ GoHurt("failed")
          /\ UNCHANGED <<netVars, boxVars, srvVars, restored, fileVars, svcVars>>

-----------------------------------------------------------------------------
\* net_autodetect.py: with several private networks everything is bound, with
\* one its address; a public address takes the detected keys out of .env.
decide_mode(n) == CASE n = "multi" -> "all" [] n = "lan" -> "lan" [] OTHER -> "loop"
Probe(n) == IF n \in {"lan", "multi"} THEN "lan" ELSE "loop"
Reaches(b, h) == b \in {"all", h}

step_netdetect == /\ pc = "net"
                  /\ env' = decide_mode(nic) /\ det' = Probe(nic)
                  /\ Go("pg")
                  /\ UNCHANGED <<nic, boxVars, srvVars, restored, fileVars, svcVars>>

\* The start goes on with the .env there is, and probes the loopback.
NetdetectFails == /\ pc = "net"
                  /\ env' \in {env, decide_mode(nic)} /\ det' = "loop"
                  /\ GoHurt("pg")
                  /\ UNCHANGED <<nic, boxVars, srvVars, restored, fileVars, svcVars>>

-----------------------------------------------------------------------------
\* infra_up.sh.  Docker (external) starts a container only if the PC has the
\* address it is published at.
HasAddress(b) == b = "lan" => nic \in {"lan", "multi"}

\* compose up, or the same with the plain Docker CLI: mm is made anew as .env says.
CreateMM(s) == /\ bind' = env
               /\ IF HasAddress(env) THEN mm' = "running" /\ Go(s)
                                     ELSE mm' = "stopped" /\ Go("failed")

ensure_pg == /\ pc = "pg"
             /\ pg' = "running"
             /\ IF pg = "absent" THEN net' = "alias" /\ CreateMM("alias")
                                 ELSE UNCHANGED <<mm, net, bind>> /\ Go("alias")
             /\ UNCHANGED <<netVars, srvVars, restored, fileVars, svcVars>>

\* The image of mm cannot be pulled, say.
CreatesHalf == /\ pc = "pg" /\ pg = "absent"
               /\ pg' = "running" /\ net' = "alias"
               /\ GoHurt("failed")
               /\ UNCHANGED <<mm, bind, netVars, srvVars, restored, fileVars, svcVars>>

\* Slip: a pg that is on no network is left there.
ensure_pg_legacy_alias_attached ==
  /\ pc = "alias"
  /\ net' = IF net = "off" THEN "off" ELSE "alias"
  /\ Go("mm")
  /\ UNCHANGED <<pg, mm, bind, netVars, srvVars, restored, fileVars, svcVars>>

ensure_pg_legacy_alias == /\ pc = "alias"
                          /\ net' = "alias"
                          /\ Go("mm")
                          /\ UNCHANGED <<pg, mm, bind, netVars, srvVars, restored, fileVars, svcVars>>

\* The alias is given by disconnect and connect; a failure is a warning.
AliasFails == /\ pc = "alias" /\ net = "plain"
              /\ net' \in {"plain", "off"}
              /\ GoHurt("mm")
              /\ UNCHANGED <<pg, mm, bind, netVars, srvVars, restored, fileVars, svcVars>>

ensure_mm == /\ pc = "mm"
             /\ CASE mm = "absent" -> CreateMM("config")
                  [] mm = "running" -> UNCHANGED <<mm, bind>> /\ Go("config")
                  [] mm = "stopped" /\ HasAddress(bind) ->
                       mm' = "running" /\ UNCHANGED bind /\ Go("config")
                  [] OTHER -> UNCHANGED <<mm, bind>> /\ Go("failed")
             /\ UNCHANGED <<pg, net, netVars, srvVars, restored, fileVars, svcVars>>

ensure_compose_config_current ==
  /\ pc = "config"
  /\ IF bind = env THEN UNCHANGED <<mm, bind>> /\ Go("wait") ELSE CreateMM("wait")
  /\ UNCHANGED <<pg, net, netVars, srvVars, restored, fileVars, svcVars>>

\* The old container is removed and no new one is made.
RecreateFails == /\ pc = "config" /\ bind # env
                 /\ mm' = "absent"
                 /\ GoHurt("failed")
                 /\ UNCHANGED <<pg, net, bind, netVars, srvVars, restored, fileVars, svcVars>>

\* A mm that was healthy counts as healthy for a while after it lost its database.
\* On half a database it may come up or not.
wait_mm_ready == /\ pc = "wait"
                 /\ \/ GoEach("bots", Roles)
                    \/ (net # "alias" \/ db = "half") /\ Go("failed")
                 /\ UNCHANGED <<netVars, boxVars, srvVars, restored, fileVars, svcVars>>

-----------------------------------------------------------------------------
\* provision_mm.py.  The scripts work inside the container; the check of a token
\* does not, and the bots do not: they call MM_HOST, 127.0.0.1 unless .env has it.
_token_valid(r) == config[r] \in tokens[r] /\ Reaches(bind, "loop")

\* A new token for r, recorded as c.
Issue(r, c) == /\ minted' = minted + 1
               /\ tokens' = [tokens EXCEPT ![r] = @ \cup {minted + 1}]
               /\ config' = [config EXCEPT ![r] = c]

\* Slip: every run makes a new token.
ensure_bot_again(r) ==
  /\ pc = "bots" /\ r \in todo /\ net = "alias"
  /\ Issue(r, minted + 1)
  /\ GoEach("bots", todo \ {r})
  /\ UNCHANGED <<db, room, channel, blind, netVars, boxVars, restored, svcVars>>

ensure_bot(r) ==
  /\ pc = "bots" /\ r \in todo /\ net = "alias"
  /\ IF _token_valid(r) THEN UNCHANGED <<minted, tokens, config>> ELSE Issue(r, minted + 1)
  /\ GoEach("bots", todo \ {r})
  /\ UNCHANGED <<db, room, channel, blind, netVars, boxVars, restored, svcVars>>

\* The check of a valid token fails, as when the server is slow.
TokenUnverified(r) ==
  /\ pc = "bots" /\ r \in todo /\ net = "alias" /\ _token_valid(r)
  /\ Issue(r, minted + 1)
  /\ DoneHurt(r)
  /\ UNCHANGED <<db, room, channel, blind, netVars, boxVars, restored, svcVars>>

\* It dies with the file truncated, which it also rewrites when it keeps the token,
\* or after it has made a token and before it records it.
TokenUnrecorded(r) ==
  /\ pc = "bots" /\ r \in todo /\ net = "alias"
  /\ IF _token_valid(r)
     THEN config' = [config EXCEPT ![r] = Placeholder] /\ UNCHANGED <<minted, tokens>>
     ELSE \E c \in {config[r], Placeholder} : Issue(r, c)
  /\ GoHurt("failed")
  /\ UNCHANGED <<db, room, channel, blind, netVars, boxVars, restored, svcVars>>

\* Without its database, or with half of it, the server may refuse what it is told.
ProvisionRaises == /\ pc = "bots" /\ (net # "alias" \/ db = "half")
                   /\ Go("failed")
                   /\ UNCHANGED <<netVars, boxVars, srvVars, restored, fileVars, svcVars>>

AfterInfra == IF part = "infra" THEN Go("host") ELSE GoEach("services", Roles)

\* The room, made if there is none of its name.
EnsureRoom == IF room = 0 THEN room' = minted + 1 /\ minted' = minted + 1
                          ELSE UNCHANGED <<room, minted>>

ensure_channels == /\ pc = "bots" /\ todo = {} /\ net = "alias"
                   /\ EnsureRoom
                   /\ channel' = room' /\ blind' = FALSE
                   /\ AfterInfra
                   /\ UNCHANGED <<db, tokens, config, netVars, boxVars, restored, svcVars>>
\* The rooms cannot be listed: what is on record stays, a placeholder too; without
\* any record the start ends.
ListFails == /\ pc = "bots" /\ todo = {} /\ net = "alias"
             /\ EnsureRoom
             /\ UNCHANGED channel /\ blind' = TRUE
             /\ faults < MaxFaults /\ faults' = faults + 1 /\ hurt' = TRUE
             /\ pc' = (IF channel = NoId THEN "failed" ELSE IF part = "infra" THEN "host" ELSE "services")
             /\ todo' = Roles
             /\ UNCHANGED <<part, starts, events, db, tokens, config, netVars, boxVars, restored, svcVars>>

\* It dies with channels.json truncated.
RoomUnrecorded == /\ pc = "bots" /\ todo = {} /\ net = "alias"
                  /\ EnsureRoom
                  /\ channel' = NoId /\ UNCHANGED blind
                  /\ GoHurt("failed")
                  /\ UNCHANGED <<db, tokens, config, netVars, boxVars, restored, svcVars>>

-----------------------------------------------------------------------------
\* bogo_oneclick.sh, after infra_up.sh.
step_mattermost_host_check ==
  /\ pc = "host"
  /\ Go(IF Reaches(bind, det) THEN "restore" ELSE "failed")
  /\ UNCHANGED <<netVars, boxVars, srvVars, restored, fileVars, svcVars>>

\* Slip: the services are started at once.
step_bots_at_once == /\ pc' = "services" /\ todo' = Roles
                     /\ part' = IF units # {} \/ dash # "down" THEN "restart" ELSE "setup"
                     /\ UNCHANGED <<starts, events>>

\* step_bots: bogo_ctl.sh calls infra_up.sh again, to restart the services if
\* there are any, else to set them up.
step_bots == /\ pc' = "pg" /\ todo' = {}
             /\ part' = IF units # {} \/ dash # "down" THEN "restart" ELSE "setup"
             /\ UNCHANGED <<starts, events>>

\* The old PC's database is in place of this one; nothing of it is; some tables
\* are dropped or empty, those of the tokens and the rooms among them or not.
Replaced == db' = "whole" /\ tokens' = [r \in Roles |-> {1}] /\ room' = 1
Kept     == UNCHANGED <<db, tokens, room>>
Halved   == /\ db' = "half" /\ room' \in {room, 0, 1}
            /\ tokens' \in {tokens, [r \in Roles |-> {}], [r \in Roles |-> {1}]}

\* bogo_restore.sh puts the old PC's database in place of this one, once.
step_restore == /\ pc = "restore"
                /\ IF restored THEN Kept /\ UNCHANGED mm ELSE Replaced /\ mm' = "running"
                /\ restored' = TRUE
                /\ step_bots /\ UNCHANGED <<hurt, faults>>
                /\ UNCHANGED <<pg, net, bind, minted, netVars, fileVars, svcVars>>

\* It ends without its marker, at any point of its work; mm, and pg where the
\* volume is restored, may be stopped then.
Interrupted == /\ mm' \in {"running", "stopped"} /\ pg' \in {pg, "stopped"}
               /\ Kept \/ Halved \/ Replaced
               /\ UNCHANGED restored

\* It goes on after a failed pg_restore, or a container that does not start again,
\* and writes the marker.
Marked == /\ \/ UNCHANGED pg /\ (Kept \/ Halved)
             \/ pg' \in {pg, "stopped"} /\ Replaced
          /\ mm' \in {"running", "stopped"}
          /\ restored' = TRUE

\* The start goes on in either case.
RestoreFails ==
  /\ pc = "restore" /\ ~restored
  /\ Interrupted \/ Marked
  /\ faults < MaxFaults /\ faults' = faults + 1 /\ hurt' = TRUE
  /\ step_bots
  /\ UNCHANGED <<net, bind, minted, netVars, fileVars, svcVars>>

\* The start is killed in the restore.
RestoreKilled ==
  /\ pc = "restore" /\ ~restored
  /\ Interrupted
  /\ GoHurt("failed")
  /\ UNCHANGED <<net, bind, minted, netVars, fileVars, svcVars>>

-----------------------------------------------------------------------------
\* service/install_service.sh.  Setting up enables what restarting only starts.
RunRole(r) == /\ units' = units \cup {r}
              /\ enabled' = IF part = "setup" THEN enabled \cup {r} ELSE enabled
              /\ proc' = [proc EXCEPT ![r] = config[r]]

linux_install_or_restart(r) ==
  /\ pc = "services" /\ r \in todo
  /\ RunRole(r)
  /\ GoEach("services", todo \ {r})
  /\ UNCHANGED <<dash, netVars, boxVars, srvVars, restored, fileVars>>

\* "systemctl restart ... && say ...": a failure does not end the script.
RestartFails(r) ==
  /\ pc = "services" /\ r \in todo /\ part = "restart"
  /\ proc' = [proc EXCEPT ![r] = 0] /\ units' = units \cup {r}
  /\ DoneHurt(r)
  /\ UNCHANGED <<enabled, dash, netVars, boxVars, srvVars, restored, fileVars>>

RunDashboard == /\ pc = "services" /\ todo = {}
                /\ dash' = env
                /\ Go("check")
                /\ UNCHANGED <<units, enabled, proc, netVars, boxVars, srvVars, restored, fileVars>>

DashboardFails == /\ pc = "services" /\ todo = {} /\ part = "restart"
                  /\ dash' = "down"
                  /\ GoHurt("check")
                  /\ UNCHANGED <<units, enabled, proc, netVars, boxVars, srvVars, restored, fileVars>>

\* step_bot_services_check and step_dashboard.
StepChecks ==
  /\ pc = "check"
  /\ Go(IF (\A r \in Roles : proc[r] # 0) /\ Reaches(dash, det) THEN "ok" ELSE "failed")
  /\ UNCHANGED <<netVars, boxVars, srvVars, restored, fileVars, svcVars>>

-----------------------------------------------------------------------------
\* What happens to the PC between starts.  The last start is history then.
Event == /\ Resting /\ events < MaxEvents /\ events' = events + 1
         /\ pc' = "idle"
         /\ UNCHANGED <<part, todo, hurt, faults, starts>>

PlugIn(n) == /\ Event
             /\ nic' = n
             /\ UNCHANGED <<env, det, boxVars, srvVars, restored, fileVars, svcVars>>

\* docker stop, compose down, or a network made anew by hand.  Volumes stay.
TouchContainers ==
  /\ Event /\ pg = "running"
  /\ \/ pg' = "stopped" /\ UNCHANGED net /\ mm' = (IF mm = "absent" THEN mm ELSE "stopped")
     \/ pg' = "absent" /\ mm' = "absent" /\ net' = "off"
     \/ net' \in {"off", "plain"} /\ UNCHANGED <<pg, mm>>
  /\ UNCHANGED <<bind, netVars, srvVars, restored, fileVars, svcVars>>

\* Containers that ran and services that are enabled come back.
Reboot ==
  /\ Event
  /\ mm' = IF mm = "running" /\ ~HasAddress(bind) THEN "stopped" ELSE mm
  /\ units' = enabled
  /\ proc' = [r \in Roles |-> IF r \in enabled THEN config[r] ELSE 0]
  /\ dash' = IF dash = "down" THEN "down" ELSE env
  /\ UNCHANGED <<enabled, pg, net, bind, netVars, srvVars, restored, fileVars>>

\* do_stop: without --all (rs = {}) the dashboard only; with it, the roles of rs are
\* unregistered before the command ends or is interrupted.
do_stop(rs) ==
  /\ Event
  /\ dash' = "down"
  /\ units' = units \ rs /\ enabled' = enabled \ rs
  /\ proc' = [r \in Roles |-> IF r \in rs THEN 0 ELSE proc[r]]
  /\ UNCHANGED <<netVars, boxVars, srvVars, restored, fileVars>>

Infra == \/ ensure_pg \/ CreatesHalf \/ ensure_pg_legacy_alias \/ AliasFails \/ ensure_mm
         \/ ensure_compose_config_current \/ RecreateFails \/ wait_mm_ready

Provision == \/ \E r \in Roles : ensure_bot(r) \/ TokenUnverified(r) \/ TokenUnrecorded(r)
             \/ ProvisionRaises \/ ensure_channels \/ ListFails \/ RoomUnrecorded

Services == \/ \E r \in Roles : linux_install_or_restart(r) \/ RestartFails(r)
            \/ RunDashboard \/ DashboardFails \/ StepChecks

Between == \/ \E n \in Nics : PlugIn(n)
           \/ \E rs \in SUBSET Roles : do_stop(rs)
           \/ TouchContainers \/ Reboot

Next == \/ do_start \/ Killed \/ step_netdetect \/ NetdetectFails
        \/ Infra \/ Provision
        \/ step_mattermost_host_check \/ step_restore \/ RestoreFails \/ RestoreKilled
        \/ Services \/ Between

Spec == Init /\ [][Next]_vars

-----------------------------------------------------------------------------
BoxTypes == /\ nic \in Nics /\ env \in {"loop", "lan", "all"} /\ det \in {"loop", "lan"}
            /\ pg \in {"absent", "stopped", "running"}
            /\ mm \in {"absent", "stopped", "running"}
            /\ net \in {"off", "plain", "alias"} /\ bind \in {"loop", "lan", "all"}
SrvTypes == /\ db \in {"whole", "half"}
            /\ tokens \in [Roles -> SUBSET Nat] /\ room \in Nat /\ minted \in Nat \ {0}
            /\ config \in [Roles -> Nat] /\ channel \in Nat \cup {NoId}
SvcTypes == /\ units \subseteq Roles /\ enabled \subseteq Roles
            /\ proc \in [Roles -> Nat] /\ dash \in {"down", "loop", "lan", "all"}
CtlTypes == /\ pc \in Steps /\ part \in {"infra", "setup", "restart"} /\ todo \subseteq Roles
            /\ faults \in Nat /\ starts \in Nat /\ events \in Nat

Flags == restored \in BOOLEAN /\ blind \in BOOLEAN /\ hurt \in BOOLEAN

TypeOK == BoxTypes /\ SrvTypes /\ SvcTypes /\ CtlTypes /\ Flags

\* No false completion (bogo_oneclick.sh:11): when a start says that all is up,
\* Mattermost runs on its database and answers where .env says, as the dashboard
\* does, and every bot runs with a token that the server, restored or not, knows.
\* The room on record is the server's, unless the rooms could not be listed.
CompleteMeansUp ==
  pc = "ok" => /\ pg = "running" /\ mm = "running" /\ net = "alias"
               /\ bind = env /\ dash = env
               /\ \A r \in Roles : proc[r] \in tokens[r]
               /\ blind \/ channel = room

\* What earlier starts, deaths and failures have left never makes a start fail in
\* which every command works.  There are two exceptions.  A mm that is stopped and
\* published at an address the PC has lost: ensure_container starts it before
\* ensure_compose_config_current would make it anew.  And a database that a failed
\* or killed restore has left half replaced: Mattermost must come up on it before
\* the restore is tried again, and one that was marked as done is not tried again.
RerunCompletes ==
  pc = "failed" => hurt \/ db = "half" \/ (mm = "stopped" /\ ~HasAddress(bind))

\* Provisioning again keeps a token that works where the check can reach the server
\* (provision_mm.py:26).
ValidTokensKept ==
  [][\A r \in Roles : _token_valid(r) /\ config'[r] # config[r] => hurt']_vars

\* .env.example:52 "봇은 서버 로컬에서 127.0.0.1 로 자기 Mattermost 에 붙으므로(같은
\* PC) MM_HOST 를 비워두면 ... 봇 경로는 항상 안정적", and bogo_oneclick.sh:637 "connecting
\* to MM over the server-local 127.0.0.1": after a complete start the bots reach
\* Mattermost there.
BotsReach == pc = "ok" => Reaches(bind, "loop")
=============================================================================
