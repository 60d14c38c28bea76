--------------------------- MODULE Startup_proofs ---------------------------
(***************************************************************************)
(* Proofs about Startup: what a start that says it is complete has brought *)
(* up, and that a start in which no command fails gets there whatever      *)
(* earlier ones have left, for any roles, networks, starts and failures.   *)
(* And about Dashboard, the last thing that a start brings up: what it     *)
(* does, it does for logins that last, for any browsers and threads.       *)
(***************************************************************************)
EXTENDS Startup, Dashboard, TLAPS

\* The steps that come after one of the start's achievements.
AfterBots   == {"host", "restore", "services", "check", "ok"}
AfterConfig == AfterBots \cup {"wait", "bots"}
AfterMm     == AfterConfig \cup {"config"}
AfterAlias  == AfterMm \cup {"mm"}
AfterPg     == AfterAlias \cup {"alias"}
AfterNet    == AfterPg \cup {"pg"}

\* What the containers are once their step is over.
Containers == /\ pc \in AfterPg => pg = "running"
              /\ pc \in AfterMm => mm = "running"
              /\ pc \in AfterConfig => bind = env
              /\ pc \in AfterBots => net = "alias"

\* The tokens and the room on record once they have been seen to.
Secrets == /\ \A r \in Roles : 0 \notin tokens[r]
           /\ pc = "bots" => \A r \in Roles \ todo : config[r] \in tokens[r]
           /\ pc \in {"services", "check"} =>
                /\ \A r \in Roles : config[r] \in tokens[r]
                /\ blind \/ channel = room

\* A service that has had its turn runs with what is on record, or not at all.
Running == /\ pc \in {"services", "check"} => \A r \in Roles \ todo : proc[r] \in {0, config[r]}
           /\ pc = "check" => todo = {} /\ dash \in {env, "down"}

\* What holds as long as no command of the start has failed.
Smooth == hurt \/ /\ pc \in AfterNet => env = decide_mode(nic) /\ det = Probe(nic)
                  /\ pc \in AfterAlias => net = "alias"
                  /\ pc \in {"services", "check"} => \A r \in Roles \ todo : proc[r] = config[r]
                  /\ pc = "check" => dash = env

\* What a start has done so far, and what the two properties ask of its end.
Progress == Containers /\ Secrets /\ Running /\ Smooth /\ CompleteMeansUp /\ RerunCompletes

IInv == TypeOK /\ Progress

-----------------------------------------------------------------------------
\* What detection writes can be published, and is where the health checks look.
LEMMA DetectedIsReached ==
  ASSUME NEW n \in Nics
  PROVE  /\ decide_mode(n) \in {"loop", "lan", "all"} /\ Probe(n) \in {"loop", "lan"}
         /\ Reaches(decide_mode(n), Probe(n))
         /\ decide_mode(n) = "lan" => n \in {"lan", "multi"}
BY StartupOK DEF decide_mode, Probe, NicKinds, Reaches

LEMMA InvInit == Init => IInv
<1> SUFFICES ASSUME Init PROVE IInv OBVIOUS
<1>1. TypeOK
  <2>1. BoxTypes BY DEF Init, BoxTypes
  <2>2. SrvTypes BY DEF Init, SrvTypes, Placeholder
  <2>3. SvcTypes BY DEF Init, SvcTypes
  <2>4. CtlTypes BY DEF Init, CtlTypes, Steps
  <2>5. Flags    BY DEF Init, Flags
  <2> QED BY <2>1, <2>2, <2>3, <2>4, <2>5 DEF TypeOK
<1>2. Containers /\ Secrets /\ Running
      BY DEF Init, Containers, Secrets, Running, AfterPg, AfterAlias, AfterMm, AfterConfig,
         AfterBots
<1>3. Smooth
      BY DEF Init, Smooth, AfterNet, AfterPg, AfterAlias, AfterMm, AfterConfig, AfterBots
<1>4. CompleteMeansUp /\ RerunCompletes
      BY DEF Init, CompleteMeansUp, RerunCompletes
<1> QED BY <1>1, <1>2, <1>3, <1>4 DEF IInv, Progress

-----------------------------------------------------------------------------
\* The types.
LEMMA NetTypes ==
  ASSUME TypeOK, do_start \/ Killed \/ step_netdetect \/ NetdetectFails
  PROVE  TypeOK'
<1> USE DEF netVars, boxVars, srvVars, fileVars, svcVars, Go, GoHurt, GoEach, DoneHurt, Event
<1>1. CASE do_start
  <2> USE <1>1 DEF do_start
  <2>1. BoxTypes' BY DEF TypeOK, BoxTypes
  <2>2. SrvTypes' BY DEF TypeOK, SrvTypes
  <2>3. SvcTypes' BY DEF TypeOK, SvcTypes
  <2>4. CtlTypes' BY DEF TypeOK, CtlTypes, Steps
  <2>5. Flags'    BY DEF TypeOK, Flags
  <2> QED BY <2>1, <2>2, <2>3, <2>4, <2>5 DEF TypeOK
<1>2. CASE Killed
      BY <1>2 DEF Killed, TypeOK, BoxTypes, SrvTypes, SvcTypes, CtlTypes, Flags, Steps
<1>3. CASE step_netdetect
      BY <1>3, DetectedIsReached DEF step_netdetect, TypeOK, BoxTypes, SrvTypes, SvcTypes,
         CtlTypes, Flags, Steps
<1>4. CASE NetdetectFails
      BY <1>4, DetectedIsReached DEF NetdetectFails, TypeOK, BoxTypes, SrvTypes, SvcTypes,
         CtlTypes, Flags, Steps
<1> QED BY <1>1, <1>2, <1>3, <1>4

LEMMA InfraTypes ==
  ASSUME TypeOK, Infra
  PROVE  TypeOK'
<1> USE DEF netVars, boxVars, srvVars, fileVars, svcVars, Go, GoHurt, GoEach, DoneHurt, Event
<1>1. CASE ensure_pg
      BY <1>1 DEF ensure_pg, CreateMM, TypeOK, BoxTypes, SrvTypes, SvcTypes, CtlTypes, Flags,
         Steps
<1>2. CASE CreatesHalf
      BY <1>2 DEF CreatesHalf, TypeOK, BoxTypes, SrvTypes, SvcTypes, CtlTypes, Flags, Steps
<1>3. CASE ensure_pg_legacy_alias
      BY <1>3 DEF ensure_pg_legacy_alias, TypeOK, BoxTypes, SrvTypes, SvcTypes, CtlTypes,
         Flags, Steps
<1>4. CASE AliasFails
      BY <1>4 DEF AliasFails, TypeOK, BoxTypes, SrvTypes, SvcTypes, CtlTypes, Flags, Steps
<1>5. CASE ensure_mm
      BY <1>5 DEF ensure_mm, CreateMM, TypeOK, BoxTypes, SrvTypes, SvcTypes, CtlTypes, Flags,
         Steps
<1>6. CASE ensure_compose_config_current
      BY <1>6 DEF ensure_compose_config_current, CreateMM, TypeOK, BoxTypes, SrvTypes,
         SvcTypes, CtlTypes, Flags, Steps
<1>7. CASE RecreateFails
      BY <1>7 DEF RecreateFails, TypeOK, BoxTypes, SrvTypes, SvcTypes, CtlTypes, Flags, Steps
<1>8. CASE wait_mm_ready
      BY <1>8 DEF wait_mm_ready, TypeOK, BoxTypes, SrvTypes, SvcTypes, CtlTypes, Flags, Steps
<1> QED BY <1>1, <1>2, <1>3, <1>4, <1>5, <1>6, <1>7, <1>8 DEF Infra

LEMMA ProvisionTypes ==
  ASSUME TypeOK, Provision
  PROVE  TypeOK'
<1> USE DEF netVars, boxVars, srvVars, fileVars, svcVars, Go, GoHurt, GoEach, DoneHurt, Event
<1>1. ASSUME NEW r \in Roles, ensure_bot(r) PROVE TypeOK'
      BY <1>1 DEF ensure_bot, Issue, TypeOK, BoxTypes, SrvTypes, SvcTypes, CtlTypes, Flags, Steps
<1>2. ASSUME NEW r \in Roles, TokenUnverified(r) PROVE TypeOK'
      BY <1>2 DEF TokenUnverified, Issue, TypeOK, BoxTypes, SrvTypes, SvcTypes, CtlTypes,
         Flags, Steps
<1>3. ASSUME NEW r \in Roles, TokenUnrecorded(r) PROVE TypeOK'
      BY <1>3 DEF TokenUnrecorded, Issue, Placeholder, TypeOK, BoxTypes, SrvTypes, SvcTypes,
         CtlTypes, Flags, Steps
<1>4. CASE ProvisionRaises
      BY <1>4 DEF ProvisionRaises, TypeOK, BoxTypes, SrvTypes, SvcTypes, CtlTypes, Flags, Steps
<1>5. CASE ensure_channels
  <2> USE <1>5 DEF ensure_channels, EnsureRoom, AfterInfra
  <2>1. BoxTypes' BY DEF TypeOK, BoxTypes
  <2>2. SrvTypes' BY DEF TypeOK, SrvTypes
  <2>3. SvcTypes' BY DEF TypeOK, SvcTypes
  <2>4. CtlTypes' BY DEF TypeOK, CtlTypes, Steps
  <2>5. Flags'    BY DEF TypeOK, Flags
  <2> QED BY <2>1, <2>2, <2>3, <2>4, <2>5 DEF TypeOK
<1>6. CASE ListFails
      BY <1>6 DEF ListFails, EnsureRoom, TypeOK, BoxTypes, SrvTypes, SvcTypes, CtlTypes, Flags,
         Steps
<1>7. CASE RoomUnrecorded
      BY <1>7 DEF RoomUnrecorded, EnsureRoom, TypeOK, BoxTypes, SrvTypes, SvcTypes, CtlTypes,
         Flags, Steps
<1> QED BY <1>1, <1>2, <1>3, <1>4, <1>5, <1>6, <1>7 DEF Provision

LEMMA HostTypes ==
  ASSUME TypeOK, step_mattermost_host_check \/ step_restore \/ RestoreFails \/ RestoreKilled
  PROVE  TypeOK'
<1> USE DEF netVars, boxVars, srvVars, fileVars, svcVars, Go, GoHurt, GoEach, DoneHurt, Event
<1>1. CASE step_mattermost_host_check
      BY <1>1 DEF step_mattermost_host_check, TypeOK, BoxTypes, SrvTypes, SvcTypes, CtlTypes,
         Flags, Steps
<1>2. CASE step_restore
  <2> USE <1>2 DEF step_restore, step_bots
  <2>1. BoxTypes' BY DEF TypeOK, BoxTypes
  <2>2. SrvTypes' BY DEF Replaced, Kept, TypeOK, SrvTypes
  <2>3. SvcTypes' BY DEF TypeOK, SvcTypes
  <2>4. CtlTypes' BY DEF TypeOK, CtlTypes, Steps
  <2>5. Flags'    BY DEF TypeOK, Flags
  <2> QED BY <2>1, <2>2, <2>3, <2>4, <2>5 DEF TypeOK
<1>3. ASSUME RestoreFails \/ RestoreKilled PROVE TypeOK'
  <2>0. /\ pg' \in {pg, "stopped"} /\ mm' \in {"running", "stopped"}
        /\ Kept \/ Halved \/ Replaced
        /\ restored' \in {restored, TRUE} /\ hurt' = TRUE /\ faults' = faults + 1
        /\ pc' \in {"pg", "failed"} /\ part' \in {part, "restart", "setup"}
        /\ todo' \in {todo, {}}
        /\ UNCHANGED <<netVars, net, bind, minted, fileVars, svcVars, starts, events>>
        BY <1>3 DEF RestoreFails, RestoreKilled, Interrupted, Marked, step_bots
  <2>1. BoxTypes' BY <2>0 DEF TypeOK, BoxTypes
  <2>2. SrvTypes' BY <2>0 DEF Kept, Halved, Replaced, TypeOK, SrvTypes
  <2>3. SvcTypes' BY <2>0 DEF TypeOK, SvcTypes
  <2>4. CtlTypes' BY <2>0 DEF TypeOK, CtlTypes, Steps
  <2>5. Flags'    BY <2>0 DEF TypeOK, Flags
  <2> QED BY <2>1, <2>2, <2>3, <2>4, <2>5 DEF TypeOK
<1> QED BY <1>1, <1>2, <1>3

LEMMA ServiceTypes ==
  ASSUME TypeOK, Services
  PROVE  TypeOK'
<1> USE DEF netVars, boxVars, srvVars, fileVars, svcVars, Go, GoHurt, GoEach, DoneHurt, Event
<1>1. ASSUME NEW r \in Roles, linux_install_or_restart(r) PROVE TypeOK'
      BY <1>1 DEF linux_install_or_restart, RunRole, TypeOK, BoxTypes, SrvTypes, SvcTypes,
         CtlTypes, Flags, Steps
<1>2. ASSUME NEW r \in Roles, RestartFails(r) PROVE TypeOK'
      BY <1>2 DEF RestartFails, TypeOK, BoxTypes, SrvTypes, SvcTypes, CtlTypes, Flags, Steps
<1>3. CASE RunDashboard
      BY <1>3 DEF RunDashboard, TypeOK, BoxTypes, SrvTypes, SvcTypes, CtlTypes, Flags, Steps
<1>4. CASE DashboardFails
      BY <1>4 DEF DashboardFails, TypeOK, BoxTypes, SrvTypes, SvcTypes, CtlTypes, Flags, Steps
<1>5. CASE StepChecks
      BY <1>5 DEF StepChecks, TypeOK, BoxTypes, SrvTypes, SvcTypes, CtlTypes, Flags, Steps
<1> QED BY <1>1, <1>2, <1>3, <1>4, <1>5 DEF Services

LEMMA EventTypes ==
  ASSUME TypeOK, Between
  PROVE  TypeOK'
<1> USE DEF netVars, boxVars, srvVars, fileVars, svcVars, Go, GoHurt, GoEach, DoneHurt, Event
<1>1. ASSUME NEW n \in Nics, PlugIn(n) PROVE TypeOK'
      BY <1>1 DEF PlugIn, TypeOK, BoxTypes, SrvTypes, SvcTypes, CtlTypes, Flags, Steps
<1>2. ASSUME NEW rs \in SUBSET Roles, do_stop(rs) PROVE TypeOK'
      BY <1>2 DEF do_stop, TypeOK, BoxTypes, SrvTypes, SvcTypes, CtlTypes, Flags, Steps
<1>3. CASE TouchContainers
      BY <1>3 DEF TouchContainers, TypeOK, BoxTypes, SrvTypes, SvcTypes, CtlTypes, Flags, Steps
<1>4. CASE Reboot
      BY <1>4 DEF Reboot, TypeOK, BoxTypes, SrvTypes, SvcTypes, CtlTypes, Flags, Steps
<1> QED BY <1>1, <1>2, <1>3, <1>4 DEF Between

LEMMA TypesNext == TypeOK /\ [Next]_vars => TypeOK'
<1> SUFFICES ASSUME TypeOK, [Next]_vars PROVE TypeOK' OBVIOUS
<1>1. CASE Next
      BY <1>1, NetTypes, InfraTypes, ProvisionTypes, HostTypes, ServiceTypes, EventTypes DEF Next
<1>2. CASE UNCHANGED vars
      BY <1>2 DEF vars, netVars, boxVars, srvVars, fileVars, svcVars, ctlVars,
                  TypeOK, BoxTypes, SrvTypes, SvcTypes, CtlTypes, Flags
<1> QED BY <1>1, <1>2

-----------------------------------------------------------------------------
\* What each step leaves done.
LEMMA NetSteps ==
  ASSUME TypeOK, Progress, do_start \/ Killed \/ step_netdetect \/ NetdetectFails
  PROVE  Progress'
<1> USE DEF Progress, Containers, Secrets, Running, Smooth, CompleteMeansUp, RerunCompletes,
            AfterNet, AfterPg, AfterAlias, AfterMm, AfterConfig, AfterBots,
            netVars, boxVars, srvVars, fileVars, svcVars, Go, GoHurt, GoEach, DoneHurt,
            HasAddress, Resting
<1>1. CASE do_start
  <2>1. pc' = "net" /\ UNCHANGED tokens
        BY <1>1 DEF do_start
  <2> QED BY <2>1
<1>2. CASE Killed
      BY <1>2 DEF Killed
<1>3. CASE step_netdetect
  <2>1. nic' = nic
        BY <1>3 DEF step_netdetect
  <2>2. Smooth'
        BY <1>3, <2>1 DEF step_netdetect
  <2>3. Containers' /\ Secrets' /\ Running' /\ CompleteMeansUp' /\ RerunCompletes'
        BY <1>3 DEF step_netdetect
  <2> QED BY <2>2, <2>3
<1>4. CASE NetdetectFails
      BY <1>4 DEF NetdetectFails
<1> QED BY <1>1, <1>2, <1>3, <1>4

LEMMA InfraSteps ==
  ASSUME TypeOK, Progress, Infra
  PROVE  Progress'
<1> USE DEF Progress, Containers, Secrets, Running, Smooth, CompleteMeansUp, RerunCompletes,
            AfterNet, AfterPg, AfterAlias, AfterMm, AfterConfig, AfterBots,
            netVars, boxVars, srvVars, fileVars, svcVars, Go, GoHurt, GoEach, DoneHurt, HasAddress
<1>1. CASE ensure_pg
      BY <1>1 DEF ensure_pg, CreateMM
<1>2. CASE CreatesHalf
      BY <1>2 DEF CreatesHalf
<1>3. CASE ensure_pg_legacy_alias
      BY <1>3 DEF ensure_pg_legacy_alias
<1>4. CASE AliasFails
      BY <1>4 DEF AliasFails
<1>5. CASE ensure_mm
      BY <1>5 DEF ensure_mm, CreateMM, TypeOK, BoxTypes
<1>6. CASE ensure_compose_config_current
      BY <1>6 DEF ensure_compose_config_current, CreateMM
<1>7. CASE RecreateFails
      BY <1>7 DEF RecreateFails
<1>8. CASE wait_mm_ready
      BY <1>8 DEF wait_mm_ready
<1> QED BY <1>1, <1>2, <1>3, <1>4, <1>5, <1>6, <1>7, <1>8 DEF Infra

LEMMA ProvisionSteps ==
  ASSUME TypeOK, Progress, Provision
  PROVE  Progress'
<1> USE DEF Progress, Containers, Secrets, Running, Smooth, CompleteMeansUp, RerunCompletes,
            AfterNet, AfterPg, AfterAlias, AfterMm, AfterConfig, AfterBots,
            netVars, boxVars, srvVars, fileVars, svcVars, Go, GoHurt, GoEach, DoneHurt, HasAddress
<1>1. ASSUME NEW r \in Roles, ensure_bot(r) PROVE Progress'
  <2>1. tokens' \in [Roles -> SUBSET Nat] /\ config' \in [Roles -> Nat]
        BY <1>1 DEF ensure_bot, Issue, TypeOK, SrvTypes
  <2>2. /\ config'[r] \in tokens'[r]
        /\ \A q \in Roles \ {r} : config'[q] = config[q] /\ tokens'[q] = tokens[q]
        /\ \A q \in Roles : 0 \notin tokens'[q]
        BY <1>1 DEF ensure_bot, Issue, _token_valid, TypeOK, SrvTypes
  <2> QED BY <1>1, <2>1, <2>2 DEF ensure_bot
<1>2. ASSUME NEW r \in Roles, TokenUnverified(r) PROVE Progress'
      BY <1>2 DEF TokenUnverified, Issue, TypeOK, SrvTypes
<1>3. ASSUME NEW r \in Roles, TokenUnrecorded(r) PROVE Progress'
      BY <1>3 DEF TokenUnrecorded, Issue, Placeholder, TypeOK, SrvTypes
<1>4. CASE ProvisionRaises
      BY <1>4 DEF ProvisionRaises
<1>5. CASE ensure_channels
  <2>1. /\ pc = "bots" /\ todo = {} /\ net = "alias" /\ channel' = room'
        /\ UNCHANGED <<tokens, config, hurt, proc, env, det, nic, pg, mm, net, bind, dash>>
        /\ pc' = "host" \/ (pc' = "services" /\ todo' = Roles)
        BY <1>5 DEF ensure_channels, AfterInfra
  <2> QED BY <2>1
<1>6. CASE ListFails
      BY <1>6 DEF ListFails, EnsureRoom
<1>7. CASE RoomUnrecorded
      BY <1>7 DEF RoomUnrecorded, EnsureRoom
<1> QED BY <1>1, <1>2, <1>3, <1>4, <1>5, <1>6, <1>7 DEF Provision

LEMMA HostSteps ==
  ASSUME TypeOK, Progress, step_mattermost_host_check \/ step_restore \/ RestoreFails \/ RestoreKilled
  PROVE  Progress'
<1> USE DEF Progress, Containers, Secrets, Running, Smooth, CompleteMeansUp, RerunCompletes,
            AfterNet, AfterPg, AfterAlias, AfterMm, AfterConfig, AfterBots,
            netVars, boxVars, srvVars, fileVars, svcVars, Go, GoHurt, GoEach, DoneHurt, HasAddress
<1>1. CASE step_mattermost_host_check
      BY <1>1, DetectedIsReached DEF step_mattermost_host_check, TypeOK, BoxTypes
<1>2. CASE step_restore
  <2>1. \A r \in Roles : 0 \notin tokens'[r]
        BY <1>2 DEF step_restore, Replaced, Kept
  <2> QED BY <1>2, <2>1 DEF step_restore, step_bots
<1>3. ASSUME RestoreFails \/ RestoreKilled PROVE Progress'
  <2>1. /\ pc' \in {"pg", "failed"} /\ hurt' = TRUE
        /\ tokens' \in {tokens, [r \in Roles |-> {}], [r \in Roles |-> {1}]}
        BY <1>3 DEF RestoreFails, RestoreKilled, Interrupted, Marked, step_bots,
              Kept, Halved, Replaced
  <2>2. \A r \in Roles : 0 \notin tokens'[r]
        BY <2>1
  <2> QED BY <2>1, <2>2
<1> QED BY <1>1, <1>2, <1>3

LEMMA ServiceSteps ==
  ASSUME TypeOK, Progress, Services
  PROVE  Progress'
<1> USE DEF Progress, Containers, Secrets, Running, Smooth, CompleteMeansUp, RerunCompletes,
            AfterNet, AfterPg, AfterAlias, AfterMm, AfterConfig, AfterBots,
            netVars, boxVars, srvVars, fileVars, svcVars, Go, GoHurt, GoEach, DoneHurt, HasAddress
<1>1. ASSUME NEW r \in Roles, linux_install_or_restart(r) PROVE Progress'
      BY <1>1 DEF linux_install_or_restart, RunRole, TypeOK, SvcTypes
<1>2. ASSUME NEW r \in Roles, RestartFails(r) PROVE Progress'
      BY <1>2 DEF RestartFails, TypeOK, SvcTypes
<1>3. CASE RunDashboard
      BY <1>3 DEF RunDashboard
<1>4. CASE DashboardFails
      BY <1>4 DEF DashboardFails
<1>5. CASE StepChecks
  <2> DEFINE Fine == (\A r \in Roles : proc[r] # 0) /\ Reaches(dash, det)
  <2>1. /\ pc = "check" /\ pc' = (IF Fine THEN "ok" ELSE "failed")
        /\ UNCHANGED <<nic, env, det, pg, mm, net, bind, tokens, room, config, channel, blind,
                       proc, dash, hurt, todo>>
        BY <1>5 DEF StepChecks
  <2>2. todo = {} /\ dash \in {env, "down"}
        BY <2>1
  <2>3. Reaches(dash, det) => dash = env
        BY <2>2 DEF Reaches, TypeOK, BoxTypes
  <2>4. ASSUME ~hurt PROVE Fine
    <3>1. \A r \in Roles : proc[r] # 0
          BY <2>1, <2>2, <2>4
    <3>2. dash = env /\ env = decide_mode(nic) /\ det = Probe(nic) /\ nic \in Nics
          BY <2>1, <2>4 DEF TypeOK, BoxTypes
    <3>3. Reaches(dash, det)
          BY <3>2, DetectedIsReached
    <3> QED BY <3>1, <3>3
  <2>5. \A r \in Roles : proc[r] # 0 => proc[r] \in tokens[r]
        BY <2>1, <2>2
  <2>6. CASE Fine
        BY <2>1, <2>2, <2>3, <2>5, <2>6
  <2>7. CASE ~Fine
        BY <2>1, <2>2, <2>4, <2>7
  <2> QED BY <2>6, <2>7
<1> QED BY <1>1, <1>2, <1>3, <1>4, <1>5 DEF Services

LEMMA EventSteps ==
  ASSUME TypeOK, Progress, Between
  PROVE  Progress'
<1> USE DEF Progress, Containers, Secrets, Running, Smooth, CompleteMeansUp, RerunCompletes,
            AfterNet, AfterPg, AfterAlias, AfterMm, AfterConfig, AfterBots,
            netVars, boxVars, srvVars, fileVars, svcVars, Go, GoHurt, GoEach, DoneHurt,
            HasAddress, Event, Resting
<1>1. ASSUME NEW n \in Nics, PlugIn(n) PROVE Progress'
      BY <1>1 DEF PlugIn
<1>2. ASSUME NEW rs \in SUBSET Roles, do_stop(rs) PROVE Progress'
      BY <1>2 DEF do_stop
<1>3. CASE TouchContainers
      BY <1>3 DEF TouchContainers
<1>4. CASE Reboot
      BY <1>4 DEF Reboot
<1> QED BY <1>1, <1>2, <1>3, <1>4 DEF Between

LEMMA InvNext == IInv /\ [Next]_vars => IInv'
<1> SUFFICES ASSUME IInv, [Next]_vars PROVE IInv' OBVIOUS
<1>1. TypeOK /\ Progress
      BY DEF IInv
<1>2. TypeOK'
      BY <1>1, TypesNext
<1>3. CASE Next
  <2>1. Progress'
        BY <1>1, <1>3, NetSteps, InfraSteps, ProvisionSteps, HostSteps, ServiceSteps, EventSteps
           DEF Next
  <2> QED BY <1>2, <2>1 DEF IInv
<1>4. CASE UNCHANGED vars
      BY <1>1, <1>2, <1>4 DEF vars, netVars, boxVars, srvVars, fileVars, svcVars, ctlVars,
         IInv, Progress, Containers, Secrets, Running, Smooth, CompleteMeansUp, RerunCompletes,
         HasAddress
<1> QED BY <1>3, <1>4

LEMMA InvAlways == Spec => []IInv
BY InvInit, InvNext, PTL DEF Spec

-----------------------------------------------------------------------------
\* The variables of the start pipeline always have their types.
THEOREM TypeCorrect == Spec => []TypeOK
<1>1. IInv => TypeOK BY DEF IInv
<1> QED BY <1>1, InvAlways, PTL

\* When do_start says that all components are activated, the containers run and
\* answer where .env says, and every bot runs with a token of this server.
THEOREM NoFalseCompletion == Spec => []CompleteMeansUp
<1>1. IInv => CompleteMeansUp BY DEF IInv, Progress
<1> QED BY <1>1, InvAlways, PTL

\* A start of which no command fails never fails, whatever earlier starts, deaths,
\* reboots and moves have left, but for a server that is stopped and published at
\* an address the PC has lost, and for a database that a restore has left half
\* replaced.
THEOREM StartsAgain == Spec => []RerunCompletes
<1>1. IInv => RerunCompletes BY DEF IInv, Progress
<1> QED BY <1>1, InvAlways, PTL

\* A token changes without a failed command only if its check says it is not valid.
THEOREM KeepsTokens == Spec => ValidTokensKept
<1> DEFINE Unharmed == \A r \in Roles : _token_valid(r) /\ config'[r] # config[r] => hurt'
<1>1. IInv /\ [Next]_vars => [Unharmed]_vars
  <2> SUFFICES ASSUME IInv, Next PROVE Unharmed OBVIOUS
  <2>1. config \in [Roles -> Nat]
        BY DEF IInv, TypeOK, SrvTypes
  <2>2. CASE Provision
        BY <2>1, <2>2 DEF Provision, ensure_bot, TokenUnverified, TokenUnrecorded,
              ProvisionRaises, ensure_channels, ListFails, RoomUnrecorded, Issue, _token_valid,
              GoHurt, DoneHurt, fileVars
  <2>3. CASE ~Provision
    <3>1. UNCHANGED config
          BY <2>3 DEF Next, do_start, Killed, step_netdetect, NetdetectFails, Infra, ensure_pg,
                CreatesHalf, ensure_pg_legacy_alias, AliasFails, ensure_mm,
                ensure_compose_config_current, RecreateFails, wait_mm_ready,
                step_mattermost_host_check, step_restore, RestoreFails, RestoreKilled,
                Services,
                linux_install_or_restart, RestartFails, RunDashboard, DashboardFails,
                StepChecks, Between, PlugIn, do_stop, TouchContainers, Reboot, fileVars
    <3> QED BY <3>1
  <2> QED BY <2>2, <2>3
<1> QED BY <1>1, InvAlways, PTL DEF Spec, ValidTokensKept

-----------------------------------------------------------------------------
(* The dashboard *)

\* What the dashboard keeps, with the shape of each record.
Session   == {NoSession} \cup [age: 0..SessionTTL, ident: Identity]
Right     == {NoLogin} \cup [age: 0..SessionTTL, rights: Identity]
View      == [view: {"login", "page"}, bot: {"", "active", "inactive"},
              name: {"", "name", "somebody"}]
Request   == [kind: {"roster", "history", "post"}, browser: Browser,
              entitled: BOOLEAN, awaited: BOOLEAN,
              answer: {"", "active", "inactive", "posts"},
              age: 0..StatusTTL, answerAge: 0..StatusTTL]
Shapes == /\ accounts \in Files /\ mmUp \in BOOLEAN /\ botOk \in BOOLEAN
          /\ named \in {"", "name"}
          /\ store \in [Browser -> Session] /\ login \in [Browser -> Right]
          /\ page \in [Browser -> View]
          /\ cache \in [answer: {"", "active"}, left: 0..StatusTTL, age: 0..StatusTTL]
          /\ req \in [Thread -> {Idle} \cup Request]

\* The session that a cookie names is the login its user is in by right, and as old.
SessionsTrue == \A b \in Browser : /\ store[b].age = login[b].age
                                   /\ store[b].ident = login[b].rights

\* A session that has not expired is behind a page, an answer that is awaited is awaited
\* by one, and the login form shows nothing else.
LivePages    == \A b \in Browser : get(b) # NoAccount => page[b].view = "page"
EmptyForms   == \A b \in Browser : page[b].view = "login" => page[b] = LoginForm
AwaitedPages == \A t \in Thread : req[t] # Idle =>
                  (req[t].awaited => page[req[t].browser].view = "page")
Pages == LivePages /\ EmptyForms /\ AwaitedPages

\* What the cache keeps has no more time left than its age allows; no answer is older
\* than the call it answers, nor of another sort.
Answered(r) == r.answerAge <= r.age /\ (r.kind = "roster" => r.answer # "posts")
Ages == /\ cache.left + cache.age <= StatusTTL
        /\ \A t \in Thread : req[t] # Idle => Answered(req[t])

DashInv == Shapes /\ SessionsTrue /\ Pages /\ Ages /\ Entitled

-----------------------------------------------------------------------------
\* What the assumptions say of the bounds.
LEMMA Limits == /\ SessionTTL \in Nat /\ StatusTTL \in Nat /\ SessionTTL > 0 /\ StatusTTL > 0
                /\ 0 \in 0..SessionTTL /\ 0 \in 0..StatusTTL
                /\ MMRole \in [User -> {"ceo", "staff"}] /\ NoAccount \notin Identity
                /\ Files \subseteq [User -> Identity \cup {NoAccount}]
<1>1. SessionTTL \in Nat \ {0} /\ StatusTTL \in Nat \ {0} BY DashboardOK DEF DashboardOK
<1> QED BY <1>1, DashboardOK DEF DashboardOK

LEMMA DashInvInit == DashInit => DashInv
<1> SUFFICES ASSUME DashInit PROVE DashInv OBVIOUS
<1>1. Shapes
  <2>1. cache \in [answer: {"", "active"}, left: 0..StatusTTL, age: 0..StatusTTL]
    BY Limits DEF DashInit, NoEntry
  <2>2. LoginForm \in View BY DEF LoginForm, View
  <2> QED BY <2>1, <2>2 DEF DashInit, Shapes, Session, Right
<1>2. SessionsTrue BY DEF DashInit, SessionsTrue, NoSession, NoLogin
<1>3. Pages BY DEF DashInit, Pages, LivePages, EmptyForms, AwaitedPages, get, Idle
<1>4. Ages
  <2>1. cache.left = 0 /\ cache.age = 0 BY DEF DashInit, NoEntry
  <2>2. \A t \in Thread : req[t] = Idle BY DEF DashInit
  <2> QED BY <2>1, <2>2, Limits DEF Ages
<1>5. Entitled BY DEF DashInit, Entitled
<1> QED BY <1>1, <1>2, <1>3, <1>4, <1>5 DEF DashInv

\* What a record of the store and of the logins may hold.
LEMMA SessionFields ==
  ASSUME Shapes, NEW b \in Browser
  PROVE  /\ store[b].age \in 0..SessionTTL /\ login[b].age \in 0..SessionTTL
         /\ store[b] = NoSession <=> store[b].ident = NoAccount
         /\ login[b] = NoLogin <=> login[b].rights = NoAccount
         /\ store[b] # NoSession => store[b].ident \in Identity
         /\ login[b] # NoLogin => login[b].rights \in Identity
<1>1. store[b] \in Session /\ login[b] \in Right BY DEF Shapes
<1>2. /\ NoSession.age = 0 /\ NoSession.ident = NoAccount
      /\ NoLogin.age = 0 /\ NoLogin.rights = NoAccount
  BY DEF NoSession, NoLogin
<1>3. \/ store[b] = NoSession
      \/ store[b].age \in 0..SessionTTL /\ store[b].ident \in Identity
  BY <1>1 DEF Session
<1>4. \/ login[b] = NoLogin
      \/ login[b].age \in 0..SessionTTL /\ login[b].rights \in Identity
  BY <1>1 DEF Right
<1> QED BY <1>2, <1>3, <1>4, Limits

\* What a thread that is not idle holds.
LEMMA RequestFields ==
  ASSUME Shapes, NEW t \in Thread, req[t] # Idle
  PROVE  /\ req[t] \in Request
         /\ req[t].browser \in Browser /\ req[t].awaited \in BOOLEAN
         /\ req[t].answer \in {"", "active", "inactive", "posts"}
         /\ req[t].age \in 0..StatusTTL /\ req[t].answerAge \in 0..StatusTTL
BY DEF Shapes, Request

LEMMA KindNotIdle ==
  ASSUME NEW t \in Thread, req[t].kind # "idle"
  PROVE  req[t] # Idle
BY DEF Idle

-----------------------------------------------------------------------------
\* Sessions and logins change together.
LEMMA SessionSteps ==
  ASSUME Shapes, SessionsTrue, [DashNext]_dashVars
  PROVE  /\ store' \in [Browser -> Session] /\ login' \in [Browser -> Right]
         /\ SessionsTrue'
<1> USE Limits
<1>1. CASE UNCHANGED <<store, login>>
  BY <1>1 DEF Shapes, SessionsTrue
<1>2. CASE Hours
  <2> SUFFICES ASSUME NEW b \in Browser
               PROVE  /\ store'[b] \in Session /\ login'[b] \in Right
                      /\ store'[b].age = login'[b].age /\ store'[b].ident = login'[b].rights
    BY <1>2 DEF Hours, SessionsTrue
  <2>1. /\ store[b] = NoSession <=> login[b] = NoLogin
        /\ store[b].age = login[b].age /\ store[b].ident = login[b].rights
        /\ store[b].age \in 0..SessionTTL
    BY SessionFields DEF SessionsTrue
  <2>2. /\ store'[b] = IF store[b] = NoSession THEN NoSession
                       ELSE [store[b] EXCEPT !.age = Older(@, SessionTTL)]
        /\ login'[b] = IF login[b] = NoLogin THEN NoLogin
                       ELSE [login[b] EXCEPT !.age = Older(@, SessionTTL)]
    BY <1>2 DEF Hours
  <2>3. Older(store[b].age, SessionTTL) \in 0..SessionTTL
    BY <2>1 DEF Older
  <2>4. CASE store[b] = NoSession
    BY <2>1, <2>2, <2>4 DEF Session, Right, NoSession, NoLogin
  <2>5. CASE store[b] # NoSession
    <3>1. /\ store[b] \in [age: 0..SessionTTL, ident: Identity]
          /\ login[b] \in [age: 0..SessionTTL, rights: Identity]
      BY <2>1, <2>5 DEF Shapes, Session, Right
    <3> QED BY <2>1, <2>2, <2>3, <2>5, <3>1 DEF Session, Right
  <2> QED BY <2>4, <2>5
<1>3. CASE Restart
  BY <1>3 DEF Restart, SessionsTrue, Session, Right, NoSession, NoLogin
<1>4. ASSUME NEW b \in Browser, NEW u \in User, _do_login(b, u)
      PROVE  /\ store' \in [Browser -> Session] /\ login' \in [Browser -> Right]
             /\ SessionsTrue'
  <2>1. PICK ident \in authenticate(u) :
          /\ store' = [store EXCEPT ![b] = [age |-> 0, ident |-> ident]]
          /\ login' = [login EXCEPT ![b] = [age |-> 0, rights |-> ident]]
    BY <1>4 DEF _do_login
  <2>2. ident \in Identity
    <3>1. accounts[u] \in Identity \cup {NoAccount} BY DEF Shapes
    <3>2. [role |-> MMRole[u], channels |-> {}] \in Identity BY DEF Identity
    <3> QED BY <3>1, <3>2 DEF authenticate
  <2> QED BY <2>1, <2>2 DEF Shapes, SessionsTrue, Session, Right
<1>5. ASSUME NEW b \in Browser, _do_logout(b)
      PROVE  /\ store' \in [Browser -> Session] /\ login' \in [Browser -> Right]
             /\ SessionsTrue'
  BY <1>5 DEF _do_logout, Shapes, SessionsTrue, Session, Right, NoSession, NoLogin
<1>6. \/ UNCHANGED <<store, login>> \/ Hours \/ Restart
      \/ \E b \in Browser : (\E u \in User : _do_login(b, u)) \/ _do_logout(b)
  <2>1. CASE dashVars' = dashVars BY <2>1 DEF dashVars, serverVars
  <2>2. CASE Tick \/ Mattermost \/ BotAccount
    BY <2>2 DEF Tick, Mattermost, BotAccount, serverVars
  <2>3. ASSUME NEW b \in Browser,
               \/ Unauthorized(b) \/ Roster(b) \/ History(b)
               \/ \E t \in Thread, c \in Channel : PostBegin(t, b, c)
        PROVE  UNCHANGED <<store, login>>
    BY <2>3 DEF Unauthorized, Roster, RosterCached, RosterBegin, History, HistoryBegin,
                PostBegin, serverVars
  <2>4. ASSUME NEW t \in Thread, Handle(t)
        PROVE  UNCHANGED <<store, login>>
    BY <2>4 DEF Handle, BotAnswer, BotStore, HistoryAnswer, _author_name, PostEnd, serverVars
  <2> QED BY <2>1, <2>2, <2>3, <2>4 DEF DashNext
<1> QED BY <1>1, <1>2, <1>3, <1>4, <1>5, <1>6

-----------------------------------------------------------------------------
\* The session that a request is handled for is a login by right.
LEMMA SessionIsLogin ==
  ASSUME Shapes, SessionsTrue, NEW b \in Browser, get(b) # NoAccount
  PROVE  /\ get(b) = login[b].rights /\ get(b) \in Identity
         /\ login[b] # NoLogin /\ login[b].age < SessionTTL
<1>1. store[b] # NoSession /\ ~(store[b].age >= SessionTTL) /\ get(b) = store[b].ident
  BY DEF get
<1>2. store[b].age = login[b].age /\ store[b].ident = login[b].rights BY DEF SessionsTrue
<1> QED BY <1>1, <1>2, SessionFields, Limits

\* What a request begins as.
LEMMA BeginSteps ==
  ASSUME Shapes, SessionsTrue, Pages, Ages, Entitled,
         NEW t \in Thread, NEW b \in Browser, NEW kind \in {"roster", "history", "post"}, NEW c,
         Begin(t, b, kind, c), page' = page,
         get(b).role = "ceo" \/ (kind # "roster" /\ c \in get(b).channels)
  PROVE  /\ req' \in [Thread -> {Idle} \cup Request]
         /\ AwaitedPages' /\ Entitled'
         /\ \A s \in Thread : req'[s] # Idle => Answered(req'[s])
<1> DEFINE new == [kind |-> kind, browser |-> b, entitled |-> Rightful(b, kind, c),
                   awaited |-> kind # "post", answer |-> "", age |-> 0, answerAge |-> 0]
<1>1. req' = [req EXCEPT ![t] = new] /\ get(b) # NoAccount BY DEF Begin
<1>2. Rightful(b, kind, c) BY <1>1, SessionIsLogin DEF Rightful
<1>3. new \in Request BY <1>2, Limits DEF Request
<1>4. /\ new.browser = b /\ new.entitled = TRUE
      /\ Answered(new)
  BY <1>2 DEF Answered
<1>5. page[b].view = "page" BY <1>1 DEF Pages, LivePages
<1> HIDE DEF new
<1>6. req' \in [Thread -> {Idle} \cup Request] BY <1>1, <1>3 DEF Shapes
<1>7. \A s \in Thread : req'[s] = IF s = t THEN new ELSE req[s] BY <1>1 DEF Shapes
<1>8. AwaitedPages' BY <1>4, <1>5, <1>7 DEF Pages, AwaitedPages
<1>9. Entitled' BY <1>4, <1>7 DEF Entitled
<1>10. \A s \in Thread : req'[s] # Idle => Answered(req'[s])
  BY <1>4, <1>7 DEF Ages
<1> QED BY <1>6, <1>8, <1>9, <1>10

\* What happens to the requests of a page that gives way to another.
LEMMA LoadSteps ==
  ASSUME Shapes, Pages, Ages, Entitled, NEW b \in Browser, NEW p \in {Fresh, LoginForm},
         Load(b, p)
  PROVE  /\ req' \in [Thread -> {Idle} \cup Request]
         /\ page' \in [Browser -> View]
         /\ EmptyForms' /\ AwaitedPages' /\ Entitled'
         /\ \A s \in Thread : req'[s] # Idle => Answered(req'[s])
<1>1. /\ page' = [page EXCEPT ![b] = p]
      /\ req' = [t \in Thread |-> IF req[t] # Idle /\ req[t].browser = b
                                  THEN [req[t] EXCEPT !.awaited = FALSE] ELSE req[t]]
  BY DEF Load
<1>2. p \in View /\ (p.view = "login" => p = LoginForm)
  <2>1. Fresh \in View /\ Fresh.view # "login" BY DEF Fresh, View
  <2>2. LoginForm \in View BY DEF LoginForm, View
  <2> QED BY <2>1, <2>2
<1>3. page' \in [Browser -> View] BY <1>1, <1>2 DEF Shapes
<1>4. EmptyForms' BY <1>1, <1>2 DEF Shapes, Pages, EmptyForms
<1>5. ASSUME NEW s \in Thread, req[s] # Idle
      PROVE  /\ req'[s] \in Request
             /\ req'[s].browser = req[s].browser /\ req'[s].entitled = req[s].entitled
             /\ Answered(req[s]) => Answered(req'[s])
             /\ req'[s].awaited => req[s].awaited /\ req[s].browser # b
  <2>1. req[s] \in Request BY <1>5, RequestFields
  <2>2. CASE req[s].browser = b
    <3>1. req'[s] = [req[s] EXCEPT !.awaited = FALSE] BY <1>1, <1>5, <2>2
    <3> QED BY <2>1, <3>1 DEF Request, Answered
  <2>3. CASE req[s].browser # b
    <3>1. req'[s] = req[s] BY <1>1, <2>3
    <3> QED BY <2>1, <2>3, <3>1
  <2> QED BY <2>2, <2>3
<1>6. \A s \in Thread : req[s] = Idle => req'[s] = Idle BY <1>1
<1>7. req' \in [Thread -> {Idle} \cup Request]
  <2>1. \A s \in Thread : req'[s] \in {Idle} \cup Request BY <1>5, <1>6
  <2> HIDE DEF Idle
  <2> QED BY <1>1, <2>1
<1>8. AwaitedPages'
  <2> SUFFICES ASSUME NEW s \in Thread, req'[s] # Idle, req'[s].awaited
               PROVE  page'[req'[s].browser].view = "page"
    BY DEF AwaitedPages
  <2>1. req[s] # Idle BY <1>6
  <2>2. req'[s].browser = req[s].browser /\ req[s].awaited /\ req[s].browser # b BY <1>5, <2>1
  <2>3. page[req[s].browser].view = "page" BY <2>1, <2>2 DEF Pages, AwaitedPages
  <2>4. req[s].browser \in Browser BY <2>1, RequestFields
  <2> QED BY <1>1, <2>2, <2>3, <2>4 DEF Shapes
<1>9. Entitled' BY <1>5, <1>6 DEF Entitled
<1>10. \A s \in Thread : req'[s] # Idle => Answered(req'[s])
  BY <1>5, <1>6 DEF Ages
<1> QED BY <1>3, <1>4, <1>7, <1>8, <1>9, <1>10

\* What the end of a request leaves of the others, with what it shows.
LEMMA EndSteps ==
  ASSUME Shapes, Pages, Ages, Entitled, NEW t \in Thread, req[t] # Idle, End(t),
         \/ page' = page
         \/ \E x \in {"active", "inactive"} : req[t].answer = x /\ page' = Show(t, "bot", x)
         \/ \E x \in {"", "name", "somebody"} : page' = Show(t, "name", x)
  PROVE  /\ req' \in [Thread -> {Idle} \cup Request]
         /\ page' \in [Browser -> View]
         /\ EmptyForms' /\ AwaitedPages' /\ Entitled'
         /\ \A b \in Browser : page'[b].view = page[b].view
         /\ \A s \in Thread : req'[s] # Idle => Answered(req'[s])
<1> DEFINE b == req[t].browser
<1>1. b \in Browser BY RequestFields
<1>2. req' = [req EXCEPT ![t] = Idle] BY DEF End
<1>3. req' \in [Thread -> {Idle} \cup Request] BY <1>2 DEF Shapes
<1>4. \A s \in Thread : req'[s] # Idle => req'[s] = req[s] /\ s # t BY <1>2 DEF Shapes
<1>5. \/ page' = page
      \/ /\ page[b].view = "page"
         /\ \/ \E x \in {"active", "inactive"} : page' = [page EXCEPT ![b]["bot"] = x]
            \/ \E x \in {"", "name", "somebody"} : page' = [page EXCEPT ![b]["name"] = x]
  BY DEF Show, Pages, AwaitedPages
<1> HIDE DEF b
<1>6. /\ page' \in [Browser -> View]
      /\ \A d \in Browser : /\ page'[d].view = page[d].view
                            /\ page'[d] # page[d] => page[d].view = "page"
  <2>1. CASE page' = page BY <2>1 DEF Shapes
  <2>2. ASSUME page[b].view = "page",
               NEW x \in {"active", "inactive"}, page' = [page EXCEPT ![b]["bot"] = x]
        PROVE  <1>6
    <3> DEFINE new == [page[b] EXCEPT !["bot"] = x]
    <3>1. page[b] \in View BY <1>1 DEF Shapes
    <3>2. new \in View /\ new.view = page[b].view BY <3>1 DEF View
    <3>3. page' = [page EXCEPT ![b] = new] BY <2>2
    <3> HIDE DEF new
    <3> QED BY <1>1, <2>2, <3>2, <3>3 DEF Shapes
  <2>3. ASSUME page[b].view = "page",
               NEW x \in {"", "name", "somebody"}, page' = [page EXCEPT ![b]["name"] = x]
        PROVE  <1>6
    <3> DEFINE new == [page[b] EXCEPT !["name"] = x]
    <3>1. page[b] \in View BY <1>1 DEF Shapes
    <3>2. new \in View /\ new.view = page[b].view BY <3>1 DEF View
    <3>3. page' = [page EXCEPT ![b] = new] BY <2>3
    <3> HIDE DEF new
    <3> QED BY <1>1, <2>3, <3>2, <3>3 DEF Shapes
  <2> QED BY <1>5, <2>1, <2>2, <2>3
<1>7. EmptyForms'
  <2> SUFFICES ASSUME NEW d \in Browser, page'[d].view = "login"
               PROVE  page'[d] = LoginForm
    BY DEF EmptyForms
  <2>1. page[d].view = "login" /\ page'[d] = page[d] BY <1>6
  <2> QED BY <2>1 DEF Pages, EmptyForms
<1>8. AwaitedPages'
  <2> SUFFICES ASSUME NEW s \in Thread, req'[s] # Idle, req'[s].awaited
               PROVE  page'[req'[s].browser].view = "page"
    BY DEF AwaitedPages
  <2>1. req'[s] = req[s] BY <1>4
  <2>2. page[req[s].browser].view = "page" BY <2>1 DEF Pages, AwaitedPages
  <2>3. req[s].browser \in Browser BY <2>1, RequestFields
  <2> QED BY <1>6, <2>1, <2>2, <2>3
<1>9. Entitled' BY <1>4 DEF Entitled
<1>10. \A s \in Thread : req'[s] # Idle => Answered(req'[s]) BY <1>4 DEF Ages
<1> QED BY <1>3, <1>6, <1>7, <1>8, <1>9, <1>10

-----------------------------------------------------------------------------
\* The sessions are SessionSteps'; what remains to be seen of a step.
LEMMA DashAssemble ==
  ASSUME DashInv, [DashNext]_dashVars,
         accounts' \in Files, mmUp' \in BOOLEAN, botOk' \in BOOLEAN, named' \in {"", "name"},
         page' \in [Browser -> View], req' \in [Thread -> {Idle} \cup Request],
         cache' \in [answer: {"", "active"}, left: 0..StatusTTL, age: 0..StatusTTL],
         LivePages', EmptyForms', AwaitedPages', Entitled',
         cache'.left + cache'.age <= StatusTTL,
         \A t \in Thread : req'[t] # Idle => Answered(req'[t])
  PROVE  DashInv'
<1>1. /\ store' \in [Browser -> Session] /\ login' \in [Browser -> Right] /\ SessionsTrue'
  BY SessionSteps DEF DashInv
<1>2. Shapes' BY <1>1 DEF Shapes, Session, Right, View, Request, Idle, NoSession, NoLogin, Identity
<1>3. Pages' BY DEF Pages
<1>4. Ages' BY DEF Ages, Idle
<1> QED BY <1>1, <1>2, <1>3, <1>4 DEF DashInv

\* As long as no session is begun or renewed, pages that stay pages keep theirs.
LEMMA LiveStays ==
  ASSUME LivePages, \A b \in Browser : get(b)' # NoAccount => get(b) # NoAccount,
         \A b \in Browser : page'[b].view = page[b].view
  PROVE  LivePages'
BY DEF LivePages

LEMMA DashWorldSteps ==
  ASSUME DashInv, [DashNext]_dashVars,
         Tick \/ Hours \/ Mattermost \/ BotAccount \/ Restart \/ UNCHANGED dashVars
  PROVE  DashInv'
<1>1. CASE Tick
  <2>1. /\ UNCHANGED <<accounts, store, named, mmUp, botOk, login, page>>
        /\ cache' = IF cache = NoEntry THEN NoEntry
             ELSE [cache EXCEPT !.left = IF @ = 0 THEN 0 ELSE @ - 1, !.age = Older(@, StatusTTL)]
        /\ req' = [t \in Thread |-> IF req[t].kind # "roster" THEN req[t]
             ELSE [req[t] EXCEPT !.age = Older(@, StatusTTL),
                                 !.answerAge = IF req[t].answer = "active" THEN Older(@, StatusTTL) ELSE 0]]
    BY <1>1 DEF Tick, worldVars
  <2>2. /\ cache' \in [answer: {"", "active"}, left: 0..StatusTTL, age: 0..StatusTTL]
        /\ cache'.left + cache'.age <= StatusTTL
    <3>1. cache \in [answer: {"", "active"}, left: 0..StatusTTL, age: 0..StatusTTL]
      BY DEF DashInv, Shapes
    <3>2. cache.left + cache.age <= StatusTTL BY DEF DashInv, Ages
    <3>3. CASE cache = NoEntry BY <2>1, <3>1, <3>2, <3>3
    <3>4. CASE cache # NoEntry
      <4> DEFINE left == IF cache.left = 0 THEN 0 ELSE cache.left - 1
                 age  == Older(cache.age, StatusTTL)
      <4>1. cache.left \in 0..StatusTTL /\ cache.age \in 0..StatusTTL BY <3>1
      <4>2. left \in 0..StatusTTL /\ age \in 0..StatusTTL /\ left + age <= StatusTTL
        BY <3>2, <4>1, Limits DEF Older
      <4> HIDE DEF left, age
      <4>3. cache' = [cache EXCEPT !.left = left, !.age = age] BY <2>1, <3>4 DEF left, age
      <4>4. cache' = [answer |-> cache.answer, left |-> left, age |-> age] BY <3>1, <4>3
      <4> QED BY <3>1, <4>2, <4>4
    <3> QED BY <3>3, <3>4
  <2>3. ASSUME NEW t \in Thread, req[t] # Idle
        PROVE  /\ req'[t] \in Request
               /\ req'[t].browser = req[t].browser /\ req'[t].entitled = req[t].entitled
               /\ req'[t].awaited = req[t].awaited
               /\ Answered(req'[t])
    <3>1. req[t] \in Request /\ req[t].age \in 0..StatusTTL /\ req[t].answerAge \in 0..StatusTTL
      BY <2>3, RequestFields DEF DashInv
    <3>2. Answered(req[t]) BY <2>3 DEF DashInv, Ages
    <3>3. CASE req[t].kind # "roster"
      <4>1. req'[t] = req[t] BY <2>1, <3>3
      <4> QED BY <3>1, <3>2, <4>1
    <3>4. CASE req[t].kind = "roster"
      <4> DEFINE age == Older(req[t].age, StatusTTL)
                 answerAge == IF req[t].answer = "active" THEN Older(req[t].answerAge, StatusTTL) ELSE 0
      <4>1. age \in 0..StatusTTL /\ answerAge \in 0..StatusTTL /\ answerAge <= age
        BY <3>1, <3>2, Limits DEF Older, Answered
      <4> HIDE DEF age, answerAge
      <4>2. req'[t] = [req[t] EXCEPT !.age = age, !.answerAge = answerAge]
        BY <2>1, <3>4 DEF age, answerAge
      <4>3. req'[t] \in Request BY <3>1, <4>1, <4>2, Zenon DEF Request
      <4>4. /\ req'[t].browser = req[t].browser /\ req'[t].entitled = req[t].entitled
            /\ req'[t].awaited = req[t].awaited
            /\ req'[t].age = age /\ req'[t].answerAge = answerAge
            /\ req'[t].kind = req[t].kind /\ req'[t].answer = req[t].answer
        BY <3>1, <4>2, Zenon DEF Request
      <4>5. Answered(req'[t]) BY <3>2, <4>1, <4>4 DEF Answered
      <4> QED BY <4>3, <4>4, <4>5
    <3> QED BY <3>3, <3>4
  <2>4. \A t \in Thread : req[t] = Idle => req'[t] = Idle BY <2>1 DEF Idle
  <2>5. req' \in [Thread -> {Idle} \cup Request]
    <3>1. \A t \in Thread : req'[t] \in {Idle} \cup Request BY <2>3, <2>4
    <3> HIDE DEF Idle
    <3> QED BY <2>1, <3>1
  <2>6. AwaitedPages'
    <3> SUFFICES ASSUME NEW t \in Thread, req'[t] # Idle, req'[t].awaited
                 PROVE  page[req'[t].browser].view = "page"
      BY <2>1 DEF AwaitedPages
    <3>1. /\ req[t] # Idle /\ req[t].awaited /\ req'[t].browser = req[t].browser
      BY <2>3, <2>4
    <3> QED BY <3>1 DEF DashInv, Pages, AwaitedPages
  <2>7. Entitled' BY <2>3, <2>4 DEF DashInv, Entitled
  <2>8. LivePages' /\ EmptyForms' BY <2>1 DEF DashInv, Pages, LivePages, EmptyForms, get
  <2>9. \A t \in Thread : req'[t] # Idle => Answered(req'[t]) BY <2>3, <2>4
  <2> QED BY <2>1, <2>2, <2>5, <2>6, <2>7, <2>8, <2>9, DashAssemble DEF DashInv, Shapes
<1>2. CASE Hours
  <2>1. /\ UNCHANGED <<accounts, cache, named, mmUp, botOk, req, page>>
        /\ store' = [b \in Browser |-> IF store[b] = NoSession THEN NoSession
                                       ELSE [store[b] EXCEPT !.age = Older(@, SessionTTL)]]
    BY <1>2 DEF Hours, worldVars
  <2>2. ASSUME NEW b \in Browser, get(b)' # NoAccount
        PROVE  get(b) # NoAccount
    <3>1. store'[b] # NoSession /\ ~(store'[b].age >= SessionTTL) BY <2>2 DEF get
    <3>2. store[b] # NoSession /\ store'[b] = [store[b] EXCEPT !.age = Older(@, SessionTTL)]
      BY <2>1, <3>1
    <3>3. store[b] \in [age: 0..SessionTTL, ident: Identity] BY <3>2 DEF DashInv, Shapes, Session
    <3>4. store'[b].age = Older(store[b].age, SessionTTL) BY <3>2, <3>3
    <3>5. ~(store[b].age >= SessionTTL) BY <3>1, <3>3, <3>4, Limits DEF Older
    <3>6. store[b].ident \in Identity BY <3>3
    <3> QED BY <3>2, <3>5, <3>6, Limits DEF get
  <2>3. LivePages' BY <2>1, <2>2, LiveStays DEF DashInv, Pages
  <2>4. EmptyForms' /\ AwaitedPages' /\ Entitled'
    BY <2>1 DEF DashInv, Pages, EmptyForms, AwaitedPages, Entitled
  <2> QED BY <2>1, <2>3, <2>4, DashAssemble DEF DashInv, Shapes, Ages
<1>3. CASE Mattermost \/ BotAccount \/ UNCHANGED dashVars
  <2>1. UNCHANGED <<accounts, store, cache, named, login, req, page>>
    BY <1>3 DEF Mattermost, BotAccount, dashVars, serverVars
  <2>2. mmUp' \in BOOLEAN /\ botOk' \in BOOLEAN
    BY <1>3 DEF Mattermost, BotAccount, dashVars, worldVars, DashInv, Shapes
  <2>3. LivePages' /\ EmptyForms' /\ AwaitedPages' /\ Entitled'
    BY <2>1 DEF DashInv, Pages, LivePages, EmptyForms, AwaitedPages, Entitled, get
  <2> QED BY <2>1, <2>2, <2>3, DashAssemble DEF DashInv, Shapes, Ages
<1>4. CASE Restart
  <2>1. /\ accounts' \in Files /\ cache' = NoEntry /\ named' = ""
        /\ store' = [b \in Browser |-> NoSession] /\ req' = [t \in Thread |-> Idle]
        /\ UNCHANGED <<mmUp, botOk, page>>
    BY <1>4 DEF Restart, worldVars
  <2>2. LivePages' /\ EmptyForms'
    BY <2>1 DEF DashInv, Pages, LivePages, EmptyForms, get
  <2>3. req' \in [Thread -> {Idle} \cup Request] /\ \A t \in Thread : req'[t] = Idle BY <2>1
  <2>4. /\ cache' \in [answer: {"", "active"}, left: 0..StatusTTL, age: 0..StatusTTL]
        /\ cache'.left = 0 /\ cache'.age = 0
    BY <2>1, Limits DEF NoEntry
  <2>5. AwaitedPages' /\ Entitled' BY <2>3 DEF AwaitedPages, Entitled
  <2>6. cache'.left + cache'.age <= StatusTTL
    <3>1. cache'.left = 0 /\ cache'.age = 0 BY <2>4
    <3>2. StatusTTL \in Nat BY Limits
    <3> QED BY <3>1, <3>2
  <2>7. \A t \in Thread : req'[t] # Idle => Answered(req'[t]) BY <2>3
  <2>8. page' \in [Browser -> View] /\ mmUp' \in BOOLEAN /\ botOk' \in BOOLEAN
    BY <2>1 DEF DashInv, Shapes
  <2> QED BY <2>1, <2>2, <2>3, <2>4, <2>5, <2>6, <2>7, <2>8, DashAssemble
<1> QED BY <1>1, <1>2, <1>3, <1>4

LEMMA DashLoginSteps ==
  ASSUME DashInv, [DashNext]_dashVars, NEW b \in Browser,
         (\E u \in User : _do_login(b, u)) \/ _do_logout(b) \/ Unauthorized(b)
  PROVE  DashInv'
<1>1. UNCHANGED <<accounts, cache, named, mmUp, botOk>>
  BY DEF _do_login, _do_logout, Unauthorized, serverVars, worldVars
<1>2. PICK p \in {Fresh, LoginForm} :
        /\ Load(b, p)
        /\ \A d \in Browser : d # b => store'[d] = store[d]
        /\ p.view = "login" => get(b)' = NoAccount
  <2>1. Fresh.view = "page" /\ LoginForm.view = "login" BY DEF Fresh, LoginForm
  <2>2. CASE \E u \in User : _do_login(b, u)
    <3>1. PICK u \in User : _do_login(b, u) BY <2>2
    <3>2. Load(b, Fresh) /\ \A d \in Browser : d # b => store'[d] = store[d]
      BY <3>1 DEF _do_login, DashInv, Shapes
    <3> QED BY <2>1, <3>2
  <2>3. CASE _do_logout(b)
    <3>1. Load(b, LoginForm) /\ \A d \in Browser : d # b => store'[d] = store[d]
      BY <2>3 DEF _do_logout, DashInv, Shapes
    <3>2. store'[b] = NoSession BY <2>3 DEF _do_logout, DashInv, Shapes
    <3>3. get(b)' = NoAccount BY <3>2 DEF get
    <3> QED BY <3>1, <3>3
  <2>4. CASE Unauthorized(b)
    <3>1. Load(b, LoginForm) /\ store' = store /\ get(b) = NoAccount
      BY <2>4 DEF Unauthorized, serverVars
    <3>2. get(b)' = NoAccount BY <3>1 DEF get
    <3> QED BY <3>1, <3>2
  <2> QED BY <2>2, <2>3, <2>4
<1>3. /\ req' \in [Thread -> {Idle} \cup Request]
      /\ page' \in [Browser -> View]
      /\ EmptyForms' /\ AwaitedPages' /\ Entitled'
      /\ \A s \in Thread : req'[s] # Idle => Answered(req'[s])
  BY <1>2, LoadSteps DEF DashInv
<1>4. LivePages'
  <2> SUFFICES ASSUME NEW d \in Browser, get(d)' # NoAccount
               PROVE  page'[d].view = "page"
    BY DEF LivePages
  <2>1. page' = [page EXCEPT ![b] = p] BY <1>2 DEF Load
  <2>2. page \in [Browser -> View] BY DEF DashInv, Shapes
  <2>3. CASE d = b
    <3>1. p.view # "login" BY <1>2, <2>3
    <3>2. Fresh.view = "page" /\ LoginForm.view = "login" BY DEF Fresh, LoginForm
    <3>3. p.view = "page" BY <3>1, <3>2
    <3> QED BY <2>1, <2>2, <2>3, <3>3
  <2>4. CASE d # b
    <3>1. get(d) # NoAccount BY <1>2, <2>4 DEF get
    <3>2. page[d].view = "page" BY <3>1 DEF DashInv, Pages, LivePages
    <3> QED BY <2>1, <2>2, <2>4, <3>2
  <2> QED BY <2>3, <2>4
<1>5. /\ accounts' \in Files /\ mmUp' \in BOOLEAN /\ botOk' \in BOOLEAN /\ named' \in {"", "name"}
      /\ cache' \in [answer: {"", "active"}, left: 0..StatusTTL, age: 0..StatusTTL]
      /\ cache'.left + cache'.age <= StatusTTL
  BY <1>1 DEF DashInv, Shapes, Ages
<1> QED BY <1>3, <1>4, <1>5, DashAssemble

\* Requests leave the sessions alone, and show only where there is a page.
LEMMA DashBeginSteps ==
  ASSUME DashInv, [DashNext]_dashVars, NEW b \in Browser,
         \/ Roster(b) \/ History(b) \/ \E t \in Thread, c \in Channel : PostBegin(t, b, c)
  PROVE  DashInv'
<1>1. UNCHANGED <<accounts, store, cache, named, mmUp, botOk>>
  BY DEF Roster, RosterCached, RosterBegin, History, HistoryBegin, PostBegin, serverVars, worldVars
<1>2. /\ accounts' \in Files /\ mmUp' \in BOOLEAN /\ botOk' \in BOOLEAN /\ named' \in {"", "name"}
      /\ cache' \in [answer: {"", "active"}, left: 0..StatusTTL, age: 0..StatusTTL]
      /\ cache'.left + cache'.age <= StatusTTL
      /\ \A d \in Browser : get(d)' = get(d)
  BY <1>1 DEF DashInv, Shapes, Ages, get
<1>3. CASE RosterCached(b)
  <2>1. get(b) # NoAccount /\ req' = req /\ page' = [page EXCEPT ![b].bot = cache.answer]
    BY <1>3 DEF RosterCached
  <2> DEFINE new == [page[b] EXCEPT !.bot = cache.answer]
  <2>2. page[b] \in View /\ page[b].view = "page" /\ cache.answer \in {"", "active"}
    BY <2>1 DEF DashInv, Shapes, Pages, LivePages
  <2>3. new \in View /\ new.view = "page" BY <2>2 DEF View
  <2>4. page' = [page EXCEPT ![b] = new] BY <2>1
  <2> HIDE DEF new
  <2>5. /\ page' \in [Browser -> View]
        /\ \A d \in Browser : page'[d].view = page[d].view /\ (d # b => page'[d] = page[d])
    BY <2>2, <2>3, <2>4 DEF DashInv, Shapes
  <2>6. LivePages' BY <1>2, <2>5, LiveStays DEF DashInv, Pages
  <2>7. EmptyForms' BY <2>2, <2>5 DEF DashInv, Pages, EmptyForms
  <2>8. AwaitedPages'
    <3> SUFFICES ASSUME NEW s \in Thread, req[s] # Idle, req[s].awaited
                 PROVE  page'[req[s].browser].view = "page"
      BY <2>1 DEF AwaitedPages
    <3>1. req[s].browser \in Browser BY RequestFields DEF DashInv
    <3> QED BY <2>5, <3>1 DEF DashInv, Pages, AwaitedPages
  <2>9. /\ Entitled' /\ req' \in [Thread -> {Idle} \cup Request]
        /\ \A s \in Thread : req'[s] # Idle => Answered(req'[s])
    BY <2>1 DEF DashInv, Entitled, Shapes, Ages
  <2> QED BY <1>2, <2>5, <2>6, <2>7, <2>8, <2>9, DashAssemble
<1>4. CASE ~RosterCached(b)
  <2>1. PICK t \in Thread, kind \in {"roster", "history", "post"}, c \in Channel \cup {""} :
          /\ Begin(t, b, kind, c) /\ page' = page
          /\ get(b).role = "ceo" \/ (kind # "roster" /\ c \in get(b).channels)
    <3>1. CASE \E t \in Thread : RosterBegin(t, b)
      <4>1. PICK t \in Thread : RosterBegin(t, b) BY <3>1
      <4>2. Begin(t, b, "roster", "") /\ page' = page /\ get(b).role # "staff"
        BY <4>1 DEF RosterBegin
      <4>3. get(b) \in Identity BY <4>2, SessionIsLogin DEF Begin, DashInv
      <4>4. get(b).role = "ceo" BY <4>2, <4>3 DEF Identity
      <4> QED BY <4>2, <4>4
    <3>2. CASE History(b)
      <4>1. PICK t \in Thread, c \in Channel : HistoryBegin(t, b, c) BY <3>2 DEF History
      <4> QED BY <4>1 DEF HistoryBegin, channels_for_role
    <3>3. CASE \E t \in Thread, c \in Channel : PostBegin(t, b, c)
      <4>1. PICK t \in Thread, c \in Channel : PostBegin(t, b, c) BY <3>3
      <4> QED BY <4>1 DEF PostBegin, post_channels_for_role, channels_for_role
    <3> QED BY <1>4, <3>1, <3>2, <3>3 DEF Roster
  <2>2. /\ req' \in [Thread -> {Idle} \cup Request]
        /\ AwaitedPages' /\ Entitled'
        /\ \A s \in Thread : req'[s] # Idle => Answered(req'[s])
    BY <2>1, BeginSteps DEF DashInv
  <2>3. LivePages' /\ EmptyForms' /\ page' \in [Browser -> View]
    BY <1>2, <2>1 DEF DashInv, Pages, LivePages, EmptyForms, Shapes
  <2> QED BY <1>2, <2>2, <2>3, DashAssemble
<1> QED BY <1>3, <1>4

LEMMA DashHandleSteps ==
  ASSUME DashInv, [DashNext]_dashVars, NEW t \in Thread, Handle(t)
  PROVE  DashInv'
<1>1. UNCHANGED <<accounts, store, mmUp, botOk>>
  BY DEF Handle, BotAnswer, BotStore, HistoryAnswer, _author_name, PostEnd, serverVars, worldVars
<1>2. /\ accounts' \in Files /\ mmUp' \in BOOLEAN /\ botOk' \in BOOLEAN
      /\ \A d \in Browser : get(d)' = get(d)
  BY <1>1 DEF DashInv, Shapes, get
<1>3. req[t] # Idle
  <2>1. req[t].kind # "idle"
    BY DEF Handle, BotAnswer, BotStore, HistoryAnswer, _author_name, PostEnd
  <2> QED BY <2>1, KindNotIdle
<1>4. req[t] \in Request /\ req[t].age \in 0..StatusTTL /\ req[t].answerAge \in 0..StatusTTL
      /\ Answered(req[t])
  BY <1>3, RequestFields DEF DashInv, Ages
<1>5. CASE BotAnswer(t) \/ (HistoryAnswer(t) /\ mmUp)
  <2>1. PICK x \in {"active", "inactive", "posts"} :
          req' = [req EXCEPT ![t].answer = x] /\ (req[t].kind = "roster" => x # "posts")
    BY <1>5 DEF BotAnswer, HistoryAnswer
  <2>2. UNCHANGED <<cache, named, page>>
    BY <1>5 DEF BotAnswer, HistoryAnswer, serverVars
  <2> DEFINE new == [req[t] EXCEPT !.answer = x]
  <2>3. new \in Request BY <1>4, Zenon DEF Request
  <2>4. /\ new.browser = req[t].browser /\ new.entitled = req[t].entitled
        /\ new.awaited = req[t].awaited /\ new.kind = req[t].kind
        /\ new.age = req[t].age /\ new.answerAge = req[t].answerAge /\ new.answer = x
    BY <1>4, Zenon DEF Request
  <2>5. req' = [req EXCEPT ![t] = new] BY <2>1
  <2> HIDE DEF new
  <2>6. req' \in [Thread -> {Idle} \cup Request] BY <2>3, <2>5 DEF DashInv, Shapes
  <2>7. \A s \in Thread : req'[s] = IF s = t THEN new ELSE req[s] BY <2>5 DEF DashInv, Shapes
  <2>8. AwaitedPages' BY <1>3, <2>2, <2>4, <2>7 DEF DashInv, Pages, AwaitedPages
  <2>9. Entitled' BY <1>3, <2>4, <2>7 DEF DashInv, Entitled
  <2>10. \A s \in Thread : req'[s] # Idle => Answered(req'[s])
    BY <1>4, <2>1, <2>4, <2>7 DEF DashInv, Ages, Answered
  <2>11. LivePages' /\ EmptyForms' BY <1>2, <2>2 DEF DashInv, Pages, LivePages, EmptyForms
  <2>12. /\ named' \in {"", "name"} /\ page' \in [Browser -> View]
         /\ cache' \in [answer: {"", "active"}, left: 0..StatusTTL, age: 0..StatusTTL]
         /\ cache'.left + cache'.age <= StatusTTL
    BY <2>2 DEF DashInv, Shapes, Ages
  <2> QED BY <1>2, <2>6, <2>8, <2>9, <2>10, <2>11, <2>12, DashAssemble
<1>6. CASE ~(BotAnswer(t) \/ (HistoryAnswer(t) /\ mmUp))
  <2>1. /\ End(t)
        /\ \/ page' = page
           \/ \E x \in {"active", "inactive"} : req[t].answer = x /\ page' = Show(t, "bot", x)
           \/ \E x \in {"", "name", "somebody"} : page' = Show(t, "name", x)
        /\ named' \in {"", "name"}
        /\ cache' = cache \/ BotStore(t)
    <3>1. CASE BotStore(t)
      <4>1. /\ End(t) /\ named' = named /\ req[t].answer # ""
            /\ req[t].kind = "roster" /\ page' = Show(t, "bot", req[t].answer)
        BY <3>1 DEF BotStore
      <4>2. req[t].answer \in {"active", "inactive"}
        <5>1. req[t].answer \in {"", "active", "inactive", "posts"} BY <1>4 DEF Request
        <5> QED BY <1>4, <4>1, <5>1 DEF Answered
      <4> QED BY <3>1, <4>1, <4>2 DEF DashInv, Shapes
    <3>2. CASE HistoryAnswer(t)
      BY <1>6, <3>2 DEF HistoryAnswer, serverVars, DashInv, Shapes
    <3>3. CASE _author_name(t)
      BY <3>3 DEF _author_name, DashInv, Shapes
    <3>4. CASE PostEnd(t)
      BY <3>4 DEF PostEnd, serverVars, DashInv, Shapes
    <3> QED BY <1>6, <3>1, <3>2, <3>3, <3>4 DEF Handle
  <2>2. /\ req' \in [Thread -> {Idle} \cup Request]
        /\ page' \in [Browser -> View]
        /\ EmptyForms' /\ AwaitedPages' /\ Entitled'
        /\ \A b \in Browser : page'[b].view = page[b].view
        /\ \A s \in Thread : req'[s] # Idle => Answered(req'[s])
    BY <1>3, <2>1, EndSteps DEF DashInv
  <2>3. LivePages' BY <1>2, <2>2, LiveStays DEF DashInv, Pages
  <2>4. /\ cache' \in [answer: {"", "active"}, left: 0..StatusTTL, age: 0..StatusTTL]
        /\ cache'.left + cache'.age <= StatusTTL
    <3>1. CASE cache' = cache BY <3>1 DEF DashInv, Shapes, Ages
    <3>2. CASE BotStore(t) /\ req[t].answer = "active"
      <4> DEFINE left == StatusTTL - req[t].age
      <4>1. left \in 0..StatusTTL /\ left + req[t].answerAge <= StatusTTL
        <5>1. StatusTTL \in Nat BY Limits
        <5> QED BY <1>4, <5>1 DEF Answered
      <4> HIDE DEF left
      <4>2. cache' = [answer |-> "active", left |-> left, age |-> req[t].answerAge]
        BY <3>2 DEF BotStore, left
      <4> QED BY <1>4, <4>1, <4>2
    <3>3. CASE BotStore(t) /\ req[t].answer # "active"
      <4>1. cache' = NoEntry BY <3>3 DEF BotStore
      <4>2. NoEntry.left = 0 /\ NoEntry.age = 0 BY DEF NoEntry
      <4>3. StatusTTL \in Nat BY Limits
      <4>4. cache'.left + cache'.age <= StatusTTL BY <4>1, <4>2, <4>3
      <4> QED BY <4>1, <4>4, Limits DEF NoEntry
    <3> QED BY <2>1, <3>1, <3>2, <3>3
  <2> QED BY <1>2, <2>1, <2>2, <2>3, <2>4, DashAssemble
<1> QED BY <1>5, <1>6

LEMMA DashInvNext == DashInv /\ [DashNext]_dashVars => DashInv'
<1> SUFFICES ASSUME DashInv, [DashNext]_dashVars PROVE DashInv' OBVIOUS
<1>1. CASE Tick \/ Hours \/ Mattermost \/ BotAccount \/ Restart \/ UNCHANGED dashVars
  BY <1>1, DashWorldSteps
<1>2. ASSUME NEW b \in Browser,
             (\E u \in User : _do_login(b, u)) \/ _do_logout(b) \/ Unauthorized(b)
      PROVE  DashInv'
  BY <1>2, DashLoginSteps
<1>3. ASSUME NEW b \in Browser,
             \/ Roster(b) \/ History(b) \/ \E t \in Thread, c \in Channel : PostBegin(t, b, c)
      PROVE  DashInv'
  BY <1>3, DashBeginSteps
<1>4. ASSUME NEW t \in Thread, Handle(t) PROVE DashInv'
  BY <1>4, DashHandleSteps
<1> QED BY <1>1, <1>2, <1>3, <1>4 DEF DashNext

LEMMA DashInvAlways == DashSpec => []DashInv
BY DashInvInit, DashInvNext, PTL DEF DashSpec

\* The dashboard's variables always have their types; the login form shows nothing of
\* what was there before it (ceo_auth.py:148-190, ceo_dashboard.py:2362-2387).
THEOREM DashTypeCorrect == DashSpec => []DashTypeOK
<1>1. DashInv => DashTypeOK
  <2> SUFFICES ASSUME DashInv PROVE DashTypeOK OBVIOUS
  <2>1. /\ accounts \in Files /\ mmUp \in BOOLEAN /\ botOk \in BOOLEAN
        /\ named \in {"", "name", "somebody"}
        /\ cache \in [answer: {"", "active"}, left: 0..StatusTTL, age: 0..StatusTTL]
    BY DEF DashInv, Shapes
  <2>2. \A b \in Browser :
          /\ store[b] = NoSession \/ store[b] \in [age: 0..SessionTTL, ident: Identity]
          /\ login[b] = NoLogin \/ login[b] \in [age: 0..SessionTTL, rights: Identity]
    BY DEF DashInv, Shapes, Session, Right
  <2>3. \A b \in Browser :
          /\ page[b] \in View
          /\ page[b].view = "login" => page[b] = LoginForm
    BY DEF DashInv, Shapes, Pages, EmptyForms
  <2>4. \A t \in Thread : req[t] = Idle \/ req[t] \in Request BY DEF DashInv, Shapes
  <2> QED BY <2>1, <2>2, <2>3, <2>4 DEF DashTypeOK, View, Request
<1> QED BY <1>1, DashInvAlways, PTL

\* Whatever browsers, threads, accounts and answers there are, what a thread does for a
\* browser it began for a login that had not ended, and within its rights
\* (ceo_dashboard.py:579-589, 123-177; ceo_auth.py:161-190).
THEOREM NothingUnentitled == DashSpec => []Entitled
<1>1. DashInv => Entitled BY DEF DashInv
<1> QED BY <1>1, DashInvAlways, PTL

\* However slow the calls are and in whichever order they end, an answer that the status
\* cache gives is less than StatusTTL old (ceo_dashboard.py:330-357).
THEOREM StatusYoung == DashSpec => []StatusFresh
<1>1. DashInv => StatusFresh
  <2> SUFFICES ASSUME DashInv, Cached PROVE cache.age < StatusTTL BY DEF StatusFresh
  <2>1. cache.left > 0 /\ cache.left + cache.age <= StatusTTL BY DEF Cached, DashInv, Ages
  <2>2. cache.left \in 0..StatusTTL /\ cache.age \in 0..StatusTTL BY DEF DashInv, Shapes
  <2>3. StatusTTL \in Nat BY Limits
  <2> QED BY <2>1, <2>2, <2>3
<1> QED BY <1>1, DashInvAlways, PTL
=============================================================================
