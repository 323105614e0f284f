------------------------------ MODULE Scraping ------------------------------
(***************************************************************************)
(* The settings of the plugin (server/configuration.go) and the goroutine  *)
(* that tells the scrape manager what to scrape (server/plugin.go:187-234, *)
(* server/cluster.go, server/calls_targets.go), in the process of the one  *)
(* server, Self, that scrapes.                                             *)
(*                                                                         *)
(* Settings are saved on the server, which asks ConfigurationWillBeSaved   *)
(* first and calls OnConfigurationChange afterwards, asynchronously; each  *)
(* call of the hook loads the saved settings and then replaces the active  *)
(* ones under configurationLock.  At every tick the ping goroutine looks   *)
(* at the discovery table (in HA), takes a copy of the active settings,    *)
(* asks for the state of the Calls plugin and sends the targets.           *)
(*                                                                         *)
(* Module Lifecycle has the start and the end of the goroutines on every   *)
(* server; here the scraper is either up or down.                          *)
(***************************************************************************)
EXTENDS Targets

CONSTANTS
  Self,          \* the server whose process scrapes
  Hooks,         \* calls of OnConfigurationChange in flight at a time
  SavedSettings, \* settings an administrator saves
  MaxGlitches    \* transient failures of the plugin API, the database or DNS

(***************************************************************************)
(* Settings.  "numbers" stands for the fields IsValid looks at, "exporter" *)
(* for EnableNodeExporterTargets; a field that was never saved is nil.     *)
(***************************************************************************)
Settings == [exporter: {"nil", "on", "off"}, numbers: {"nil", "good", "bad"}]
Nothing  == [exporter |-> "nil", numbers |-> "nil"]

ASSUME ScrapingAssumption ==
  /\ Self \in Servers
  /\ SavedSettings \subseteq Settings
  /\ MaxGlitches \in Nat

IsValid(s) == s.numbers = "good"

SetDefaults(s) ==
  [exporter |-> IF s.exporter = "nil" THEN "on" ELSE s.exporter,
   numbers  |-> IF s.numbers = "nil" THEN "good" ELSE s.numbers]

\* The settings of the plugin named id in a configuration of the server that
\* holds s for this plugin, under the identifier of its manifest.
PluginSettings(s, id) == IF id = "com.mattermost.mattermost-plugin-metrics" THEN s ELSE Nothing

\* Whether a configuration may be saved.  It is looked up under PluginName,
\* so that only the defaults are ever examined.
ConfigurationWillBeSaved(s) ==
  IsValid(SetDefaults(PluginSettings(s, "mattermost-plugin-metrics")))

VARIABLES
  ha,       \* ClusterSettings.Enable
  table,    \* servers the discovery table lists as alive
  calls,    \* Calls is running
  saved,    \* settings saved on the server
  up,       \* the plugin is active and scrapes
  active,   \* p.configuration
  hook,     \* hook[h]: a call of OnConfigurationChange
  ping,     \* the ping goroutine: where it is, currentList, its copy of the
            \* settings and the group it is about to send
  targets,  \* what the scrape manager scrapes
  glitches  \* transient failures so far

vars == <<ha, table, calls, saved, up, active, hook, ping, targets, glitches>>

HookPC == {"idle",
           "called", \* before loadConfig
           "loaded", \* before setConfiguration
           "failed"} \* the last call has returned an error of loadConfig
Hook   == [pc: HookPC, cfg: Settings]
PingPC == {"wait",   \* in its select
           "gather", \* generateTargetGroup has its copy of the settings
           "send",   \* before the send over syncCh
           "ended"}
Ping   == [pc: PingPC, list: SUBSET Servers, cfg: Settings, group: SUBSET Target]

IdleHook == [pc |-> "idle", cfg |-> Nothing]
NewPing  == [pc |-> "wait", list |-> {}, cfg |-> Nothing, group |-> {}]

TypeOK ==
  /\ ha \in BOOLEAN /\ calls \in BOOLEAN /\ up \in BOOLEAN
  /\ table \in SUBSET Servers
  /\ saved \in Settings /\ active \in Settings
  /\ hook \in [Hooks -> Hook]
  /\ ping \in Ping
  /\ targets \in SUBSET Target
  /\ glitches \in 0..MaxGlitches

\* A server that runs lists itself in the discovery table.
Tables == {T \in SUBSET Servers : Self \in T}

Init ==
  /\ ha \in BOOLEAN /\ calls \in BOOLEAN
  /\ table \in IF ha THEN Tables ELSE {{}}
  /\ saved \in SavedSettings
  /\ up = FALSE
  /\ active = Nothing
  /\ hook = [h \in Hooks |-> IdleHook]
  /\ ping = NewPing
  /\ targets = {}
  /\ glitches = 0

Glitch == glitches < MaxGlitches /\ glitches' = glitches + 1

(***************************************************************************)
(* OnActivate and the end of the process.                                  *)
(***************************************************************************)

\* loadConfig fails, and the activation with it, unless the settings can be
\* loaded and are valid; the process then ends as it was, down.
Activate ==
  /\ ~up /\ IsValid(SetDefaults(saved))
  /\ up' = TRUE
  /\ active' = SetDefaults(saved)
  /\ UNCHANGED <<ha, table, calls, saved, hook, ping, targets, glitches>>

\* The process ends; its memory is gone.
Stop ==
  /\ up
  /\ up' = FALSE
  /\ active' = Nothing
  /\ hook' = [h \in Hooks |-> IdleHook]
  /\ ping' = NewPing
  /\ targets' = {}
  /\ UNCHANGED <<ha, table, calls, saved, glitches>>

(***************************************************************************)
(* Settings.                                                               *)
(***************************************************************************)

InFlight(h) == hook[h].pc \in {"called", "loaded"}

\* An administrator saves settings; the server then calls the hook.
Save(h) ==
  /\ ~InFlight(h)
  /\ \E s \in SavedSettings \ {saved} : ConfigurationWillBeSaved(s) /\ saved' = s
  /\ hook' = [hook EXCEPT ![h].pc = IF up THEN "called" ELSE "idle"]
  /\ UNCHANGED <<ha, table, calls, up, active, ping, targets, glitches>>

\* Mutation: without SetDefaults.
LoadConfigNoDefaults(h) ==
  /\ hook[h].pc = "called"
  /\ hook' = [hook EXCEPT ![h] = [pc |-> "loaded", cfg |-> saved]]
  /\ UNCHANGED <<ha, table, calls, saved, up, active, ping, targets, glitches>>

\* loadConfig: LoadPluginConfiguration and SetDefaults.
LoadConfig(h) ==
  /\ hook[h].pc = "called"
  /\ hook' = [hook EXCEPT ![h] = [pc |-> "loaded", cfg |-> SetDefaults(saved)]]
  /\ UNCHANGED <<ha, table, calls, saved, up, active, ping, targets, glitches>>

\* LoadPluginConfiguration fails: the hook returns the error, the settings in
\* force stay, and nothing asks for the saved ones again.
LoadFails(h) ==
  /\ hook[h].pc = "called"
  /\ Glitch
  /\ hook' = [hook EXCEPT ![h].pc = "failed"]
  /\ UNCHANGED <<ha, table, calls, saved, up, active, ping, targets>>

\* Mutation: the settings are not examined.
SetConfigurationUnchecked(h) ==
  /\ hook[h].pc = "loaded"
  /\ active' = hook[h].cfg
  /\ hook' = [hook EXCEPT ![h] = IdleHook]
  /\ UNCHANGED <<ha, table, calls, saved, up, ping, targets, glitches>>

\* setConfiguration: settings that are not valid are refused.
SetConfiguration(h) ==
  /\ hook[h].pc = "loaded"
  /\ active' = IF IsValid(hook[h].cfg) THEN hook[h].cfg ELSE active
  /\ hook' = [hook EXCEPT ![h] = IdleHook]
  /\ UNCHANGED <<ha, table, calls, saved, up, ping, targets, glitches>>

(***************************************************************************)
(* The ping goroutine.                                                     *)
(***************************************************************************)

\* Both lists are ordered by Id.
topologyChanged(a, b) == a # b

\* Mutation: the list is not remembered.
PingTickForgets ==
  /\ up /\ ping.pc = "wait"
  /\ ha => topologyChanged(ping.list, table)
  /\ ping' = [ping EXCEPT !.pc = "gather", !.cfg = active]
  /\ UNCHANGED <<ha, table, calls, saved, up, active, hook, targets, glitches>>

\* Mutation: only a change of the topology counts, without HA as well.
PingTickOnChange ==
  /\ up /\ ping.pc = "wait"
  /\ topologyChanged(ping.list, table)
  /\ ping' = [ping EXCEPT !.pc = "gather", !.list = table, !.cfg = active]
  /\ UNCHANGED <<ha, table, calls, saved, up, active, hook, targets, glitches>>

\* A tick.  In HA the goroutine goes on only if the topology has changed;
\* otherwise always.  It has read the table and takes a copy of the settings.
PingTick ==
  /\ up /\ ping.pc = "wait"
  /\ ha => topologyChanged(ping.list, table)
  /\ ping' = [ping EXCEPT !.pc = "gather", !.list = IF ha THEN table ELSE @, !.cfg = active]
  /\ UNCHANGED <<ha, table, calls, saved, up, active, hook, targets, glitches>>

\* The query of the table fails, or the listen address cannot be parsed.
PingFails ==
  /\ up /\ ping.pc = "wait"
  /\ Glitch
  /\ ping' = [ping EXCEPT !.pc = "ended"]
  /\ UNCHANGED <<ha, table, calls, saved, up, active, hook, targets>>

Exporter(cfg) == cfg.exporter = "on"

\* The group generateTargetGroup returns; callsTargets are those of Calls.
GroupWith(callsTargets) ==
  ServerTargets(Self, ping.list, Exporter(ping.cfg)) \cup callsTargets

Gathered(callsTargets) ==
  ping' = [ping EXCEPT !.pc = "send", !.cfg = Nothing, !.group = GroupWith(callsTargets)]

CallsNow(cfg, rtcd) ==
  IF calls THEN CallsTargets(Members(Self, ping.list), rtcd, Exporter(cfg)) ELSE {}

\* Mutation: the settings are read again for Calls.
GatherReadsAgain ==
  /\ ping.pc = "gather"
  /\ Gathered(CallsNow(active, RtcdNodes))
  /\ UNCHANGED <<ha, table, calls, saved, up, active, hook, targets, glitches>>

\* generateTargetGroup asks for the state of Calls.  Without an answer the
\* targets of Calls are left out; so are the RTCD nodes when their name
\* cannot be resolved.
Gather ==
  /\ ping.pc = "gather"
  /\ \/ Gathered(CallsNow(ping.cfg, RtcdNodes)) /\ UNCHANGED glitches
     \/ Glitch /\ Gathered({})
     \/ Glitch /\ Gathered(CallsNow(ping.cfg, {}))
  /\ UNCHANGED <<ha, table, calls, saved, up, active, hook, targets>>

\* The manager replaces its targets by those sent.
Send ==
  /\ ping.pc = "send"
  /\ targets' = ping.group
  /\ ping' = [ping EXCEPT !.pc = "wait", !.group = {}]
  /\ UNCHANGED <<ha, table, calls, saved, up, active, hook, glitches>>

(***************************************************************************)
(* The environment: servers join and leave, Calls is started and stopped.  *)
(***************************************************************************)
ChangeTable ==
  /\ ha
  /\ table' \in Tables \ {table}
  /\ UNCHANGED <<ha, calls, saved, up, active, hook, ping, targets, glitches>>

ChangeCalls ==
  /\ calls' = ~calls
  /\ UNCHANGED <<ha, table, saved, up, active, hook, ping, targets, glitches>>

Next ==
  \/ Activate \/ Stop
  \/ \E h \in Hooks : Save(h) \/ LoadConfig(h) \/ LoadFails(h) \/ SetConfiguration(h)
  \/ PingTick \/ PingFails \/ Gather \/ Send
  \/ ChangeTable \/ ChangeCalls

Spec == Init /\ [][Next]_vars

\* Hooks that were called and the goroutine go on; the ticker ticks.  Failures
\* (LoadFails, PingFails) are not owed; Gather, which never fails, may be
\* without an answer MaxGlitches times.
Fairness ==
  /\ WF_vars(PingTick) /\ WF_vars(Gather) /\ WF_vars(Send)
  /\ \A h \in Hooks : WF_vars(LoadConfig(h)) /\ WF_vars(SetConfiguration(h))

FairSpec == Spec /\ Fairness

(***************************************************************************)
(* Properties.                                                             *)
(***************************************************************************)

\* The settings in force have every field and pass IsValid, whatever has been
\* saved (configuration.go:173, 217): the readers of p.configuration in
\* plugin.go and sync.go follow its pointers without a check.
ActiveIsValid == up => IsValid(active) /\ active.exporter # "nil"

\* The servers a group of targets covers.
Covered(group) == {h \in Servers : At(h, "metrics") \in group}

\* In HA nothing is sent unless the list differs from currentList
\* (plugin.go:217), so the scraper must already be on currentList whenever
\* the goroutine is back in its select.
SentIsRemembered ==
  ha => /\ ping.pc = "wait" /\ ping.list # {}
             => Covered(targets) = Members(Self, ping.list)
        /\ ping.pc = "send" => Covered(ping.group) = Members(Self, ping.list)

\* A group is made from one copy of the settings although they may change
\* while it is made (configuration.go:264): if one of its hosts has a node
\* exporter, all of them have.
ExporterForAll(group) ==
  LET hosts(e) == {h \in Servers \cup RtcdNodes : At(h, e) \in group} IN
  hosts("node") \in {{}, hosts("metrics") \cup hosts("rtcd")}

OneCopy == ExporterForAll(ping.group) /\ ExporterForAll(targets)

\* What a call of the hook has loaded has every field.
LoadedIsComplete ==
  \A h \in Hooks : hook[h].pc = "loaded" => hook[h].cfg.exporter # "nil"

\* The inductive invariant.
ScrapingInv ==
  TypeOK /\ ActiveIsValid /\ LoadedIsComplete /\ SentIsRemembered /\ OneCopy

Running == up /\ ping.pc # "ended"

\* Without HA targets are regenerated, "in case plugins providing metrics
\* (e.g. Calls) started after we did" (plugin.go:184): once Calls and the
\* settings in force stay the same, their targets are the ones scraped, even
\* after failures to ask for the state of Calls or to resolve RTCD.
Settled(C, S) == Running /\ ~ha /\ calls = C /\ active = S

SingleFollows ==
  \A C \in BOOLEAN, S \in Settings :
    <>[]Settled(C, S) => <>[](targets = Expected({Self}, Exporter(S), C))

\* In HA the scraper ends up on the servers of the cluster, once they settle.
ClusterFollows ==
  \A T \in Tables :
    <>[](Running /\ ha /\ table = T) => <>[](Covered(targets) = T)

\* The last settings saved come into force if they are valid (configuration.
\* go:194-219), in spite of the failures and the refused settings before.
\* Two things the code does not make up for are assumed away: a call that
\* could not load the settings, and two calls that overlap, the older of which
\* may be the last to set its settings.  No text of the repository promises
\* more.
Serial     == \A h, k \in Hooks : InFlight(h) /\ InFlight(k) => h = k
NoneFailed == \A h \in Hooks : hook[h].pc # "failed"

SettingsApply ==
  \A S \in SavedSettings :
    IsValid(SetDefaults(S)) =>
      ([]Serial /\ <>[](up /\ saved = S /\ NoneFailed) => <>[](active = SetDefaults(S)))

=============================================================================
