--------------------------- MODULE ScrapingProofs ---------------------------
(***************************************************************************)
(* Proofs about Targets and Scraping, for any number of servers, RTCD      *)
(* nodes and calls of the hook, and any settings.                          *)
(***************************************************************************)
EXTENDS Scraping, TLAPS

(***************************************************************************)
(* Groups of targets.                                                      *)
(***************************************************************************)

\* A target is determined by its host and its endpoint.
LEMMA AtIsInjective ==
  ASSUME NEW h, NEW k, NEW d, NEW e
  PROVE  At(h, d) = At(k, e) <=> h = k /\ d = e
<1>1. /\ At(h, d).host = h /\ At(h, d).endpoint = d
      /\ At(k, e).host = k /\ At(k, e).endpoint = e
  BY DEF At
<1> QED
  BY <1>1

LEMMA MembersAreServers ==
  ASSUME NEW list \in SUBSET Servers
  PROVE  Members(Self, list) \in SUBSET Servers
  BY ScrapingAssumption DEF Members

LEMMA GroupHas ==
  ASSUME NEW hosts, NEW d, NEW h, NEW e
  PROVE  At(h, e) \in Group(hosts, d) <=> h \in hosts /\ e = d
  BY AtIsInjective DEF Group

\* Which targets the servers of a list have without Calls.
LEMMA ServerTargetsHas ==
  ASSUME NEW list, NEW x \in BOOLEAN, NEW h \in Servers \cup RtcdNodes, NEW e
  PROVE  At(h, e) \in ServerTargets(Self, list, x) <=>
           /\ h \in Members(Self, list)
           /\ e = "metrics" \/ (e = "node" /\ x)
<1>1. At(h, e) # NoAddress
  BY TargetsAssumption, AtIsInjective DEF NoAddress
<1> QED
  BY <1>1, GroupHas DEF ServerTargets

\* Which targets Calls adds.
LEMMA CallsTargetsHas ==
  ASSUME NEW members, NEW rtcd, NEW x \in BOOLEAN, NEW h, NEW e
  PROVE  At(h, e) \in CallsTargets(members, rtcd, x) <=>
           \/ h \in members /\ e = "calls"
           \/ h \in rtcd /\ e = "rtcd"
           \/ h \in rtcd /\ e = "node" /\ x
  BY GroupHas DEF CallsTargets

LEMMA TargetsAreTyped ==
  ASSUME NEW list \in SUBSET Servers, NEW rtcd \in SUBSET RtcdNodes, NEW x \in BOOLEAN
  PROVE  /\ ServerTargets(Self, list, x) \in SUBSET Target
         /\ CallsTargets(Members(Self, list), rtcd, x) \in SUBSET Target
<1>1. ASSUME NEW hosts \in SUBSET (Servers \cup RtcdNodes), NEW e \in Endpoints
      PROVE  Group(hosts, e) \in SUBSET Target
  BY DEF Group, At, Target
<1>2. Members(Self, list) \in SUBSET (Servers \cup RtcdNodes)
  BY MembersAreServers
<1>3. "metrics" \in Endpoints /\ "node" \in Endpoints /\ "calls" \in Endpoints /\ "rtcd" \in Endpoints
  BY DEF Endpoints
<1>4. NoAddress \in Target
  BY DEF Target
<1>5. ServerTargets(Self, list, x) \in SUBSET Target
  BY <1>1, <1>2, <1>3, <1>4 DEF ServerTargets
<1>6. CallsTargets(Members(Self, list), rtcd, x) \in SUBSET Target
  BY <1>1, <1>2, <1>3 DEF CallsTargets
<1> QED
  BY <1>5, <1>6

\* A group that generateTargetGroup makes is what a reader of the settings
\* expects, apart from the label set without an address: nothing is missing,
\* nothing is added (configuration.go:276, 295; calls_targets.go:60, 78).
THEOREM GroupsAreExpected ==
  ASSUME NEW list \in SUBSET Servers, NEW x \in BOOLEAN, NEW C \in BOOLEAN
  PROVE  ServerTargets(Self, list, x) \cup
           (IF C THEN CallsTargets(Members(Self, list), RtcdNodes, x) ELSE {})
             \in {Expected(Members(Self, list), x, C),
                  Expected(Members(Self, list), x, C) \cup {NoAddress}}
<1> DEFINE M == Members(Self, list)
           G == ServerTargets(Self, list, x) \cup
                  (IF C THEN CallsTargets(M, RtcdNodes, x) ELSE {})
           E == Expected(M, x, C)
<1>1. G \in SUBSET Target
  BY TargetsAreTyped
<1>2. M \in SUBSET Servers
  BY MembersAreServers
<1>3. ASSUME NEW t \in Target, t # NoAddress
      PROVE  t \in G <=> t \in E
  <2>1. t.host \in Servers \cup RtcdNodes /\ t.endpoint \in Endpoints /\ t = At(t.host, t.endpoint)
    BY <1>3 DEF Target, At
  <2>2. t \in G <=> \/ t.host \in M /\ (t.endpoint = "metrics" \/ (t.endpoint = "node" /\ x))
                    \/ C /\ \/ t.host \in M /\ t.endpoint = "calls"
                            \/ t.host \in RtcdNodes /\ t.endpoint = "rtcd"
                            \/ t.host \in RtcdNodes /\ t.endpoint = "node" /\ x
    BY <2>1, ServerTargetsHas, CallsTargetsHas
  <2> HIDE DEF M, G
  <2>3. t \in E <=>
          \/ t.endpoint = "metrics" /\ t.host \in M
          \/ t.endpoint = "calls"   /\ C /\ t.host \in M
          \/ t.endpoint = "rtcd"    /\ C /\ t.host \in RtcdNodes
          \/ t.endpoint = "node"    /\ x /\ (t.host \in M \/ (C /\ t.host \in RtcdNodes))
    BY <1>3 DEF Expected
  <2> QED
    BY <2>1, <2>2, <2>3 DEF Endpoints
<1>4. NoAddress \notin E /\ E \in SUBSET Target
  BY DEF Expected
<1> HIDE DEF G, E
<1>5. G = E \/ G = E \cup {NoAddress}
  BY <1>1, <1>3, <1>4
<1> QED
  BY <1>5 DEF G, E

(***************************************************************************)
(* The invariant.                                                          *)
(***************************************************************************)

LEMMA DefaultsAreTyped ==
  ASSUME NEW s \in Settings
  PROVE  SetDefaults(s) \in Settings /\ SetDefaults(s).exporter # "nil"
  BY DEF Settings, SetDefaults

LEMMA NothingIsTyped ==
  /\ Nothing \in Settings
  /\ IdleHook \in Hook /\ IdleHook.pc = "idle"
  /\ NewPing \in Ping /\ NewPing.pc = "wait" /\ NewPing.list = {} /\ NewPing.group = {}
<1>1. Nothing \in Settings
  BY DEF Nothing, Settings
<1> QED
  BY <1>1 DEF IdleHook, Hook, HookPC, NewPing, Ping, PingPC

\* Every group the goroutine can make, with Calls or without it, and with its
\* RTCD nodes resolved or not, is typed, covers the members of the list and
\* is made from one copy of the settings.
LEMMA GatheredGroup ==
  ASSUME TypeOK, NEW rtcd \in SUBSET RtcdNodes, NEW ct,
         ct \in {{}, CallsTargets(Members(Self, ping.list), rtcd, Exporter(ping.cfg))}
  PROVE  /\ GroupWith(ct) \in SUBSET Target
         /\ Covered(GroupWith(ct)) = Members(Self, ping.list)
         /\ ExporterForAll(GroupWith(ct))
<1> DEFINE M == Members(Self, ping.list)
           x == Exporter(ping.cfg)
           Has(h, e) == At(h, e) \in GroupWith(ct)
<1>1. ping.list \in SUBSET Servers /\ x \in BOOLEAN
  BY DEF TypeOK, Ping, Exporter
<1>2. M \in SUBSET Servers
  BY <1>1, MembersAreServers
<1>3. GroupWith(ct) \in SUBSET Target
  BY <1>1, TargetsAreTyped DEF GroupWith
<1>4. \A h \in Servers \cup RtcdNodes, e \in Endpoints :
        Has(h, e) <=>
          \/ h \in M /\ (e = "metrics" \/ (e = "node" /\ x))
          \/ ct # {} /\ \/ h \in M /\ e = "calls"
                        \/ h \in rtcd /\ e = "rtcd"
                        \/ h \in rtcd /\ e = "node" /\ x
  BY <1>1, ServerTargetsHas, CallsTargetsHas DEF GroupWith
<1> HIDE DEF M, x
<1>5. Covered(GroupWith(ct)) = M
  <2>1. \A h \in Servers : Has(h, "metrics") <=> h \in M
    BY <1>4 DEF Endpoints
  <2> QED
    BY <2>1, <1>2 DEF Covered
<1>6. ExporterForAll(GroupWith(ct))
  <2> DEFINE hosts(e) == {h \in Servers \cup RtcdNodes : Has(h, e)}
  <2>1. /\ \A h \in Servers \cup RtcdNodes : Has(h, "metrics") <=> h \in M
        /\ \A h \in Servers \cup RtcdNodes : Has(h, "rtcd") <=> ct # {} /\ h \in rtcd
        /\ \A h \in Servers \cup RtcdNodes :
             Has(h, "node") <=> x /\ (h \in M \/ (ct # {} /\ h \in rtcd))
    BY <1>4 DEF Endpoints
  <2>2. CASE x
    <3>1. hosts("node") = hosts("metrics") \cup hosts("rtcd")
      BY <2>1, <2>2
    <3> QED
      BY <3>1 DEF ExporterForAll
  <2>3. CASE ~x
    <3>1. hosts("node") = {}
      BY <2>1, <2>3
    <3> QED
      BY <3>1 DEF ExporterForAll
  <2> QED
    BY <2>2, <2>3
<1> QED
  BY <1>3, <1>5, <1>6 DEF M

LEMMA NoGroupIsOneCopy == ExporterForAll({})
  BY DEF ExporterForAll

LEMMA ScrapingInit == Init => ScrapingInv
<1> SUFFICES ASSUME Init PROVE ScrapingInv
  OBVIOUS
<1> USE NothingIsTyped
<1>1. TypeOK
  <2>1. saved \in Settings /\ glitches \in 0..MaxGlitches
    BY ScrapingAssumption DEF Init
  <2>2. table \in SUBSET Servers
    BY DEF Init, Tables
  <2>3. hook \in [Hooks -> Hook]
    BY DEF Init
  <2> QED
    BY <2>1, <2>2, <2>3 DEF Init, TypeOK
<1>2. ActiveIsValid /\ LoadedIsComplete /\ SentIsRemembered
  BY DEF Init, ActiveIsValid, LoadedIsComplete, SentIsRemembered
<1>3. OneCopy
  BY NoGroupIsOneCopy DEF Init, OneCopy
<1> QED
  BY <1>1, <1>2, <1>3 DEF ScrapingInv

\* A step that leaves the goroutine and the targets alone.
LEMMA PingUntouched ==
  ASSUME SentIsRemembered, OneCopy, UNCHANGED <<ha, ping, targets>>
  PROVE  SentIsRemembered' /\ OneCopy'
  BY DEF SentIsRemembered, OneCopy, Covered, ExporterForAll

\* A step that leaves the settings alone.
LEMMA SettingsUntouched ==
  ASSUME ActiveIsValid, LoadedIsComplete, UNCHANGED <<up, active, hook>>
  PROVE  ActiveIsValid' /\ LoadedIsComplete'
  BY DEF ActiveIsValid, LoadedIsComplete

LEMMA ScrapingStep == ScrapingInv /\ [Next]_vars => ScrapingInv'
<1> SUFFICES ASSUME ScrapingInv, [Next]_vars PROVE ScrapingInv'
  OBVIOUS
<1> USE ScrapingInv, NothingIsTyped DEF ScrapingInv
<1>act. CASE Activate
  <2>1. TypeOK'
    BY <1>act, DefaultsAreTyped DEF Activate, TypeOK
  <2>2. ActiveIsValid' /\ LoadedIsComplete'
    BY <1>act, DefaultsAreTyped DEF Activate, TypeOK, ActiveIsValid, LoadedIsComplete
  <2> QED
    BY <1>act, <2>1, <2>2, PingUntouched DEF Activate
<1>stop. CASE Stop
  <2>1. TypeOK'
    BY <1>stop DEF Stop, TypeOK
  <2>2. ActiveIsValid' /\ LoadedIsComplete' /\ SentIsRemembered'
    BY <1>stop DEF Stop, ActiveIsValid, LoadedIsComplete, SentIsRemembered
  <2>3. OneCopy'
    BY <1>stop, NoGroupIsOneCopy DEF Stop, OneCopy
  <2> QED
    BY <2>1, <2>2, <2>3
<1>save. ASSUME NEW h \in Hooks, Save(h) PROVE ScrapingInv'
  <2>1. TypeOK'
    BY <1>save, ScrapingAssumption DEF Save, TypeOK, Hook, HookPC
  <2>2. ActiveIsValid' /\ LoadedIsComplete'
    BY <1>save DEF Save, TypeOK, ActiveIsValid, LoadedIsComplete
  <2> QED
    BY <1>save, <2>1, <2>2, PingUntouched DEF Save
<1>load. ASSUME NEW h \in Hooks, LoadConfig(h) PROVE ScrapingInv'
  <2>1. TypeOK'
    BY <1>load, DefaultsAreTyped DEF LoadConfig, TypeOK, Hook, HookPC
  <2>2. ActiveIsValid' /\ LoadedIsComplete'
    BY <1>load, DefaultsAreTyped DEF LoadConfig, TypeOK, ActiveIsValid, LoadedIsComplete
  <2> QED
    BY <1>load, <2>1, <2>2, PingUntouched DEF LoadConfig
<1>lost. ASSUME NEW h \in Hooks, LoadFails(h) PROVE ScrapingInv'
  <2>1. TypeOK'
    BY <1>lost, ScrapingAssumption DEF LoadFails, Glitch, TypeOK, Hook, HookPC
  <2>2. ActiveIsValid' /\ LoadedIsComplete'
    BY <1>lost DEF LoadFails, TypeOK, ActiveIsValid, LoadedIsComplete
  <2> QED
    BY <1>lost, <2>1, <2>2, PingUntouched DEF LoadFails
<1>set. ASSUME NEW h \in Hooks, SetConfiguration(h) PROVE ScrapingInv'
  <2>1. TypeOK'
    BY <1>set DEF SetConfiguration, TypeOK, Hook
  <2>2. ActiveIsValid' /\ LoadedIsComplete'
    BY <1>set DEF SetConfiguration, TypeOK, ActiveIsValid, LoadedIsComplete
  <2> QED
    BY <1>set, <2>1, <2>2, PingUntouched DEF SetConfiguration
<1>tick. CASE PingTick
  <2>1. TypeOK'
    BY <1>tick DEF PingTick, TypeOK, Ping, PingPC
  <2>2. ping'.pc = "gather" /\ ping'.group = ping.group
    BY <1>tick DEF PingTick, TypeOK, Ping
  <2>3. SentIsRemembered' /\ OneCopy'
    BY <1>tick, <2>2 DEF PingTick, SentIsRemembered, OneCopy, ExporterForAll
  <2> QED
    BY <1>tick, <2>1, <2>3, SettingsUntouched DEF PingTick
<1>fails. CASE PingFails
  <2>1. TypeOK'
    BY <1>fails, ScrapingAssumption DEF PingFails, Glitch, TypeOK, Ping, PingPC
  <2>2. ping'.pc = "ended" /\ ping'.group = ping.group
    BY <1>fails DEF PingFails, TypeOK, Ping
  <2>3. SentIsRemembered' /\ OneCopy'
    BY <1>fails, <2>2 DEF PingFails, SentIsRemembered, OneCopy, ExporterForAll
  <2> QED
    BY <1>fails, <2>1, <2>3, SettingsUntouched DEF PingFails
<1>gather. CASE Gather
  <2>1. PICK ct : /\ Gathered(ct)
                  /\ \E rtcd \in SUBSET RtcdNodes :
                       ct \in {{}, CallsTargets(Members(Self, ping.list), rtcd, Exporter(ping.cfg))}
    BY <1>gather DEF Gather, CallsNow
  <2> DEFINE group == GroupWith(ct)
  <2>2. /\ group \in SUBSET Target
        /\ Covered(group) = Members(Self, ping.list)
        /\ ExporterForAll(group)
    BY <2>1, GatheredGroup
  <2> HIDE DEF group
  <2>3. /\ ping' = [ping EXCEPT !.pc = "send", !.cfg = Nothing, !.group = group]
        /\ ping'.pc = "send" /\ ping'.group = group /\ ping'.list = ping.list
    BY <2>1 DEF Gathered, TypeOK, Ping, group
  <2>4. TypeOK'
    <3>1. glitches' \in 0..MaxGlitches
      BY <1>gather, ScrapingAssumption DEF Gather, Glitch, TypeOK
    <3> QED
      BY <1>gather, <2>2, <2>3, <3>1 DEF Gather, TypeOK, Ping, PingPC
  <2>5. SentIsRemembered'
    BY <2>2, <2>3 DEF SentIsRemembered, Covered
  <2>6. OneCopy'
    BY <1>gather, <2>2, <2>3 DEF Gather, OneCopy, ExporterForAll
  <2> QED
    BY <1>gather, <2>4, <2>5, <2>6, SettingsUntouched DEF Gather
<1>send. CASE Send
  <2>1. TypeOK'
    BY <1>send DEF Send, TypeOK, Ping, PingPC
  <2>2. ping'.pc = "wait" /\ ping'.group = {} /\ ping'.list = ping.list /\ targets' = ping.group
    BY <1>send DEF Send, TypeOK, Ping
  <2>3. SentIsRemembered'
    BY <1>send, <2>2 DEF Send, SentIsRemembered, Covered
  <2>4. OneCopy'
    BY <2>2, NoGroupIsOneCopy DEF OneCopy, ExporterForAll
  <2> QED
    BY <1>send, <2>1, <2>3, <2>4, SettingsUntouched DEF Send
<1>table. CASE ChangeTable
  <2>1. TypeOK'
    BY <1>table DEF ChangeTable, TypeOK, Tables
  <2> QED
    BY <1>table, <2>1, PingUntouched, SettingsUntouched DEF ChangeTable
<1>calls. CASE ChangeCalls
  <2>1. TypeOK'
    BY <1>calls DEF ChangeCalls, TypeOK
  <2> QED
    BY <1>calls, <2>1, PingUntouched, SettingsUntouched DEF ChangeCalls
<1>stutter. CASE UNCHANGED vars
  <2>1. TypeOK'
    BY <1>stutter DEF vars, TypeOK
  <2> QED
    BY <1>stutter, <2>1, PingUntouched, SettingsUntouched DEF vars
<1> QED
  BY <1>act, <1>stop, <1>save, <1>load, <1>lost, <1>set, <1>tick, <1>fails, <1>gather,
     <1>send, <1>table, <1>calls, <1>stutter DEF Next

\* Whatever is saved, joins, leaves or fails: the settings in force can be
\* read without a check, the scraper is on the servers of currentList
\* whenever the goroutine waits for the topology to change, and no group is
\* made from two copies of the settings (configuration.go:173, 217, 264;
\* plugin.go:217).
THEOREM ScrapingInvariance == Spec => []ScrapingInv
<1> QED
  BY ScrapingInit, ScrapingStep, PTL DEF Spec

=============================================================================
