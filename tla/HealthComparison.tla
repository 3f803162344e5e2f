---------------------------- MODULE HealthComparison ----------------------------
(***************************************************************************)
(* The comparison of a before and an after Snapshot                        *)
(* (alred/health/evaluator.py): for one check of one device, the facts     *)
(* the parsers found in each phase and the result; with the check that all *)
(* required commands were parsed and those of the other devices, the       *)
(* result of the comparison, which judges the change.                      *)
(***************************************************************************)
EXTENDS Naturals, FiniteSets

CONSTANTS
  Names,       \* neighbours, peers, interfaces, members, VRFs, ... of a device
  Errors,      \* values of an error counter
  RouteCounts, \* routes of a VRF
  ErrorWarn, ErrorFail, RouteWarn, RouteFail, \* thresholds; of routes in percent
  NtpRequired  \* thresholds.ntp.required

VARIABLES
  facts,   \* the check and what the two Snapshots have for it
  how,     \* where the check applies; whether its command is required
  overall  \* result of the comparison, "none" before it

vars == <<facts, how, overall>>

-----------------------------------------------------------------------------
(* What the parsers can find: nothing (the command failed or did not       *)
(* parse), that the feature does not apply, or a value.  Some checks also  *)
(* read from the running configuration whether the feature is configured.  *)

NotSeen == [seen |-> FALSE, config |-> "none"]
Applies(v) == [seen |-> TRUE, applies |-> TRUE, v |-> v, config |-> "none"]
Inapplicable(v) == [Applies(v) EXCEPT !.applies = FALSE]
Values(S) == {NotSeen} \cup {Applies(v) : v \in S}
Configured(F, C) == {[x EXCEPT !.config = c] : x \in F, c \in C}

\* The running configuration was not read: it is not known what it has.
Unread == {"unread"}

NoRow == [n \in Names |-> "absent"]
Table == [Names -> {"absent", "up", "down"}]

Counts(S) == UNION {[D -> S] : D \in SUBSET Names}

Neighbors == {"ospf_neighbor_health", "bgp_ipv4_health"}
NveTables == {"nve_peer_health", "nve_vni_health"}
Overlay == {"vlan_operational_health", "vrf_operational_health", "svi_operational_health"}
\* The result is that of the after Snapshot alone; the before one only classifies it.
AfterOnly ==
  {"hostname_identity", "lldp_evidence_completeness", "lldp_description_consistency",
   "cpu_utilization", "memory_utilization", "interface_utilization", "clock_health",
   "running_config_diff", "type5_prefix_propagation"}

\* uptime 0: not known
SystemFacts == Values([uptime : 0 .. 2, version : 1 .. 2])
PendingFacts == Values(SUBSET Names)
LoggingFacts == Values([earlier : SUBSET Names, work : SUBSET Names])
EnvironmentFacts == Values(BOOLEAN) \cup {Inapplicable(h) : h \in BOOLEAN}
VpcFacts == Values(BOOLEAN) \cup {Inapplicable(FALSE)}
NveFacts ==
  Configured(VpcFacts, {"none", "yes"})
    \cup Configured({NotSeen, Inapplicable(FALSE)}, {"no"})
\* A table without rows was not parsed.
NveRowFacts == Values(Table \ {NoRow}) \cup {Inapplicable(NoRow)}
NeighborFacts == Values(Table) \cup {Inapplicable(NoRow)}
EvpnFacts ==
  Configured(NeighborFacts, {"none", "yes"})
    \cup Configured({NotSeen, Inapplicable(NoRow)}, {"no"})
\* doubtful: up, but the sources disagree about the administrative state
InterfaceFacts == Values([Names -> {"absent", "up", "down", "shut", "doubtful", "unknown"}])
NtpFacts ==
  Values({s \in [configured : BOOLEAN, synchronized : {"yes", "no", "unknown"},
                 selected : SUBSET Names] :
            /\ ~s.configured => s.synchronized = "no" /\ s.selected = {}
            /\ s.synchronized = "yes" => s.selected # {}})
ErrorFacts == Values(Counts(Errors))
\* members: the bundled ones
PortChannelFacts ==
  Values([channel : {"absent", "up", "down"}, members : SUBSET Names])
    \cup {Inapplicable([channel |-> "absent", members |-> {}])}
RouteCountFacts == Values({c \in Counts(RouteCounts) : DOMAIN c # {}})
EvpnRouteFacts == Values(SUBSET Names) \cup {Inapplicable({})}
OverlayFacts == Configured(Values(SUBSET Names), {Unread} \cup SUBSET Names)
RangeFacts ==
  Configured(Values({s \in [matched : SUBSET Names, established : SUBSET Names] :
                       s.established \subseteq s.matched}), {"none", "no", "yes"})
FunctionFacts == Configured({NotSeen}, {"none", "no", "yes"})
AfterOnlyFacts == Values({"NOT_APPLICABLE", "PASS", "WARN", "FAIL"})

Expectations == {"required", "optional", "forbidden"} \* of a function of the role
Checks ==
  Neighbors \cup NveTables \cup Overlay \cup AfterOnly \cup Expectations \cup
    {"system_identity", "reload_pending", "logging_health", "environment_health",
     "vpc_health", "nve_interface_health", "evpn_bgp_health", "interface_health",
     "ntp_health", "interface_error_health", "port_channel_health", "ipv4_route_count",
     "evpn_route_health", "bgp_dynamic_neighbor_health"}

FactsOf(check) ==
  CASE check = "system_identity" -> SystemFacts
    [] check = "reload_pending" -> PendingFacts
    [] check = "logging_health" -> LoggingFacts
    [] check = "environment_health" -> EnvironmentFacts
    [] check = "vpc_health" -> VpcFacts
    [] check = "nve_interface_health" -> NveFacts
    [] check = "evpn_bgp_health" -> EvpnFacts
    [] check \in Neighbors -> NeighborFacts
    [] check \in NveTables -> NveRowFacts
    [] check = "interface_health" -> InterfaceFacts
    [] check = "ntp_health" -> NtpFacts
    [] check = "interface_error_health" -> ErrorFacts
    [] check = "port_channel_health" -> PortChannelFacts
    [] check = "ipv4_route_count" -> RouteCountFacts
    [] check = "evpn_route_health" -> EvpnRouteFacts
    [] check \in Overlay -> OverlayFacts
    [] check = "bgp_dynamic_neighbor_health" -> RangeFacts
    [] check \in Expectations -> FunctionFacts
    [] OTHER -> AfterOnlyFacts

-----------------------------------------------------------------------------
(* One check: the facts before (b) and after (a) give its result           *)

Up(x) == IF x.seen THEN {n \in Names : x.v[n] = "up"} ELSE {}
Present(x) == IF x.seen THEN {n \in Names : x.v[n] # "absent"} ELSE {}
PassIf(good) == IF good THEN "PASS" ELSE "FAIL"

SystemIdentity(b, a) ==
  IF ~b.seen \/ ~a.seen THEN "UNKNOWN"
  ELSE IF a.v.uptime # 0 /\ a.v.uptime < b.v.uptime THEN "FAIL"
  ELSE IF a.v.version # b.v.version THEN "WARN"
  ELSE "PASS"

ReloadPending(b, a) ==
  IF ~b.seen \/ ~a.seen THEN "UNKNOWN"
  ELSE IF ~(a.v \subseteq b.v) THEN "FAIL"
  ELSE IF a.v # {} THEN "WARN"
  ELSE "PASS"

\* Records of the operation window that the window before it does not have.
Logging(b, a) ==
  IF ~b.seen \/ ~a.seen THEN "UNKNOWN"
  ELSE IF ~(a.v.work \subseteq b.v.earlier) THEN "WARN"
  ELSE "PASS"

Environment(b, a) ==
  IF ~b.seen \/ ~a.seen THEN "UNKNOWN"
  ELSE IF ~b.applies /\ ~a.applies THEN "NOT_APPLICABLE"
  ELSE PassIf(a.v)

Vpc(b, a) ==
  IF ~b.seen /\ ~a.seen THEN "NOT_APPLICABLE"
  ELSE IF b.seen # a.seen THEN "UNKNOWN"
  ELSE IF ~b.applies /\ ~a.applies THEN "NOT_APPLICABLE"
  ELSE PassIf(a.v)

\* NVE and EVPN: what was not seen does not apply only when neither configuration has it.
OverlayFeature(b, a, result) ==
  IF ~b.seen \/ ~a.seen
  THEN IF b.config = "no" /\ a.config = "no" THEN "NOT_APPLICABLE" ELSE "UNKNOWN"
  ELSE IF ~b.applies /\ ~a.applies THEN "NOT_APPLICABLE"
  ELSE result

NveInterface(b, a) == OverlayFeature(b, a, PassIf(a.v = TRUE))

EvpnBgp(b, a) ==
  OverlayFeature(b, a, PassIf(/\ Present(a) # {} /\ Present(a) = Up(a)
                              /\ Up(b) \subseteq Up(a)))

LostNeighbors(b, a) ==
  IF ~b.seen /\ ~a.seen THEN "NOT_APPLICABLE"
  ELSE IF b.seen # a.seen THEN "UNKNOWN"
  ELSE PassIf(Up(b) \subseteq Up(a))

\* The evaluation of one Snapshot.
NveTable(x) ==
  IF ~x.seen THEN "UNKNOWN"
  ELSE IF ~x.applies THEN "NOT_APPLICABLE"
  ELSE PassIf(Present(x) = Up(x))

\* MUTANT of NveRows: the after Snapshot alone.
NveRowsAfterOnly(b, a) == NveTable(a)

NveRows(b, a) ==
  IF b.seen /\ a.seen /\ ~(Up(b) \subseteq Up(a)) THEN "FAIL" ELSE NveTable(a)

OperUp(x) == {n \in Names : x.v[n] \in {"up", "doubtful"}}
With(x, states) == {n \in Names : x.v[n] \in states}

Interfaces(b, a) ==
  IF ~b.seen \/ ~a.seen THEN "UNKNOWN"
  ELSE IF ~(OperUp(b) \ OperUp(a) \subseteq With(b, {"unknown"}) \cup With(a, {"unknown"}))
       THEN "FAIL"
  ELSE IF With(a, {"down"}) # {} THEN "FAIL"
  ELSE IF With(a, {"unknown", "doubtful"}) \cup With(b, {"unknown", "doubtful"}) # {}
       THEN "UNKNOWN"
  ELSE "PASS"

NtpOne(x) ==
  IF ~x.v.configured THEN IF NtpRequired THEN "FAIL" ELSE "NOT_APPLICABLE"
  ELSE IF x.v.synchronized = "unknown" THEN "UNKNOWN"
  ELSE IF x.v.synchronized = "yes" THEN "PASS"
  ELSE IF NtpRequired THEN "FAIL" ELSE "WARN"

Ntp(b, a) ==
  IF ~b.seen \/ ~a.seen THEN "UNKNOWN"
  ELSE IF "UNKNOWN" \in {NtpOne(b), NtpOne(a)} THEN "UNKNOWN"
  ELSE IF b.v.synchronized = "yes" /\ a.v.synchronized # "yes" THEN "FAIL"
  ELSE IF ~(b.v.selected \subseteq a.v.selected) THEN "FAIL"
  ELSE NtpOne(a)

\* A counter that appears is a warning, whatever the others have gained.
InterfaceErrors(b, a) ==
  LET Both == DOMAIN b.v \cap DOMAIN a.v
      Gained(d) == \E n \in Both : a.v[n] >= b.v[n] + d
  IN IF ~a.seen THEN "UNKNOWN"
     ELSE IF ~b.seen THEN IF \E n \in DOMAIN a.v : a.v[n] > 0 THEN "WARN" ELSE "PASS"
     ELSE IF \E n \in Both : a.v[n] < b.v[n] THEN "UNKNOWN"
     ELSE IF \E n \in DOMAIN a.v \ DOMAIN b.v : a.v[n] > 0 THEN "WARN"
     ELSE IF Gained(ErrorFail) THEN "FAIL"
     ELSE IF Gained(ErrorWarn) THEN "WARN"
     ELSE "PASS"

PortChannels(b, a) ==
  IF ~a.seen THEN "UNKNOWN"
  ELSE IF /\ b.seen /\ b.v.channel # "absent"
          /\ \/ b.v.channel = "up" /\ a.v.channel # "up"
             \/ ~(b.v.members \subseteq a.v.members)
       THEN "FAIL"
  ELSE IF ~a.applies THEN "NOT_APPLICABLE"
  ELSE PassIf(a.v.channel # "absent" => a.v.channel = "up" /\ a.v.members # {})

RouteCount(b, a) ==
  LET Fell(percent) == \E n \in DOMAIN b.v :
        b.v[n] > a.v[n] /\ (b.v[n] - a.v[n]) * 100 >= percent * b.v[n]
  IN IF ~b.seen \/ ~a.seen THEN "UNKNOWN"
     ELSE IF ~(DOMAIN b.v \subseteq DOMAIN a.v) THEN "FAIL"
     ELSE IF Fell(RouteFail) THEN "FAIL"
     ELSE IF Fell(RouteWarn) THEN "WARN"
     ELSE "PASS"

EvpnRoutes(b, a) ==
  IF ~a.seen THEN "UNKNOWN"
  ELSE IF b.seen /\ ~(b.v \subseteq a.v) THEN IF a.v = {} THEN "FAIL" ELSE "WARN"
  ELSE IF ~a.applies THEN "NOT_APPLICABLE"
  ELSE IF a.v # {} THEN "PASS" ELSE "WARN"

\* config: the VLANs, VRFs or SVIs the running configuration has for the Overlay.
OverlayResources(a) ==
  IF a.config = Unread THEN "UNKNOWN"
  ELSE IF a.config = {} THEN "NOT_APPLICABLE"
  ELSE IF ~a.seen THEN "UNKNOWN"
  ELSE PassIf(a.config \subseteq a.v)

\* A range of dynamic neighbours: all of those it had are gone, or its own evaluation.
DynamicNeighbors(b, a) ==
  LET Gone == /\ b.config = "yes" /\ b.seen /\ b.v.established # {}
              /\ a.config = "yes" /\ (a.seen => a.v.matched = {})
  IN IF a.config = "none" THEN "UNKNOWN"
     ELSE IF a.config = "no" THEN "NOT_APPLICABLE"
     ELSE IF Gone THEN "FAIL"
     ELSE IF ~a.seen THEN "UNKNOWN"
     ELSE IF a.v.matched = {} THEN "WARN"
     ELSE PassIf(a.v.established = a.v.matched)

FunctionExpectation(expectation, b, a) ==
  IF a.config = "none" THEN "UNKNOWN"
  ELSE IF b.config = "yes" /\ a.config = "no" THEN "FAIL"
  ELSE IF expectation = "required" THEN PassIf(a.config = "yes")
  ELSE IF expectation = "forbidden" THEN PassIf(a.config = "no")
  ELSE IF a.config = "yes" THEN "PASS" ELSE "NOT_APPLICABLE"

Result(check, b, a) ==
  CASE check = "system_identity" -> SystemIdentity(b, a)
    [] check = "reload_pending" -> ReloadPending(b, a)
    [] check = "logging_health" -> Logging(b, a)
    [] check = "environment_health" -> Environment(b, a)
    [] check = "vpc_health" -> Vpc(b, a)
    [] check = "nve_interface_health" -> NveInterface(b, a)
    [] check = "evpn_bgp_health" -> EvpnBgp(b, a)
    [] check \in Neighbors -> LostNeighbors(b, a)
    [] check \in NveTables -> NveRows(b, a)
    [] check = "interface_health" -> Interfaces(b, a)
    [] check = "ntp_health" -> Ntp(b, a)
    [] check = "interface_error_health" -> InterfaceErrors(b, a)
    [] check = "port_channel_health" -> PortChannels(b, a)
    [] check = "ipv4_route_count" -> RouteCount(b, a)
    [] check = "evpn_route_health" -> EvpnRoutes(b, a)
    [] check \in Overlay -> OverlayResources(a)
    [] check = "bgp_dynamic_neighbor_health" -> DynamicNeighbors(b, a)
    [] check \in Expectations -> FunctionExpectation(check, b, a)
    [] OTHER -> IF a.seen THEN a.v ELSE "UNKNOWN"

-----------------------------------------------------------------------------
(* The comparison                                                          *)

\* What keeps a profile from a device: its platform; its role (nxos-overlay is only for
\* the roles of the Overlay, and nothing is checked on a server; an unresolved role
\* refuses the comparison); that its role and configuration have no such function.
Scopes == {"executed", "platform_excluded", "platform_unresolved", "overlay_excluded",
           "server", "role_unresolved", "no_function"}

\* Checks of network-baseline-nxos, collection_complete among them, are evaluated.
BaselineRuns(scope) == scope \in {"executed", "overlay_excluded", "no_function"}

\* The check itself is; that of a function does not ask for the platform.
CheckRuns(check, scope) ==
  \/ scope = "executed"
  \/ check \in Expectations /\ scope \in {"platform_excluded", "platform_unresolved"}

RESULT_ORDER == [NOT_APPLICABLE |-> 0, PASS |-> 1, WARN |-> 2, UNKNOWN |-> 3, FAIL |-> 4]
Results == DOMAIN RESULT_ORDER
Worst(S) == CHOOSE r \in S : \A s \in S : RESULT_ORDER[s] <= RESULT_ORDER[r]

BothSeen(f) == f.before.seen /\ f.after.seen
Collection(f, required) == IF required /\ ~BothSeen(f) THEN "UNKNOWN" ELSE "PASS"

\* A platform that is not known leaves no more than UNKNOWN.
Overall(f, scope, required, other) ==
  LET checks == {other}
        \cup (IF BaselineRuns(scope) THEN {Collection(f, required)} ELSE {})
        \cup (IF CheckRuns(f.check, scope)
              THEN {Result(f.check, f.before, f.after)} ELSE {})
  IN IF scope = "role_unresolved" THEN "REFUSED"
     ELSE IF scope = "platform_unresolved" THEN Worst(checks \cup {"UNKNOWN"})
     ELSE Worst(checks)

NoFacts == [check |-> "none", before |-> NotSeen, after |-> NotSeen]

Init == facts = NoFacts /\ overall = "none" /\ how = [scope |-> "none", required |-> FALSE]

TakeSnapshots ==
  /\ facts.check = "none"
  /\ \E check \in Checks : \E b \in FactsOf(check), a \in FactsOf(check) :
       facts' = [check |-> check, before |-> b, after |-> a]
  /\ UNCHANGED <<how, overall>>

\* The checks of nxos-overlay; those of the functions go by the role alone.
OverlayProfile ==
  NveTables \cup Overlay \cup
    {"nve_interface_health", "evpn_bgp_health", "evpn_route_health",
     "type5_prefix_propagation"}

\* Only they depend on what the device is configured to do and on the Overlay roles.
MayApply(f, scope) ==
  /\ scope = "no_function" =>
       /\ f.check \in OverlayProfile
       /\ f.check \in {"nve_interface_health", "evpn_bgp_health"} => f.after.config # "yes"
  /\ scope = "overlay_excluded" => f.check \in OverlayProfile \cup Expectations

\* other: the worst result of the other checks and devices.
Compare ==
  /\ facts.check # "none" /\ overall = "none"
  /\ \E scope \in Scopes, required \in BOOLEAN, other \in {"PASS", "WARN"} :
       /\ MayApply(facts, scope)
       /\ how' = [scope |-> scope, required |-> required]
       /\ overall' = Overall(facts, scope, required, other)
  /\ UNCHANGED facts

Next == TakeSnapshots \/ Compare

Spec == Init /\ [][Next]_vars

-----------------------------------------------------------------------------

TypeOK ==
  /\ facts.check \in Checks \cup {"none"}
  /\ how.scope \in Scopes \cup {"none"} /\ how.required \in BOOLEAN
  /\ overall \in Results \cup {"none", "REFUSED"}

\* What one Snapshot shows in operation, of what the changed device is still to have.
Working(check, x, still) ==
  IF ~x.seen /\ check \notin Expectations THEN {}
  ELSE CASE check \in Neighbors \cup NveTables \cup {"evpn_bgp_health"} -> Up(x)
         [] check = "interface_health" -> OperUp(x)
         [] check \in {"vpc_health", "nve_interface_health"} -> IF x.v THEN {check} ELSE {}
         [] check = "environment_health" -> IF x.v /\ still.applies THEN {check} ELSE {}
         [] check = "ntp_health" -> IF x.v.synchronized = "yes" THEN x.v.selected ELSE {}
         [] check = "port_channel_health" ->
              IF x.v.channel = "up" THEN x.v.members \cup {"channel"} ELSE {}
         [] check = "ipv4_route_count" -> DOMAIN x.v
         [] check \in Overlay ->
              IF still.config = Unread THEN x.v ELSE x.v \cap still.config
         [] check = "bgp_dynamic_neighbor_health" ->
              IF x.config = "yes" /\ still.config # "no" /\ x.v.established # {}
              THEN {"range"} ELSE {}
         [] check \in Expectations -> IF x.config = "yes" THEN {"function"} ELSE {}
         [] OTHER -> {}

Lost(f) == Working(f.check, f.before, f.after) \ Working(f.check, f.after, f.after)

\* A comparison passes, or only warns, when nothing that worked before the change has
\* stopped, as far as its check is evaluated for the device, when every required command
\* was parsed in both phases, of the devices network-baseline-nxos is for, and when it is
\* known for every device which profiles apply to it.
\* (Counts of routes and of errors may get worse and still warn.)
NothingLostPasses ==
  overall \in {"NOT_APPLICABLE", "PASS", "WARN"} =>
    /\ CheckRuns(facts.check, how.scope) => Lost(facts) = {}
    /\ how.required /\ BaselineRuns(how.scope) => BothSeen(facts)
    /\ how.scope \notin {"platform_unresolved", "role_unresolved"}
=============================================================================
