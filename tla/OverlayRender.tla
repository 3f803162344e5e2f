----------------------------- MODULE OverlayRender -----------------------------
(***************************************************************************)
(* The configuration a ChangeSet becomes on one device: the conflict       *)
(* assessment (alred/overlay_conflict.py), the renderer with its ownership *)
(* (alred/overlay_render.py), its two templates (alred/j2), and what the   *)
(* evaluation of the change reads of the result                            *)
(* (alred/health/overlay_evaluator.py).  The sections of the forward       *)
(* configuration are sent one by one; after any of them the rollback       *)
(* configuration may be sent instead of the next.                          *)
(*                                                                         *)
(* A running-config is a set of lines.  A block is <<kind, key>>, a line   *)
(* in a block <<kind, key, attribute, value>>.  Of an SVI, MTU, addresses  *)
(* and gateway are one attribute, "attrs", that is as the ChangeSet has it *)
(* ("ours") or not; ip forward with its MTU, of a traditional L3VNI, is    *)
(* another, its VRF a third, and "other" what nothing compares             *)
(* (description, shutdown, redirects).  The device takes every line sent.  *)
(***************************************************************************)
EXTENDS Naturals, FiniteSets, Sequences

CONSTANTS
  Vlans, L2Vnis,  \* what L2VNI resources are made of; 0 is no VLAN
  Vrfs, L3Vnis    \* what L3VNI resources are made of

\* A resource as resolve_changeset leaves it for the device; vlan 0 is
\* mode new_l3vni, another VLAN traditional_vlan_svi.  An SVI need not have a VRF.
L2Resource == [vlan : Vlans, vni : L2Vnis, named : BOOLEAN, svi : BOOLEAN,
               vrf : Vrfs \cup {"none"}]
L3Resource == [vrf : Vrfs, vni : L3Vnis, vlan : Vlans \cup {0}]

VARIABLES
  stage,   \* "idle", "planned", "restored"
  before,  \* running-config of the before Snapshot
  change,  \* the resources of the ChangeSet: l2, l3
  config,  \* running-config of the device
  sent     \* sections of the forward configuration sent so far

vars == <<stage, before, change, config, sent>>

Init ==
  /\ stage = "idle" /\ sent = 0
  /\ before = {} /\ config = {}
  /\ change = [l2 |-> {}, l3 |-> {}]

-----------------------------------------------------------------------------
(* Reading a configuration                                                 *)

Blocks(c) == {l \in c : Len(l) = 2}
Of(c, kind, key, attribute) ==
  {l[4] : l \in {x \in c : Len(x) = 4 /\ <<x[1], x[2], x[3]>> = <<kind, key, attribute>>}}

VniOf(c, v) == Of(c, "vlan", v, "vni")
L3VniOf(c, r) == Of(c, "vrf", r, "vni")

\* The commands of an L3VNI's address families.
VrfCommands(l3) == {<<"vrf", l3.vrf, "rt", "auto">>}
BgpCommands(l3) ==
  {<<"bgp", l3.vrf, "advertise", "l2vpn">>, <<"bgp", l3.vrf, "maps", "ours">>}

-----------------------------------------------------------------------------
(* Conflicts                                                               *)

\* Two L2VNI resources for one VLAN or one VNI, or two L3VNI resources for one VRF
\* or one VNI.
DuplicateDesired(chg) ==
  \/ \E x, y \in chg.l2 : x # y /\ (x.vlan = y.vlan \/ x.vni = y.vni)
  \/ \E x, y \in chg.l3 : x # y /\ (x.vrf = y.vrf \/ x.vni = y.vni)

\* MUTANT of MappedElsewhere: the VLAN may have a VNI already.
MappedElsewhereVniOnly(c, chg) ==
  \/ \E x \in chg.l2 : \E v \in Vlans \ {x.vlan} : x.vni \in VniOf(c, v)
  \/ \E x \in chg.l3 : L3VniOf(c, x.vrf) \notin {{}, {x.vni}}

\* A VLAN or VRF is mapped to another VNI, or a VNI to another VLAN or VRF.
MappedElsewhere(c, chg) ==
  \/ \E x \in chg.l2 : \/ VniOf(c, x.vlan) \notin {{}, {x.vni}}
                       \/ \E v \in Vlans \ {x.vlan} : x.vni \in VniOf(c, v)
  \/ \E x \in chg.l3 : \/ L3VniOf(c, x.vrf) \notin {{}, {x.vni}}
                       \/ \E r \in Vrfs \ {x.vrf} : x.vni \in L3VniOf(c, r)

\* The VRF of the SVI differs.  A resource without a VRF is compared with none.
VrfDiffers(c, x) == x.vrf # "none" /\ Of(c, "svi", x.vlan, "vrf") # {x.vrf}

\* Another interface of the VRF has an address of the same prefix ("clash"); two
\* resources of one prefix are not modelled.
PrefixOverlap(c, x) ==
  \E v \in Vlans \ {x.vlan} :
    "clash" \in Of(c, "svi", v, "attrs") /\ x.vrf \in Of(c, "svi", v, "vrf")

\* The SVI of a VLAN exists and is not as the ChangeSet wants it, or its prefix is in
\* use in the VRF.
SviConflict(c, chg) ==
  \E x \in chg.l2 :
    /\ x.svi
    /\ \/ /\ <<"svi", x.vlan>> \in c
          /\ Of(c, "svi", x.vlan, "attrs") # {"ours"} \/ VrfDiffers(c, x)
       \/ PrefixOverlap(c, x)

\* assess_overlay_conflicts finds nothing.
ConflictFree(c, chg) ==
  ~DuplicateDesired(chg) /\ ~MappedElsewhere(c, chg) /\ ~SviConflict(c, chg)

\* What render_changeset refuses besides: another VLAN name, other redistribution in
\* BGP, and the VLAN or SVI of a traditional L3VNI in other use.
Renderable(c, chg) ==
  /\ \A x \in chg.l2 : x.named => Of(c, "vlan", x.vlan, "name") \subseteq {"ours"}
  /\ \A x \in chg.l3 : Of(c, "bgp", x.vrf, "maps") \subseteq {"ours"}
  /\ \A x \in chg.l3 : x.vlan # 0 =>
       /\ VniOf(c, x.vlan) \in {{}, {x.vni}}
       /\ <<"svi", x.vlan>> \in c => /\ Of(c, "svi", x.vlan, "forward") = {"ours"}
                                     /\ Of(c, "svi", x.vlan, "vrf") = {x.vrf}

-----------------------------------------------------------------------------
(* Ownership: what of a resource the before configuration lacks            *)

\* Blocks the change creates.
NewBlocks(c, chg) ==
  (UNION ({{<<"vlan", x.vlan>>, <<"nve2", x.vni>>, <<"evpn", x.vni>>} : x \in chg.l2}
    \cup {{<<"svi", x.vlan>>} : x \in {y \in chg.l2 : y.svi}}
    \cup {{<<"vrf", x.vrf>>, <<"nve3", x.vni>>, <<"bgp", x.vrf>>} : x \in chg.l3}
    \cup {{<<"vlan", x.vlan>>, <<"svi", x.vlan>>} : x \in {y \in chg.l3 : y.vlan # 0}}))
  \ c

\* Lines the change adds to blocks that exist, and knows it adds: a VLAN's mapping
\* and name, the commands of the address families.
NewLines(c, chg) ==
  {<<"vlan", x.vlan, "vni", x.vni>> :
     x \in {y \in chg.l2 : <<"vlan", y.vlan>> \in c /\ VniOf(c, y.vlan) = {}}}
  \cup {<<"vlan", x.vlan, "name", "ours">> :
     x \in {y \in chg.l2 : /\ <<"vlan", y.vlan>> \in c /\ y.named
                           /\ Of(c, "vlan", y.vlan, "name") = {}}}
  \cup {<<"vlan", x.vlan, "vni", x.vni>> :
     x \in {y \in chg.l3 : <<"vlan", y.vlan>> \in c /\ VniOf(c, y.vlan) = {}}}
  \cup ((UNION {VrfCommands(x) \cup BgpCommands(x) : x \in chg.l3}) \ c)

\* Every action of the render is "preserve": nothing is sent.
NoChange(c, chg) == NewBlocks(c, chg) = {} /\ NewLines(c, chg) = {}

-----------------------------------------------------------------------------
(* The forward configuration                                               *)

\* A line replaces what its attribute was, and creates its block; route targets add up.
Configure(c, lines) ==
  {l \in c : ~\E n \in lines : /\ Len(l) = 4 /\ Len(n) = 4 /\ l[3] # "rt"
                               /\ <<l[1], l[2], l[3]>> = <<n[1], n[2], n[3]>>}
  \cup lines \cup {<<n[1], n[2]>> : n \in lines}

VrfSection(chg) ==
  (UNION {{<<"vrf", x.vrf, "vni", x.vni>>, <<"vrf", x.vrf, "rd", "auto">>,
           <<"vrf", x.vrf, "family", "unicast">>} \cup VrfCommands(x) : x \in chg.l3})
  \cup UNION {{<<"vlan", x.vlan, "vni", x.vni>>, <<"svi", x.vlan, "forward", "ours">>,
               <<"svi", x.vlan, "vrf", x.vrf>>, <<"svi", x.vlan, "other", "ours">>} :
               x \in {y \in chg.l3 : y.vlan # 0}}

VlanSection(chg) ==
  {<<"vlan", x.vlan, "vni", x.vni>> : x \in chg.l2}
  \cup {<<"vlan", x.vlan, "name", "ours">> : x \in {y \in chg.l2 : y.named}}
  \cup {<<"svi", x.vlan, "vrf", x.vrf>> : x \in {y \in chg.l2 : y.svi /\ y.vrf # "none"}}
  \cup UNION {{<<"svi", x.vlan, "attrs", "ours">>, <<"svi", x.vlan, "other", "ours">>} :
               x \in {y \in chg.l2 : y.svi}}

NveSection(chg) ==
  {<<"nve3", x.vni>> : x \in chg.l3} \cup {<<"nve2", x.vni>> : x \in chg.l2}

EvpnSection(chg) ==
  UNION {{<<"evpn", x.vni, "rd", "auto">>, <<"evpn", x.vni, "rt", "auto">>} : x \in chg.l2}

BgpSection(chg) ==
  UNION {BgpCommands(x) \cup {<<"bgp", x.vrf, "family", "unicast">>} : x \in chg.l3}

\* MUTANT of Forward: the NVE members are left out.
ForwardWithoutNve(chg) ==
  <<VrfSection(chg), VlanSection(chg), EvpnSection(chg), {}, BgpSection(chg)>>

\* nxos_overlay_forward_config.j2, section by section.
Forward(chg) ==
  <<VrfSection(chg), VlanSection(chg), NveSection(chg), EvpnSection(chg),
    BgpSection(chg)>>

-----------------------------------------------------------------------------
(* The rollback configuration                                              *)

\* MUTANT of Removed: every VLAN of the change is deleted, new or not.
RemovedAllVlans(b, chg) ==
  [blocks |-> NewBlocks(b, chg) \cup {<<"vlan", x.vlan>> : x \in chg.l2},
   lines |-> NewLines(b, chg)]

\* nxos_overlay_rollback_config.j2: the blocks the change created, and in blocks that
\* existed the lines it added; the L3VNI of a VRF that existed goes in any case.
Removed(b, chg) ==
  [blocks |-> NewBlocks(b, chg),
   lines |-> NewLines(b, chg)
     \cup {<<"vrf", x.vrf, "vni", x.vni>> : x \in {y \in chg.l3 : <<"vrf", y.vrf>> \in b}}]

Without(c, gone) ==
  {l \in c : <<l[1], l[2]>> \notin gone.blocks /\ l \notin gone.lines}

-----------------------------------------------------------------------------
(* The life of a plan on the device                                        *)

\* overlay-change plan: refused plans and plans without a change write no
\* configuration.
Plan(c, chg) ==
  /\ ConflictFree(c, chg) /\ Renderable(c, chg) /\ ~NoChange(c, chg)
  /\ stage' = "planned" /\ before' = c /\ config' = c /\ change' = chg
  /\ UNCHANGED sent

\* One more section of the forward configuration.
SendSection ==
  /\ stage = "planned" /\ sent < Len(Forward(change))
  /\ config' = Configure(config, Forward(change)[sent + 1])
  /\ sent' = sent + 1
  /\ UNCHANGED <<stage, before, change>>

\* The rollback configuration, after an apply that was stopped or not.
Rollback ==
  /\ stage = "planned" /\ sent > 0
  /\ config' = Without(config, Removed(before, change))
  /\ stage' = "restored"
  /\ UNCHANGED <<before, change, sent>>

-----------------------------------------------------------------------------
(* Inputs: before configurations and ChangeSets                            *)

Optional(lines) == {{}} \cup {{l} : l \in lines}

\* One VLAN, VNI and VRF the configurations vary most in; resources of ChangeSets
\* may name the others.
vlan1 == CHOOSE v \in Vlans : TRUE
l2vni1 == CHOOSE n \in L2Vnis : TRUE
vrf1 == CHOOSE r \in Vrfs : TRUE
l3vni1 == CHOOSE n \in L3Vnis : TRUE

\* An SVI, with a description of its own.
Svi(v, attribute, value, vrfs) ==
  {<<"svi", v>>, <<"svi", v, attribute, value>>, <<"svi", v, "other", "theirs">>}
  \cup {<<"svi", v, "vrf", r>> : r \in vrfs}

\* What is on the device has its VRFs, the first of which ChangeSets name.
InVrf == Optional(Vrfs)

\* Its VLAN: absent, unmapped or mapped, with a name of another purpose; its SVI as some
\* resource wants it, in any VRF, or of another purpose.
OneVlan ==
  {{}} \cup {{<<"vlan", vlan1>>} \cup m \cup n \cup s :
     m \in Optional({<<"vlan", vlan1, "vni", x>> : x \in L2Vnis}),
     n \in Optional({<<"vlan", vlan1, "name", "theirs">>}),
     s \in {{}} \cup {Svi(vlan1, "attrs", "ours", r) : r \in InVrf}
              \cup {Svi(vlan1, "forward", "ours", r) : r \in InVrf \ {{}}}
              \cup {Svi(vlan1, "attrs", "theirs", {})}}

\* Another VLAN holds a VNI of the change, or an address of its prefix.
OtherVlan ==
  {{}} \cup UNION {
    {{<<"vlan", v>>, <<"vlan", v, "vni", x>>} : x \in L2Vnis}
    \cup {Svi(v, "attrs", "clash", r) : r \in {{}, {vrf1}}} : v \in Vlans \ {vlan1}}

\* VRF contexts: absent, or mapped or not; bare, or with RD and route targets, automatic
\* or not.  Or another VRF holds the VNI.
VrfContext ==
  {{}} \cup {{<<"vrf", vrf1>>} \cup m \cup a :
     m \in Optional({<<"vrf", vrf1, "vni", x>> : x \in L3Vnis}),
     a \in {{}} \cup {{<<"vrf", vrf1, "rd", x>>, <<"vrf", vrf1, "rt", x>>,
                      <<"vrf", vrf1, "family", "unicast">>} : x \in {"auto", "theirs"}}}
  \cup {{<<"vrf", r>>, <<"vrf", r, "vni", l3vni1>>} : r \in Vrfs \ {vrf1}}

BgpVrf ==
  {{}, {<<"bgp", vrf1>>}} \cup {{<<"bgp", vrf1>>, <<"bgp", vrf1, "family", "unicast">>,
              <<"bgp", vrf1, "maps", x>>} : x \in {"ours", "theirs"}}

\* NVE members and the EVPN VNI, with the route targets it has by itself or its own.
Members ==
  LET evpn == <<"evpn", l2vni1>>
  IN {{}, {evpn}, {<<"nve2", l2vni1>>, <<"nve3", l3vni1>>},
      {evpn, <<"evpn", l2vni1, "rd", "theirs">>, <<"evpn", l2vni1, "rt", "theirs">>}}

\* A change without L3VNIs reads nothing of VRFs and BGP; beside an L3VNI the other VLANs
\* are left as they come, and BGP, which no L2VNI reads, beside an L2VNI.
Configurations(chg) ==
  LET other == IF chg.l3 = {} THEN OtherVlan ELSE {{}}
      vrf == IF chg.l3 = {} THEN {{}} ELSE VrfContext
      bgp == IF chg.l3 = {} \/ chg.l2 # {} THEN {{}} ELSE BgpVrf
  IN {a \cup b \cup c \cup d \cup e : a \in OneVlan, b \in other, c \in vrf,
                                     d \in bgp, e \in Members}

\* Two L2VNIs, or one beside an L3VNI; what has an SVI has a name.
L2Choice ==
  {x \in L2Resource : x.named = x.svi /\ x.vrf \in {"none", IF x.svi THEN vrf1 ELSE "none"}}
L3Choice == [vrf : {vrf1}, vni : {l3vni1}, vlan : Vlans \cup {0}]
ChangeSets ==
  {[l2 |-> {x, y}, l3 |-> {}] : x \in L2Choice, y \in L2Choice}
  \cup {[l2 |-> s, l3 |-> {x}] : s \in Optional(L2Choice), x \in L3Choice}

Next ==
  \/ stage = "idle" /\ \E chg \in ChangeSets : \E c \in Configurations(chg) : Plan(c, chg)
  \/ SendSection
  \/ Rollback

Spec == Init /\ [][Next]_vars

-----------------------------------------------------------------------------
(* Properties                                                              *)

\* Attributes that neither the conflict assessment nor the renderer compares, and that
\* the rollback configuration leaves as they are: RDs, what an SVI has besides, and in
\* blocks that exist an address family and the route targets of an EVPN VNI.
Unowned ==
  {<<"vrf", "rd">>, <<"evpn", "rd">>, <<"svi", "other">>,
   <<"vrf", "family">>, <<"bgp", "family">>, <<"evpn", "rt">>}
OfUnowned(l) == Len(l) = 4 /\ <<l[1], l[3]>> \in Unowned

\* ADR-0004: after the rollback, wherever the apply stopped, the resources are those
\* that were there before, with every line they had and no other, but for unowned
\* attributes and the L3VNI of a VRF (see PreExistingKept).
RollbackScoped ==
  stage = "restored" =>
    /\ Blocks(config) = Blocks(before)
    /\ \A l \in config \ before : OfUnowned(l)
    /\ \A l \in before \ config :
         OfUnowned(l) \/ (Len(l) = 4 /\ l[1] = "vrf" /\ l[3] = "vni")

\* An accepted plan replaces no line of the before configuration but RDs and what an SVI
\* has besides, in any section of the forward configuration.
ForwardKeepsCompared ==
  stage = "planned" =>
    \A l \in before \ config :
      /\ Len(l) = 4
      /\ <<l[1], l[3]>> \in {<<"vrf", "rd">>, <<"evpn", "rd">>, <<"svi", "other">>}

\* The configuration checks of evaluate_overlay_change.
L2Configured(c, x) ==
  /\ VniOf(c, x.vlan) = {x.vni} /\ <<"nve2", x.vni>> \in c
  /\ x.named => Of(c, "vlan", x.vlan, "name") = {"ours"}
  /\ x.svi => /\ Of(c, "svi", x.vlan, "attrs") = {"ours"}
              /\ Of(c, "svi", x.vlan, "vrf") = {x.vrf} \ {"none"}
L3Configured(c, x) ==
  L3VniOf(c, x.vrf) = {x.vni} /\ <<"nve3", x.vni>> \in c

\* The resource names no VRF, and its SVI has one.
VrfUnstated(c, x) == x.svi /\ x.vrf = "none" /\ Of(c, "svi", x.vlan, "vrf") # {}

\* A plan that was accepted and sent whole is what the evaluation looks for, unless it
\* leaves the VRF of an SVI unstated that has one: the plan does not compare it then, and
\* the evaluation does.
AppliedIsConfigured ==
  stage = "planned" /\ sent = Len(Forward(change)) =>
     /\ \A x \in change.l2 : L2Configured(config, x) \/ VrfUnstated(config, x)
     /\ \A x \in change.l3 : L3Configured(config, x)

\* "Lines that exist before are not deleted": the rollback configuration removes nothing
\* of the before configuration that the device still has.
PreExistingKept ==
  [][stage' = "restored" => before \cap config \subseteq config']_vars
=============================================================================
