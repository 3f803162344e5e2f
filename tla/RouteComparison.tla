----------------------------- MODULE RouteComparison -----------------------------
(***************************************************************************)
(* The route check of a health comparison (alred/health/route_diff.py over *)
(* the comparator, evaluator and semantics of alred/route_diff/) and the   *)
(* offline comparison of route logs over the same: the tables of one       *)
(* device and VRF in two Snapshots, for one prefix, the policy for this    *)
(* prefix, and the result.                                                 *)
(***************************************************************************)
EXTENDS Naturals, FiniteSets

CONSTANTS
  NextHops,
  Costlier,  \* next hops that also appear with a second metric
  MaxPaths,  \* of one route
  MinPaths   \* least numbers of paths a rule may require

VARIABLES
  sides,   \* evidence and route of the two Snapshots; phase of the second
  policy,  \* the rules for the prefix
  check    \* result of the check, "none" before it

vars == <<sides, policy, check>>

-----------------------------------------------------------------------------
(* Routes and policies                                                     *)

\* A path is <<next hop, metric>>.
Paths == (NextHops \X {1}) \cup (Costlier \X {2})
Hops(route) == {path[1] : path \in route}
Absent == {}
Routes == {r \in SUBSET Paths : IsFiniteSet(r) /\ Cardinality(r) <= MaxPaths}

\* A table is missing, was not read to its end, was read to its end on the word of the
\* user (asserted, of an offline log), or as the collection proves (verified).
Complete(side) == side.scope \in {"asserted", "verified"}
Eligible(side) == side.scope = "verified"
Sides == [scope : {"asserted", "verified"}, route : Routes]
           \cup [scope : {"missing", "incomplete"}, route : {Absent}]

RequiredRules ==
  [min_paths : MinPaths, hops : SUBSET NextHops, match : {"exact", "contains"}]
ExpectedChanges == {c \in [before : Routes, after : Routes] : c.before # c.after}
AtMostOne(S) == {{}} \cup {{x} : x \in S}

\* An excluded prefix has no other rule.
Policies ==
  [required : AtMostOne(RequiredRules), expected : AtMostOne(ExpectedChanges),
   excluded : {FALSE}]
    \cup {[required |-> {}, expected |-> {}, excluded |-> TRUE]}

-----------------------------------------------------------------------------
(* The results of the rules                                                *)

\* Unknown evidence outweighs everything.
representative(S) ==
  IF "UNKNOWN" \in S THEN "UNKNOWN"
  ELSE IF "FAIL" \in S THEN "FAIL"
  ELSE IF "WARN" \in S THEN "WARN"
  ELSE "PASS"

Satisfies(rule, route) ==
  /\ route # Absent
  /\ Cardinality(route) >= rule.min_paths
  /\ rule.hops # {} =>
       IF rule.match = "exact"
       THEN Hops(route) = rule.hops
       ELSE rule.hops \subseteq Hops(route)

RequiredOn(rule, side) ==
  IF ~Eligible(side) THEN "UNKNOWN"
  ELSE IF Satisfies(rule, side.route) THEN "PASS"
  ELSE "FAIL"

Required(rule, b, a) == representative({RequiredOn(rule, b), RequiredOn(rule, a)})

Expected(change, b, a) ==
  IF ~Eligible(b) \/ ~Eligible(a) THEN "UNKNOWN"
  ELSE IF b.route = change.before /\ a.route = change.after THEN "PASS"
  ELSE "WARN"

\* MUTANT of Regressed: a route that keeps its number of paths has not regressed.
RegressedFewer(b, a) ==
  b.route # Absent /\ (a.route = Absent \/ Cardinality(a.route) < Cardinality(b.route))

\* Prefix removed, next hops changed or fewer paths.
Regressed(b, a) ==
  b.route # Absent /\ (\/ a.route = Absent
                       \/ Hops(a.route) # Hops(b.route)
                       \/ Cardinality(a.route) < Cardinality(b.route))

\* The difference is listed when both tables were read to their end.
Changed(b, a) == Complete(b) /\ Complete(a) /\ b.route # a.route

GeneralChange(p, b, a) ==
  LET required == {Required(r, b, a) : r \in p.required} \cap {"FAIL", "UNKNOWN"}
      alone == IF ~Eligible(b) \/ ~Eligible(a) THEN "UNKNOWN"
               ELSE IF p.excluded THEN "EXCLUDED"
               ELSE IF p.expected # {} THEN Expected(CHOOSE c \in p.expected : TRUE, b, a)
               ELSE IF Regressed(b, a) THEN "WARN"
               ELSE "PASS"
  IN IF required = {} THEN alone ELSE representative({alone} \cup required)

\* After a rollback nothing is expected to change: whatever did, and is not excluded, fails.
Residual(phase, p, b, a) ==
  phase = "rollback" /\ Changed(b, a) /\ ~(p.excluded /\ Eligible(b) /\ Eligible(a))

\* stray: a source of the device that belongs to no table.
RouteCheck(phase, p, stray, b, a) ==
  LET kept == IF phase \in {"after", "offline"} THEN p ELSE [p EXCEPT !.expected = {}]
      rules == {Required(r, b, a) : r \in kept.required}
                 \cup {Expected(c, b, a) : c \in kept.expected}
                 \cup (IF Changed(b, a) THEN {GeneralChange(kept, b, a)} ELSE {})
      evidence == IF Eligible(b) /\ Eligible(a) /\ ~stray THEN {} ELSE {"UNKNOWN"}
      residual == IF Residual(phase, kept, b, a) THEN {"FAIL"} ELSE {}
  IN representative((rules \ {"EXCLUDED"}) \cup evidence \cup residual)

-----------------------------------------------------------------------------
(* The comparison                                                          *)

NoSide == [scope |-> "missing", route |-> Absent]
NoPolicy == [required |-> {}, expected |-> {}, excluded |-> FALSE]

Init ==
  /\ sides = [phase |-> "none", before |-> NoSide, after |-> NoSide]
  /\ policy = NoPolicy
  /\ check = "none"

\* single: one Snapshot, compared with itself.  offline: logs outside of a change.
TakeTables ==
  /\ sides.phase = "none"
  /\ \E phase \in {"single", "after", "rollback", "offline"} : \E b \in Sides, a \in Sides :
       /\ phase = "single" => a = b
       /\ phase # "offline" => "asserted" \notin {a.scope, b.scope}
       /\ sides' = [phase |-> phase, before |-> b, after |-> a]
  /\ UNCHANGED <<policy, check>>

Compare ==
  /\ sides.phase # "none" /\ check = "none"
  /\ \E p \in Policies, stray \in BOOLEAN :
       /\ policy' = p
       /\ check' = RouteCheck(sides.phase, p, stray, sides.before, sides.after)
  /\ UNCHANGED sides

Next == TakeTables \/ Compare

Spec == Init /\ [][Next]_vars

-----------------------------------------------------------------------------

TypeOK ==
  /\ \A side \in {sides.before, sides.after} :
       side.route \subseteq Paths /\ (side.route # Absent => Complete(side))
  /\ policy.excluded => policy.required = {} /\ policy.expected = {}
  /\ check \in {"none", "PASS", "WARN", "FAIL", "UNKNOWN"}

\* No next hop was lost, and no path.
Kept(b, a) ==
  Hops(b.route) \subseteq Hops(a.route) /\ Cardinality(b.route) <= Cardinality(a.route)

\* A route check that passes has accounted for the forwarding of the prefix: both tables
\* are proved complete, every required route is there in both, and a route that lost a
\* next hop or a path is an excluded prefix or, after a change, exactly the change
\* expected.  After a rollback there is no warning: the prefix is as it was, excluded, or
\* fails.
RoutesAccounted ==
  /\ check = "PASS" =>
       /\ Eligible(sides.before) /\ Eligible(sides.after)
       /\ \A r \in policy.required :
            Satisfies(r, sides.before.route) /\ Satisfies(r, sides.after.route)
       /\ \/ policy.excluded
          \/ sides.phase # "rollback" /\ Kept(sides.before, sides.after)
          \/ sides.before.route = sides.after.route
          \/ /\ sides.phase \in {"after", "offline"}
             /\ [before |-> sides.before.route, after |-> sides.after.route]
                  \in policy.expected
  /\ check = "WARN" => sides.phase \in {"after", "offline"}
=============================================================================
