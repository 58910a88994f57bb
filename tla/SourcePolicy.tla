------------------------------ MODULE SourcePolicy ------------------------------
(***************************************************************************)
(* Which paths of a repository the graph may look at                       *)
(* (src/src/repository_graph/source/policy.rs).                            *)
(*                                                                         *)
(* A path is the sequence of its components, and a component is a number.  *)
(* A component pattern is the set of the components it matches, what `*`   *)
(* and `?` are left at; a pattern is a sequence of component patterns in   *)
(* which Deep, the empty set, stands for `**`.  Fold gives the lower-case  *)
(* form of a component.                                                    *)
(***************************************************************************)
EXTENDS Integers, Sequences, FiniteSets, SequencesExt

CONSTANTS Fold(_),
          RuntimeNames,    \* .git and .ferrus
          VendorNames,     \* vendor, node_modules, third_party
          GeneratedNames   \* target, dist, build, ...

Deep == {}

(* component_matches, on the names the pattern stands for.                 *)
ComponentMatches(pattern, name) == name \in pattern

(* The worklist of components_match and glob_may_match_descendant: from    *)
(* (i, j), the i-th pattern component and the j-th path component are next.*)
Successors(pattern, path, state) ==
  LET i == state[1]
      j == state[2]
  IN IF i > Len(pattern) THEN {}
     ELSE IF pattern[i] = Deep
     THEN {<<i + 1, j>>} \cup IF j <= Len(path) THEN {<<i, j + 1>>} ELSE {}
     ELSE IF j <= Len(path) /\ ComponentMatches(pattern[i], path[j]) THEN {<<i + 1, j + 1>>} ELSE {}

Reachable(pattern, path) ==
  LET Reached[n \in 0 .. Len(pattern) + Len(path)] ==
        IF n = 0 THEN {<<1, 1>>}
        ELSE Reached[n - 1] \cup UNION {Successors(pattern, path, s) : s \in Reached[n - 1]}
  IN Reached[Len(pattern) + Len(path)]

ComponentsMatch(pattern, path) ==
  <<Len(pattern) + 1, Len(path) + 1>> \in Reachable(pattern, path)

(* A pattern of one component matches a path that has such a component.    *)
GlobMatches(pattern, path) ==
  IF Len(pattern) = 1
  THEN \E j \in 1 .. Len(path) : pattern[1] = Deep \/ ComponentMatches(pattern[1], path[j])
  ELSE ComponentsMatch(pattern, path)

MutGlobMayMatchDescendant(pattern, directory) == ComponentsMatch(pattern, directory)

GlobMayMatchDescendant(pattern, directory) ==
  \/ Len(pattern) = 1
  \/ \E s \in Reachable(pattern, directory) : s[2] = Len(directory) + 1 /\ s[1] <= Len(pattern)

FoldPath(path) == [j \in 1 .. Len(path) |-> Fold(path[j])]

SensitiveGlobMatches(pattern, path) ==
  GlobMatches([i \in 1 .. Len(pattern) |-> {Fold(n) : n \in pattern[i]}], FoldPath(path))

HasComponent(path, names) == \E j \in 1 .. Len(path) : Fold(path[j]) \in names

HardExcluded(path) == HasComponent(path, RuntimeNames)

IsVendor(path) == HasComponent(path, VendorNames)

IsGenerated(path) == HasComponent(path, GeneratedNames)

(* The last rule that matches a path decides, unless it is negated.        *)
RuleExcludes(rules, path) ==
  LET matching == {k \in 1 .. Len(rules) : GlobMatches(rules[k].pattern, path)}
  IN matching # {} /\ ~rules[CHOOSE k \in matching : \A m \in matching : m <= k].negated

(* What files and directories have in common.                              *)
NameExclusion(policy, path) ==
  IF HardExcluded(path) THEN "runtime_path_excluded"
  ELSE IF \E s \in policy.sensitive : SensitiveGlobMatches(s, path) THEN "sensitive_path_excluded"
  ELSE IF ~policy.vendor /\ IsVendor(path) THEN "vendor_path_excluded"
  ELSE IF ~policy.generated /\ IsGenerated(path) THEN "generated_path_excluded"
  ELSE "none"

ExclusionForFile(policy, path) ==
  IF NameExclusion(policy, path) # "none" THEN NameExclusion(policy, path)
  ELSE IF \A g \in policy.include : ~GlobMatches(g, path) THEN "path_not_included"
  ELSE IF RuleExcludes(policy.rules, path) THEN "source_rule_excluded" ELSE "none"

HasNegatedRules(policy) == \E k \in 1 .. Len(policy.rules) : policy.rules[k].negated

(* A directory is entered when a file below it may still be included.      *)
ExclusionForDirectory(policy, path) ==
  IF NameExclusion(policy, path) # "none" THEN NameExclusion(policy, path)
  ELSE IF \A g \in policy.include : ~GlobMayMatchDescendant(g, path) THEN "path_not_included"
  ELSE IF ~HasNegatedRules(policy) /\ RuleExcludes(policy.rules, path)
  THEN "source_rule_excluded" ELSE "none"

-----------------------------------------------------------------------------
(* What a pattern of more than one component means: the path can be cut    *)
(* into one piece for each component of the pattern, pieces of any length  *)
(* for `**` and of one matching component for the others.                  *)
Matches(pattern, path) ==
  \E cut \in [1 .. Len(pattern) + 1 -> 1 .. Len(path) + 1] :
    /\ cut[1] = 1 /\ cut[Len(pattern) + 1] = Len(path) + 1
    /\ \A i \in 1 .. Len(pattern) :
         IF pattern[i] = Deep THEN cut[i] <= cut[i + 1]
         ELSE /\ cut[i + 1] = cut[i] + 1
              /\ cut[i] <= Len(path) /\ path[cut[i]] \in pattern[i]

(* A pattern that matches, with a directory, everything below it.          *)
WholeSubtrees(pattern) == Len(pattern) = 1 \/ pattern[Len(pattern)] = Deep
=============================================================================
