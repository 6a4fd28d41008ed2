------------------------------- MODULE Config ------------------------------
(***************************************************************************)
(* Which configurations Load accepts (internal/config/config.go, Validate) *)
(* and the rule the engine evaluates for a policy (Policy.Rule).           *)
(*                                                                         *)
(* A configuration is a record with the fields of the YAML.  A field that  *)
(* was left out has its zero value; a *bool is the set of its value, empty *)
(* when it was left out.  An expression is a record of what regexp makes   *)
(* of it: whether it was given, is anchored and compiles, its named        *)
(* captures, and the tags it matches.  Percentages are in hundredths; a    *)
(* float64 is the set of its value, empty for the .nan of YAML.            *)
(***************************************************************************)
EXTENDS Integers

CalendarPatterns == {"vYYYY.MM.DD.x", "vYYYY.MM.DD.x-{app}"}

RegistryOK(r) ==
  \/ r.provider = "oci" /\ r.endpoint # ""
  \/ /\ r.provider = "github"
     /\ r.owner # ""
     /\ r.tokenEnv # "" \/ r.tokenFile # ""
     /\ r.ownerType \in {"organization", "user"}

\* ValidateRegexParser
RegexParserOK(e) ==
  /\ e.given /\ e.anchored /\ e.compiles
  /\ {"year", "month", "day", "sequence"} \subseteq e.captures

TagsOK(tags) ==
  \/ tags.parser = "calendar" /\ ~tags.regex.given /\ tags.patterns \subseteq CalendarPatterns
  \/ tags.parser = "custom_regex" /\ RegexParserOK(tags.regex)

\* Mutant: a floor is not required.
RetentionWithoutFloor(r) ==
  /\ r.deleteOlderThan > 0
  /\ r.keepNewerThan <= r.deleteOlderThan
  /\ r.keepAtLeast >= 0
  /\ r.keepLatest >= 0
  /\ r.groupBy \in {"", "app"}

RetentionOK(r) ==
  /\ r.deleteOlderThan > 0
  /\ r.keepNewerThan <= r.deleteOlderThan
  /\ r.keepAtLeast >= 1
  /\ r.keepLatest >= 0
  /\ r.groupBy \in {"", "app"}

SafetyOK(s) ==
  /\ s.maxDeleteCount > 0
  /\ \A p \in s.maxDeletePercent : p > 0 /\ p <= 10000

PolicyOK(p, registries) ==
  /\ p.targets # {}
  /\ TagsOK(p.tags)
  /\ RetentionOK(p.retention)
  /\ SafetyOK(p.safety)
  /\ p.targets \subseteq registries
  /\ \A e \in p.protect.tagPatterns : e.compiles

\* A schedule or a webhook is the set of its section, empty when there is none.
ScheduleOK(s) ==
  /\ s.cron = "parses"
  /\ s.timezone = "loads"
  /\ s.timeout >= 0

HooksOK(h) == h.type = "webhook"

Validate(c) ==
  /\ c.version = "v1"
  /\ DOMAIN c.registries # {}
  /\ \A n \in DOMAIN c.registries : RegistryOK(c.registries[n])
  /\ \A n \in DOMAIN c.policies : PolicyOK(c.policies[n], DOMAIN c.registries)
  /\ \A h \in c.afterApply : HooksOK(h)
  /\ \A s \in c.schedule : ScheduleOK(s)

\* Mutant: what was left out is FALSE, the zero value of a bool.
OrFalse(setting) == TRUE \in setting

\* A setting that was left out is TRUE.
OrTrue(setting) == \A b \in setting : b

\* Policy.Rule, without the limits, which module Planner takes.
RuleOf(p) ==
  [keepNewerThan    |-> p.retention.keepNewerThan,
   deleteOlderThan  |-> p.retention.deleteOlderThan,
   keepLatest       |-> p.retention.keepLatest,
   keepAtLeast      |-> p.retention.keepAtLeast,
   groupByApp       |-> p.retention.groupBy = "app",
   protectedTags    |-> p.protect.tags \cup UNION {e.matches : e \in p.protect.tagPatterns},
   protectedDigests |-> p.protect.digests,
   protectUnparsed  |-> OrTrue(p.protect.unparsedTags),
   requireTagged    |-> OrTrue(p.safety.requireTagged)]

\* The rules of the policies of configurations that are accepted.
RulesOf(configurations) ==
  {RuleOf(p) : p \in UNION {{c.policies[n] : n \in DOMAIN c.policies} :
                              c \in {d \in configurations : Validate(d)}}}
=============================================================================
