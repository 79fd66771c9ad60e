---------------------------- MODULE AgentRegistry ----------------------------
(***************************************************************************)
(* registry/agent_registry.py: the registry is the set of registrations    *)
(* it holds, at most one per (agent_id, version).  A version is a triple   *)
(* of numbers written out with dots; the code compares the written form.   *)
(* service_account is descriptive metadata and is left out.                *)
(***************************************************************************)
EXTENDS Naturals, Sequences

CONSTANTS AgentIds, Capabilities,
          Versions  \* triples <<major, minor, patch>>, each below 100

\* The character codes of the written form.
DOT == 46
Digits(n) == IF n < 10 THEN <<48 + n>> ELSE <<48 + (n \div 10), 48 + (n % 10)>>

TextOf(version) == Digits(version[1]) \o <<DOT>> \o
                   Digits(version[2]) \o <<DOT>> \o Digits(version[3])

\* Python's < on str, on sequences of character codes.
TextBefore(s, t) ==
    \E k \in 0..Len(s) :
        /\ k < Len(t)
        /\ \A i \in 1..k : s[i] = t[i]
        /\ k < Len(s) => s[k + 1] < t[k + 1]

\* max finds one: among finitely many versions one has the last text.
ASSUME VersionAssumption ==
    \A some \in (SUBSET Versions) \ {{}} :
        \E last \in some :
            \A v \in some \ {last} : TextBefore(TextOf(v), TextOf(last))

\* The order a reader of "highest version" has in mind.
NumberBefore(v, w) ==
    \E k \in 1..3 : v[k] < w[k] /\ \A i \in 1..(k - 1) : v[i] = w[i]

SubAgentRegistration(Regions) ==
    [agent_id : AgentIds, region : Regions,
     capability : Capabilities, version : Versions]

all_agent_ids(registry) == {r.agent_id : r \in registry}

\* Fault: a version may be registered again with another region.
CanRegister_again(registry, new) == new \notin registry

\* register raises DuplicateRegistrationError when this does not hold.
CanRegister(registry, new) ==
    \A r \in registry :
        <<r.agent_id, r.version>> # <<new.agent_id, new.version>>

Candidates(registry, agent_id) == {r \in registry : r.agent_id = agent_id}

\* max(candidates, key=lambda r: r.version); the versions of an agent differ.
latest(registry, agent_id) ==
    CHOOSE r \in Candidates(registry, agent_id) :
        \A s \in Candidates(registry, agent_id) \ {r} :
            TextBefore(TextOf(s.version), TextOf(r.version))

Bootstrapped(agent_id, region, capability) ==
    [agent_id |-> agent_id, region |-> region,
     capability |-> capability, version |-> <<1, 0, 0>>]

bootstrap_default_registry ==
    {Bootstrapped("eu-summarizer", "EU", "summarize"),
     Bootstrapped("us-summarizer", "US", "summarize"),
     Bootstrapped("us-support", "US", "support")}

\* Fault: any registration that matches is returned, current or not.
discover_any(registry, region, capability) ==
    {r \in registry : /\ r.region \in region
                      /\ r.capability \in capability}

\* Each filter is the set of values it lets pass: None passes them all.
discover(registry, region, capability) ==
    {r \in {latest(registry, a) : a \in all_agent_ids(registry)} :
        /\ r.region \in region
        /\ r.capability \in capability}
=============================================================================
