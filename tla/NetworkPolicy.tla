---------------------------- MODULE NetworkPolicy ----------------------------
(***************************************************************************)
(* A session's network policy as iptables rules: the script that           *)
(* buildIptablesScript of internal/runtime/network_policy.go renders, run  *)
(* command by command by a helper container in the network namespace of a  *)
(* container that is already running.  SessionService has the call as one  *)
(* step that succeeds or not; here is what it does.                        *)
(*                                                                         *)
(* A packet leaves by OUTPUT of its own address family.  Only new and      *)
(* established connections are told apart, as the rules do.                *)
(***************************************************************************)
EXTENDS Naturals, Sequences, Selections

CONSTANTS
    Address4, Address6,   \* destinations of each family, besides the loopback
    MaxEntries            \* bound of a policy's entries

ASSUME NetworkPolicyAssumption == "lo" \notin Address4 \cup Address6 /\ MaxEntries \in Nat

VARIABLES
    policy,     \* the session's
    script,     \* what is left of the script
    scriptStep, \* of ApplyNetworkPolicy: "new" container, "running", "applied" or "failed"
    tables      \* OUTPUT and the hub's chain, of each family

policyVars == <<policy, script, scriptStep, tables>>

Family == {"iptables", "ip6tables"}
Destination(family) == {"lo"} \cup (IF family = "iptables" THEN Address4 ELSE Address6)

\* An IP address or a CIDR, as the destinations it stands for.  iptablesCommand
\* takes an IPv4 address in IPv6 notation for an IPv4 address; iptables does not
\* read it.
Entry ==
    (UNION {[family : {family}, covers : (SUBSET Destination(family)) \ {{}}, readable : {TRUE}] : family \in Family})
      \cup [family : {"iptables"}, covers : {{}}, readable : {FALSE}]

Packet == UNION {[family : {family}, to : Destination(family), established : BOOLEAN] : family \in Family}

ListsUpTo(n) == UNION {[1..k -> Entry] : k \in 0..n}
EmptyPolicy == [blacklist |-> <<>>, whitelist |-> <<>>]

(***************************************************************************)
(* The script.                                                             *)
(***************************************************************************)

EntriesForFamily(entries, family) ==
    Selected(entries, {entry \in {entries[i] : i \in DOMAIN entries} : entry.family = family})

Rule(match, target) == [match |-> match, covers |-> {}, readable |-> TRUE, target |-> target]

AddressRules(entries, family, target) ==
    LET ofFamily == EntriesForFamily(entries, family)
    IN  [i \in DOMAIN ofFamily |->
            [match |-> "to", covers |-> ofFamily[i].covers, readable |-> ofFamily[i].readable, target |-> target]]

\* Mutant: a family that the whitelist does not mention is left open.
RulesForFamilyOfEntries(p, family) ==
    LET drops == AddressRules(p.blacklist, family, "DROP")
        accepts == AddressRules(p.whitelist, family, "ACCEPT")
    IN  IF accepts = <<>>
        THEN IF drops = <<>> THEN <<>> ELSE Append(drops, Rule("all", "RETURN"))
        ELSE drops \o <<Rule("lo", "ACCEPT"), Rule("established", "ACCEPT")>>
                   \o accepts \o <<Rule("all", "DROP")>>

\* A whitelist drops the rest in both families, whichever its entries are of.
RulesForFamily(p, family) ==
    LET drops == AddressRules(p.blacklist, family, "DROP")
    IN  IF p.whitelist = <<>>
        THEN IF drops = <<>> THEN <<>> ELSE Append(drops, Rule("all", "RETURN"))
        ELSE drops \o <<Rule("lo", "ACCEPT"), Rule("established", "ACCEPT")>>
                   \o AddressRules(p.whitelist, family, "ACCEPT") \o <<Rule("all", "DROP")>>

\* -N; -F; while -D OUTPUT -j; -I OUTPUT 1 -j; then -A for each rule.
ScriptForFamily(p, family) ==
    LET rules == RulesForFamily(p, family)
        command(op, rule) == [family |-> family, op |-> op, rule |-> rule]
        prepare == [i \in 1..4 |-> command(<<"new", "flush", "unhook", "hook">>[i], Rule("all", "RETURN"))]
    IN  IF rules = <<>> THEN <<>> ELSE prepare \o [i \in DOMAIN rules |-> command("append", rules[i])]

BuildIptablesScript(p) == ScriptForFamily(p, "iptables") \o ScriptForFamily(p, "ip6tables")

(***************************************************************************)
(* The kernel.                                                             *)
(***************************************************************************)

NoRules == [family \in Family |-> [hooked |-> FALSE, chain |-> <<>>]]

Matches(rule, packet) ==
    CASE rule.match = "all" -> TRUE
      [] rule.match = "lo" -> packet.to = "lo"
      [] rule.match = "established" -> packet.established
      [] rule.match = "to" -> packet.to \in rule.covers

\* The first rule that matches decides; OUTPUT itself lets everything pass.
Passes(out, packet) ==
    LET chain == out[packet.family].chain
        deciding == {i \in DOMAIN chain :
                        Matches(chain[i], packet) /\ \A j \in 1..i - 1 : ~Matches(chain[j], packet)}
    IN  ~out[packet.family].hooked \/ \A i \in deciding : chain[i].target # "DROP"

\* Mutant: -I for -A.
InsertRule(chain, rule) == <<rule>> \o chain

AppendRule(chain, rule) == Append(chain, rule)

Run(command) ==
    CASE command.op = "new" -> UNCHANGED tables
      [] command.op = "flush" -> tables' = [tables EXCEPT ![command.family].chain = <<>>]
      [] command.op = "unhook" -> tables' = [tables EXCEPT ![command.family].hooked = FALSE]
      [] command.op = "hook" -> tables' = [tables EXCEPT ![command.family].hooked = TRUE]
      [] command.op = "append" -> tables' = [tables EXCEPT ![command.family].chain = AppendRule(@, command.rule)]

PolicyInit == policy = EmptyPolicy /\ script = <<>> /\ scriptStep = "new" /\ tables = NoRules

\* A container has been started in a namespace of its own.  Without a policy, and
\* so without a script, there is nothing to apply; one that is not of addresses is
\* refused, here as before the container was created.
ApplyNetworkPolicy ==
    /\ scriptStep = "new"
    /\ \E b \in 0..MaxEntries : \E blacklist \in ListsUpTo(b), whitelist \in ListsUpTo(MaxEntries - b) :
          policy' = [blacklist |-> blacklist, whitelist |-> whitelist]
    /\ script' = BuildIptablesScript(policy')
    /\ scriptStep' = "running"
    /\ UNCHANGED tables

\* set -e: the script goes on only after a command that succeeded.
RunCommand ==
    /\ scriptStep = "running" /\ script # <<>>
    /\ Head(script).rule.readable
    /\ Run(Head(script))
    /\ script' = Tail(script)
    /\ UNCHANGED <<policy, scriptStep>>

\* The helper cannot be started, a command fails, or the request is cancelled.
\* Create fails with it, and removes the container if it can.
ScriptFails ==
    /\ scriptStep = "running" /\ script # <<>>
    /\ scriptStep' = "failed" /\ script' = <<>>
    /\ UNCHANGED <<policy, tables>>

ScriptEnds ==
    /\ scriptStep = "running" /\ script = <<>>
    /\ scriptStep' = "applied"
    /\ UNCHANGED <<policy, script, tables>>

NextContainer ==
    /\ scriptStep \in {"applied", "failed"}
    /\ policy' = EmptyPolicy /\ script' = <<>> /\ scriptStep' = "new" /\ tables' = NoRules

PolicyNext == ApplyNetworkPolicy \/ RunCommand \/ ScriptFails \/ ScriptEnds \/ NextContainer

PolicySpec == PolicyInit /\ [][PolicyNext]_policyVars

(***************************************************************************)
(* Properties                                                              *)
(***************************************************************************)

Covered(entries, packet) ==
    \E i \in DOMAIN entries : entries[i].family = packet.family /\ packet.to \in entries[i].covers

\* What a policy means: nothing goes to a blacklisted address, which may lie within
\* a whitelisted range; with a whitelist nothing else goes anywhere but to it and
\* to the container itself, except on connections that are open already.
Allowed(p, packet) ==
    /\ ~Covered(p.blacklist, packet)
    /\ p.whitelist = <<>> \/ Covered(p.whitelist, packet) \/ packet.to = "lo" \/ packet.established

\* When ApplyNetworkPolicy succeeds, exactly what the policy allows can leave the
\* container, in both families, whatever the order and the overlaps of its entries;
\* and it does not succeed with an entry that iptables does not read.
PolicyEnforced ==
    scriptStep = "applied" =>
        /\ \A packet \in Packet : Passes(tables, packet) <=> Allowed(policy, packet)
        /\ \A i \in DOMAIN policy.blacklist : policy.blacklist[i].readable
        /\ \A i \in DOMAIN policy.whitelist : policy.whitelist[i].readable

\* The container runs while the rules are installed: no command of the script lets
\* anything pass that the one before did not, and none stops what the policy allows.
OnlyTightens ==
    [][scriptStep = "running" =>
          \A packet \in Packet :
              /\ Passes(tables', packet) => Passes(tables, packet)
              /\ Allowed(policy, packet) => Passes(tables', packet)]_policyVars
===============================================================================
