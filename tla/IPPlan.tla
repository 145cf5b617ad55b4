-------------------------------- MODULE IPPlan --------------------------------
(***************************************************************************)
(* The arithmetic of ipplan.Validate: which network plans a cluster form   *)
(* may be previewed and applied with.  An address is of kind "v4" with its *)
(* number, "v6", or "none" where the text is no address; everything that   *)
(* is not IPv4 counts as number 0, as ipToUint32 has it.                   *)
(***************************************************************************)
EXTENDS Integers

CONSTANT Bits   \* width of an IPv4 address, 32

ASSUME BitsAssumption == Bits \in Nat /\ Bits > 2

V4(n) == [kind |-> "v4", number |-> n]
V6    == [kind |-> "v6", number |-> 0]
NoIP  == [kind |-> "none", number |-> 0]

IPs   == [kind : {"v4", "v6", "none"}, number : Nat]
Plans == [gateway : IPs, prefix : Int, endpoint : IPs, first : IPs, last : IPs,
          machines : Int, dns : SUBSET IPs]

IsIP(ip) == ip.kind # "none"

\* A subnet leaves at least four addresses: /1 to /30.
PrefixOK(p) == p \in 1 .. Bits - 2

Block(p) == 2 ^ (Bits - p)

\* The IPv4 addresses that share their first p bits with gw.
SubnetStart(gw, p) == gw.number - (gw.number % Block(p))
Subnet(gw, p)      == SubnetStart(gw, p) .. SubnetStart(gw, p) + Block(p) - 1

\* network.Contains: addresses of another family are never inside.
Contains(gw, p, ip) == ip.kind = gw.kind /\ (gw.kind = "v4" => ip.number \in Subnet(gw, p))

RangeParses(first, last) ==
  first.kind = "v4" /\ last.kind = "v4" /\ first.number <= last.number

RangeSize(first, last) == last.number - first.number + 1

\* Mutant of InRange: the ends are left out.
StrictlyInRange(ip, first, last) == ip.number > first.number /\ ip.number < last.number

InRange(ip, first, last) == ip.number >= first.number /\ ip.number <= last.number

\* The fields ipplan.Validate reports an error for.  The subnet is known only
\* when gateway and prefix are; answers says that the control plane endpoint
\* replied to the ping.
PlanErrors(plan, answers) ==
  LET known  == IsIP(plan.gateway) /\ PrefixOK(plan.prefix)
      parses == RangeParses(plan.first, plan.last)
      outside(ip) == known /\ ~Contains(plan.gateway, plan.prefix, ip)
  IN  {f \in {"gateway", "prefix", "endpoint", "range", "dns"} :
        \/ f = "gateway"  /\ ~IsIP(plan.gateway)
        \/ f = "prefix"   /\ ~PrefixOK(plan.prefix)
        \/ f = "endpoint" /\ \/ ~IsIP(plan.endpoint) \/ outside(plan.endpoint)
                             \/ parses /\ InRange(plan.endpoint, plan.first, plan.last)
                             \/ answers
        \/ f = "range"    /\ \/ ~parses
                             \/ outside(plan.first) \/ outside(plan.last)
                             \/ plan.machines > 0 /\ RangeSize(plan.first, plan.last) < plan.machines
                             \/ InRange(plan.gateway, plan.first, plan.last)
        \/ f = "dns"      /\ \E d \in plan.dns : ~IsIP(d)}

\* What the checks of a plan promise (features.md): gateway, endpoint and every
\* address of the range are in one subnet, no machine gets the endpoint's or
\* the gateway's address, and none goes without one.  That gateway and
\* endpoint differ is not promised: nothing compares them.
PlanFits(plan) ==
  LET range == plan.first.number .. plan.last.number
  IN  /\ {plan.gateway.kind, plan.endpoint.kind} = {"v4"}
      /\ plan.endpoint.number \notin range /\ plan.gateway.number \notin range
      /\ range \cup {plan.endpoint.number} \subseteq Subnet(plan.gateway, plan.prefix)
      /\ plan.machines <= plan.last.number - plan.first.number + 1
=============================================================================
