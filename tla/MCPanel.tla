------------------------------- MODULE MCPanel -------------------------------
EXTENDS Provision, Images

NoRegistry == [host |-> "", ca |-> "", user |-> "", password |-> ""]
NoOIDC     == [issuer |-> "", client |-> "", ca |-> "", group |-> ""]
NoGitOps   == [on |-> FALSE, url |-> "", token |-> "", ca |-> ""]
NoDNS      == [domains |-> {}, servers |-> {}]

Plan == [gateway |-> V4(1), prefix |-> 1, endpoint |-> V4(2), first |-> V4(3), last |-> V4(4),
         machines |-> 2, dns |-> {V4(1)}]

Plain ==
  [name |-> "c", template |-> "t", connection |-> "pve", os |-> "ubuntu", plan |-> Plan,
   controlPlanes |-> 1, workers |-> 1, cni |-> "none", metrics |-> FALSE, istio |-> FALSE,
   metallb |-> FALSE, pool |-> "", registry |-> NoRegistry, oidc |-> NoOIDC,
   gitops |-> NoGitOps, dns |-> NoDNS, internalCA |-> ""]

Registry == [host |-> "registry", ca |-> "certificate", user |-> "u", password |-> "p"]
OIDC     == [issuer |-> "https", client |-> "c", ca |-> "certificate", group |-> "g"]
GitOps   == [on |-> TRUE, url |-> "https", token |-> "t", ca |-> "certificate"]
DNS      == [domains |-> {"lan"}, servers |-> {"address"}]

Full ==
  [Plain EXCEPT !.cni = "cilium", !.metrics = TRUE, !.istio = TRUE, !.metallb = TRUE,
     !.pool = "pool", !.registry = Registry, !.oidc = OIDC, !.gitops = GitOps, !.dns = DNS,
     !.internalCA = "certificate"]

\* What nodes are told, without addons.
Nodes ==
  {[Plain EXCEPT !.os = o, !.registry = r, !.oidc = i, !.internalCA = a] :
     o \in {"ubuntu", "rocky", "flatcar"},
     r \in {NoRegistry, Registry, [NoRegistry EXCEPT !.host = "registry"]},
     i \in {NoOIDC, [OIDC EXCEPT !.ca = ""], OIDC},
     a \in {"", "certificate"}}

\* What runs once they are up.
Workloads ==
  {[Plain EXCEPT !.cni = c, !.dns = d, !.gitops = g] :
     c \in {"calico", "cilium"}, d \in {NoDNS, DNS, [DNS EXCEPT !.domains = {"lan", "corp"}]},
     g \in {NoGitOps, [GitOps EXCEPT !.token = "", !.ca = ""], GitOps}}

\* One thing wrong, or left over from a section that was switched off.
Deviating ==
  {[Full EXCEPT !.name = ""], [Full EXCEPT !.pool = ""], [Full EXCEPT !.metallb = FALSE],
   [Full EXCEPT !.template = "gone"], [Full EXCEPT !.internalCA = "junk"]}
  \cup {[Full EXCEPT !.registry = r] :
          r \in {[Registry EXCEPT !.host = ""], [Registry EXCEPT !.host = "with blanks"],
                 [Registry EXCEPT !.ca = "junk"], [Registry EXCEPT !.password = ""]}}
  \cup {[Full EXCEPT !.oidc = i] :
          i \in {[OIDC EXCEPT !.client = ""], [OIDC EXCEPT !.issuer = "http"]}}
  \cup {[Full EXCEPT !.gitops = g] :
          g \in {[GitOps EXCEPT !.on = FALSE], [GitOps EXCEPT !.url = "ssh"],
                 [GitOps EXCEPT !.ca = "junk"]}}
  \cup {[Full EXCEPT !.dns = d] :
          d \in {[DNS EXCEPT !.servers = {}], [DNS EXCEPT !.servers = {"name"}],
                 [DNS EXCEPT !.domains = {"cluster.local"}], [DNS EXCEPT !.domains = {}]}}

Unplanned ==
  {[Plain EXCEPT !.plan = p] :
     p \in {[Plan EXCEPT !.gateway = g, !.endpoint = e, !.first = a, !.last = b] :
              g \in {V4(1), V4(3), V6, NoIP}, e \in {V4(2), V4(3), V4(8), V6},
              a \in {V4(3), V6}, b \in {V4(4), V4(5), V4(8), V4(2)}}}
  \cup {[Plain EXCEPT !.plan.gateway = g, !.plan.endpoint = e] :
           g \in {V4(1), V4(7)}, e \in {V4(1), V4(7)}}
  \cup {[Plain EXCEPT !.plan.prefix = 0], [Plain EXCEPT !.plan.dns = {NoIP}],
        [Plain EXCEPT !.workers = 2, !.plan.machines = 3],
        [Plain EXCEPT !.workers = -1, !.plan.machines = 0]}

\* An address that is taken: the gateway's in some plans, or another's.
MCAnswering == {V4(7)}

MCForms == Nodes \cup Workloads \cup Deviating \cup Unplanned \cup {Full, [Full EXCEPT !.os = "flatcar"]}

Memory(f) ==
  [registry |-> f.registry, oidc |-> f.oidc, dns |-> f.dns, internalCA |-> f.internalCA,
   gitops |-> [k \in {"url", "token", "ca"} |-> f.gitops[k]]]

MCNothing == Memory(Plain)

\* Of a cluster with everything, for whom user and password are others.
MCMemories ==
  {MCNothing, Memory([Full EXCEPT !.registry.user = "u0", !.registry.password = "p0"])}

\* clusterctl's documents: kube-vip's file states no permissions, a helper
\* lies in /usr/local/bin.
Bootstrap ==
  [files  |-> {[File("/etc/kubernetes/manifests", "kube-vip", "yaml", "pod")
                  EXCEPT !.permissions = FALSE],
               File("/usr/local/bin", "helper", "sh", "script")},
   before |-> <<"upstream">>, after |-> << >>, flags |-> {}, format |-> "cloud-config"]

Kubeadm ==
  [k \in Kinds |->
     IF k \in Bootstraps THEN Bootstrap
     ELSE IF k = "ProxmoxCluster" THEN [credentials |-> "shared"]
     ELSE [skipCloudInit |-> FALSE, full |-> TRUE, disk |-> "qcow2"]]

Only(kinds) == [k \in kinds |-> Kubeadm[k]]

MCRendered == {Kubeadm, Only(Kinds \ {"ProxmoxCluster"}), Only({"ProxmoxCluster"})}

Ordinary == <<"other", "more">>

MCCorefiles ==
  {Ordinary,                                               \* kubeadm's
   <<"other", "begin", "zone", "end">>,                    \* with our block
   <<"begin", "zone", "end", "other", "begin", "more">>}   \* edited by hand

-----------------------------------------------------------------------------
(* One run looks at either part: they share no state. *)

VARIABLE agenda

panelVars == <<agenda, provisionVars, imageVars>>

PanelInit ==
  /\ ProvisionInit /\ ImagesInit
  /\ \/ /\ agenda = "clusters"
        /\ corefile # Ordinary => DNSEnabled(form) /\ remembered = MCNothing
        /\ remembered # MCNothing => form.internalCA = "" /\ form.os = "ubuntu" /\ form.cni # "cilium"
                                       /\ form.plan = Plan
     \/ agenda = "images" /\ form = Plain /\ corefile = Ordinary /\ remembered = MCNothing

\* Builds are alike: they are submitted in their order.
InOrder == \A a, b \in Builds : a < b /\ at'[a] = "idle" => at'[b] = "idle"

PanelNext ==
  /\ UNCHANGED agenda
  /\ \/ agenda = "clusters" /\ ProvisionNext /\ UNCHANGED imageVars
     \/ agenda = "images" /\ ImagesNext /\ InOrder /\ UNCHANGED provisionVars

PanelSpec ==
  PanelInit /\ [][PanelNext]_panelVars /\ ProvisionFairness /\ ImagesFairness
=============================================================================
