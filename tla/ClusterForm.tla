----------------------------- MODULE ClusterForm -----------------------------
(***************************************************************************)
(* The form of a new cluster: what parseClusterForm refuses, what the      *)
(* preview page carries on to the apply, and the job ApplySpec plans.      *)
(* "" is a field left empty.                                               *)
(***************************************************************************)
EXTENDS IPPlan, Sequences, FiniteSets

Registries  == [host : STRING, ca : STRING, user : STRING, password : STRING]
OIDCs       == [issuer : STRING, client : STRING, ca : STRING, group : STRING]
GitSections == [on : BOOLEAN, url : STRING, token : STRING, ca : STRING]
DNSSections == [domains : SUBSET STRING, servers : SUBSET STRING]

FormRecords ==
  [name : STRING, template : STRING, connection : STRING, os : STRING, plan : Plans,
   controlPlanes : Int, workers : Int, cni : STRING, metrics : BOOLEAN, istio : BOOLEAN,
   metallb : BOOLEAN, pool : STRING, registry : Registries, oidc : OIDCs,
   gitops : GitSections, dns : DNSSections, internalCA : STRING]

\* What is remembered of forms.
MemoryRecords ==
  [registry : Registries, oidc : OIDCs, dns : DNSSections, internalCA : STRING,
   gitops : [url : STRING, token : STRING, ca : STRING]]

\* x509.ParseCertificate and what comes before it.
CertificateOK(ca) == ca \in {"", "certificate"}

RegistryEnabled(f) == f.registry.host # ""
HasAuth(f)         == RegistryEnabled(f) /\ f.registry.user # ""
OIDCEnabled(f)     == f.oidc.issuer # "" /\ f.oidc.client # ""
DNSEnabled(f)      == f.dns.domains # {}

RegistryOK(f) ==
  IF RegistryEnabled(f)
  THEN /\ f.registry.host # "with blanks"
       /\ CertificateOK(f.registry.ca)
       /\ (f.registry.user = "") = (f.registry.password = "")
  ELSE {f.registry.ca, f.registry.user, f.registry.password} = {""}

OIDCOK(f) ==
  IF OIDCEnabled(f)
  THEN f.oidc.issuer = "https" /\ CertificateOK(f.oidc.ca)
  ELSE {f.oidc.issuer, f.oidc.client, f.oidc.ca, f.oidc.group} = {""}

GitOpsOK(f) ==
  IF f.gitops.on
  THEN /\ f.gitops.url \in {"https", "http", "ssh"}
       /\ f.gitops.url = "ssh" => f.gitops.token = ""
       /\ CertificateOK(f.gitops.ca)
  ELSE {f.gitops.url, f.gitops.token, f.gitops.ca} = {""}

\* CoreDNS forwards to addresses, and cluster.local is Kubernetes' own.
DNSOK(f) ==
  IF DNSEnabled(f)
  THEN /\ f.dns.servers # {} /\ f.dns.servers \subseteq {"address"}
       /\ f.dns.domains \subseteq {"lan", "corp"}
  ELSE f.dns.servers = {}

SectionsOK(f) ==
  RegistryOK(f) /\ OIDCOK(f) /\ GitOpsOK(f) /\ DNSOK(f) /\ CertificateOK(f.internalCA)

\* parseClusterForm; templates are the rows of the form's connection.
FormParses(f, templates) ==
  /\ f.name # ""
  /\ f.metallb => f.pool # ""
  /\ SectionsOK(f)
  /\ f.template \in templates

\* Accepted by parseClusterForm and blockingIPPlanError.
FormAccepted(f, templates, answers) ==
  FormParses(f, templates) /\ PlanErrors(f.plan, answers) = {}

\* Mutant of Carried: the page has no field for the internal CA.
CarriedWithoutCA(f) == [f EXCEPT !.internalCA = ""]

\* The hidden fields of cluster_preview.html: a section that is not enabled
\* is not carried.
Carried(f) ==
  [f EXCEPT
     !.pool     = IF f.metallb THEN @ ELSE "",
     !.registry = IF RegistryEnabled(f)
                  THEN [@ EXCEPT !.password = IF f.registry.user = "" THEN "" ELSE f.registry.password]
                  ELSE [host |-> "", ca |-> "", user |-> "", password |-> ""],
     !.oidc     = IF OIDCEnabled(f) THEN @
                  ELSE [issuer |-> "", client |-> "", ca |-> "", group |-> ""],
     !.gitops   = IF f.gitops.on THEN @
                  ELSE [on |-> FALSE, url |-> "", token |-> "", ca |-> ""],
     !.dns      = IF DNSEnabled(f) THEN @ ELSE [domains |-> {}, servers |-> {}]]

-----------------------------------------------------------------------------
(* What is remembered of applied forms, for the next one to begin with *)

Or(new, old) == IF new = "" THEN old ELSE new

\* Mutant of Merged: the registry's user is overwritten by none.
MergedBlankUser(old, f) ==
  [old EXCEPT
     !.registry = [k \in DOMAIN @ |-> IF k = "user" THEN f.registry[k] ELSE Or(f.registry[k], @[k])]]

\* saveClusterDefaults, field by field: what a form leaves empty is not forgotten.
Merged(old, f) ==
  [registry   |-> [k \in DOMAIN old.registry |-> Or(f.registry[k], old.registry[k])],
   oidc       |-> [k \in DOMAIN old.oidc |-> Or(f.oidc[k], old.oidc[k])],
   gitops     |-> [k \in DOMAIN old.gitops |-> Or(f.gitops[k], old.gitops[k])],
   dns        |-> [k \in DOMAIN old.dns |-> IF f.dns[k] = {} THEN old.dns[k] ELSE f.dns[k]],
   internalCA |-> Or(f.internalCA, old.internalCA)]

\* A memory a new form may begin with.
MemoryOK(m) ==
  RegistryOK(m) /\ OIDCOK(m) /\ DNSOK(m) /\ CertificateOK(m.internalCA)

-----------------------------------------------------------------------------
(* ApplySpec and AddonSteps *)

When(chosen, step) == IF chosen THEN <<step>> ELSE << >>

AccessSteps(f) ==
  When(f.internalCA # "", "publishCA") \o When(HasAuth(f), "pullSecret")
    \o When(f.oidc.group # "", "oidcGroup")

AddonSteps(f) ==
  When(f.metrics, "metrics") \o When(f.istio, "istio") \o When(f.metallb, "metallb")
    \o When(f.gitops.on, "gitops")

\* Mutant of JobSteps: private DNS comes last.
JobStepsDNSLast(f) ==
  <<"credentials", "manifest", "cni", "nodes">> \o AccessSteps(f) \o AddonSteps(f)
    \o When(DNSEnabled(f), "dns")

JobSteps(f) ==
  <<"credentials", "manifest", "cni", "nodes">>
    \o When(DNSEnabled(f), "dns") \o AccessSteps(f) \o AddonSteps(f)

\* Steps on the workload cluster start with waitForWorkloadKubeconfig.
NeedsWorkload(f, step) ==
  step \notin {"credentials", "manifest"} /\ (step = "cni" => f.cni = "cilium")

\* The commands of each step, one after the other; one that fails ends it.
CNICommands(f)  == When(f.cni = "cilium", "cilium") \o When(f.cni = "calico", "calico")
DNSCommands     == <<"patch corefile", "restart coredns">>
CACommands      == <<"publish CA">>
PullCommands    == <<"pull secret", "service account">>
GroupCommands   == <<"group binding">>
MetricsCommands == <<"metrics-server", "insecure kubelets">>
IstioCommands   == <<"istio">>
MetalLBCommands == <<"metallb", "metallb available", "pool">>

GitSecret(f) == When(f.gitops.token # "" \/ f.gitops.ca # "", "git secret")
GitSource    == <<"source", "fetched">>
GitOpsCommands(f) == <<"flux", "flux available">> \o GitSecret(f) \o GitSource

Commands(f, step) ==
  [credentials |-> <<"credentials">>, manifest |-> <<"manifest">>,
   cni |-> CNICommands(f), nodes |-> <<"count nodes">>, dns |-> DNSCommands,
   publishCA |-> CACommands, pullSecret |-> PullCommands, oidcGroup |-> GroupCommands,
   metrics |-> MetricsCommands, istio |-> IstioCommands, metallb |-> MetalLBCommands,
   gitops |-> GitOpsCommands(f)][step]
=============================================================================
