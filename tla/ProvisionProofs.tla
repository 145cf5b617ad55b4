--------------------------- MODULE ProvisionProofs ---------------------------
(***************************************************************************)
(* Proofs about Provision, for forms and network plans of any values,      *)
(* addresses of any width, and Corefiles and rendered manifests of any     *)
(* length: an accepted plan fits; an accepted form is carried to the apply *)
(* whole but for the pool of a MetalLB nobody asked for, and remembering   *)
(* it keeps a memory that a new form may begin with; the job goes through  *)
(* its steps in their order, private DNS before Flux; and what Generate    *)
(* makes of a rendered manifest boots and trusts what it has to.           *)
(***************************************************************************)
EXTENDS Provision, CorefileProofs, FiniteSetTheorems

-----------------------------------------------------------------------------
(* The network plan *)

(***************************************************************************)
(* A subnet has a positive number of addresses: 2^n counts the subsets of  *)
(* 1 .. n.                                                                 *)
(***************************************************************************)
LEMMA BlockPositive ==
  ASSUME NEW p \in 1 .. Bits - 2 PROVE Block(p) \in Nat \ {0}
<1> DEFINE n == Bits - p
           S == 1 .. n
<1>1. n \in Nat
  BY BitsAssumption
<1>2. IsFiniteSet(S) /\ Cardinality(S) = n
  BY <1>1, FS_Interval
<1>3. IsFiniteSet(SUBSET S) /\ Cardinality(SUBSET S) = 2 ^ n
  BY <1>2, FS_SUBSET
<1>4. 2 ^ n \in Nat
  BY <1>3, FS_CardinalityType
<1>5. 2 ^ n # 0
  BY <1>3, FS_EmptySet
<1> QED
  BY <1>4, <1>5 DEF Block

(***************************************************************************)
(* A subnet is an interval of integers.                                    *)
(***************************************************************************)
LEMMA SubnetInterval ==
  ASSUME NEW g \in IPs, NEW p \in 1 .. Bits - 2, NEW a \in Subnet(g, p), NEW b \in Subnet(g, p)
  PROVE  a .. b \subseteq Subnet(g, p)
<1>1. g.number \in Nat /\ Block(p) \in Nat \ {0}
  BY BlockPositive DEF IPs
<1>2. SubnetStart(g, p) \in Int
  BY <1>1 DEF SubnetStart
<1> QED
  BY <1>1, <1>2 DEF Subnet

(***************************************************************************)
(* A plan without errors means what its checks promise (ipplan.Validate).  *)
(***************************************************************************)
LEMMA FaultlessPlanFits ==
  ASSUME NEW plan \in Plans, NEW answers \in BOOLEAN, PlanErrors(plan, answers) = {}
  PROVE  PlanFits(plan) /\ ~answers
<1> DEFINE g == plan.gateway
           p == plan.prefix
           range == plan.first.number .. plan.last.number
<1> USE DEF Plans, IPs
<1>1. IsIP(g) /\ PrefixOK(p)
  BY DEF PlanErrors
<1>2. /\ plan.endpoint \in IPs /\ IsIP(plan.endpoint)
      /\ Contains(g, p, plan.endpoint)
  BY <1>1 DEF PlanErrors
<1>3. /\ RangeParses(plan.first, plan.last)
      /\ Contains(g, p, plan.first) /\ Contains(g, p, plan.last)
      /\ ~InRange(g, plan.first, plan.last)
  BY <1>1 DEF PlanErrors
<1>4. plan.machines > 0 => RangeSize(plan.first, plan.last) >= plan.machines
  BY DEF PlanErrors, RangeSize
<1>5. ~InRange(plan.endpoint, plan.first, plan.last)
  BY <1>3 DEF PlanErrors
<1>6. g.kind = "v4" /\ plan.endpoint.kind = "v4"
  BY <1>2, <1>3 DEF Contains, RangeParses
<1>7. {plan.endpoint.number, plan.first.number, plan.last.number} \subseteq Subnet(g, p)
  BY <1>2, <1>3, <1>6 DEF Contains
<1>8. range \subseteq Subnet(g, p)
  BY <1>1, <1>7, SubnetInterval DEF PrefixOK
<1>9. plan.endpoint.number \notin range /\ g.number \notin range
  BY <1>3, <1>5 DEF InRange
<1>10. plan.machines <= plan.last.number - plan.first.number + 1
  BY <1>3, <1>4 DEF RangeParses, RangeSize
<1>11. ~answers
  BY DEF PlanErrors
<1> QED
  BY <1>6, <1>7, <1>8, <1>9, <1>10, <1>11 DEF PlanFits

(***************************************************************************)
(* ipplan.Validate neither refuses more nor lets more through than its     *)
(* checks promise: it finds no error in exactly the plans that fit, whose  *)
(* prefix, range and DNS servers can be read, and whose endpoint does not  *)
(* answer.  An endpoint that is the gateway is therefore refused when it   *)
(* answers, and passes when it does not.                                   *)
(***************************************************************************)
THEOREM ValidateIsExact ==
  \A plan \in Plans, answers \in BOOLEAN :
    PlanErrors(plan, answers) = {} <=>
      /\ PlanFits(plan) /\ ~answers
      /\ PrefixOK(plan.prefix) /\ RangeParses(plan.first, plan.last)
      /\ \A d \in plan.dns : IsIP(d)
<1> USE DEF Plans, IPs
<1>1. ASSUME NEW plan \in Plans, NEW answers \in BOOLEAN, PlanErrors(plan, answers) = {}
      PROVE  PrefixOK(plan.prefix) /\ RangeParses(plan.first, plan.last) /\ \A d \in plan.dns : IsIP(d)
  BY <1>1 DEF PlanErrors
<1>2. ASSUME NEW plan \in Plans, NEW answers \in BOOLEAN, ~answers, PlanFits(plan),
             PrefixOK(plan.prefix), RangeParses(plan.first, plan.last),
             \A d \in plan.dns : IsIP(d)
      PROVE  PlanErrors(plan, answers) = {}
  <2> DEFINE g == plan.gateway
             p == plan.prefix
             range == plan.first.number .. plan.last.number
  <2>1. g.kind = "v4" /\ plan.endpoint.kind = "v4"
    BY <1>2 DEF PlanFits
  <2>2. /\ plan.first.kind = "v4" /\ plan.last.kind = "v4"
        /\ plan.first.number \in Nat /\ plan.last.number \in Nat
        /\ plan.first.number <= plan.last.number
    BY <1>2 DEF RangeParses
  <2>3. plan.first.number \in range /\ plan.last.number \in range
    BY <2>2
  <2>4. {plan.endpoint.number, plan.first.number, plan.last.number} \subseteq Subnet(g, p)
    BY <1>2, <2>3 DEF PlanFits
  <2>5. Contains(g, p, plan.endpoint) /\ Contains(g, p, plan.first) /\ Contains(g, p, plan.last)
    BY <2>1, <2>2, <2>4 DEF Contains
  <2>6. ~InRange(plan.endpoint, plan.first, plan.last) /\ ~InRange(g, plan.first, plan.last)
    BY <1>2, <2>2 DEF PlanFits, InRange
  <2>7. ~(plan.machines > 0 /\ RangeSize(plan.first, plan.last) < plan.machines)
    BY <1>2, <2>2 DEF PlanFits, RangeSize
  <2>8. IsIP(g) /\ IsIP(plan.endpoint)
    BY <2>1 DEF IsIP
  <2> QED
    BY <1>2, <2>5, <2>6, <2>7, <2>8 DEF PlanErrors
<1> QED
  BY <1>1, <1>2, FaultlessPlanFits

-----------------------------------------------------------------------------
(* The form *)

SectionsTyped(f) ==
  /\ f.registry \in Registries /\ f.oidc \in OIDCs /\ f.gitops \in GitSections
  /\ f.dns \in DNSSections /\ f.internalCA \in STRING /\ f.plan \in Plans

(***************************************************************************)
(* Of an accepted form the preview page carries everything but a pool      *)
(* without MetalLB: the sections it leaves out are empty.                  *)
(***************************************************************************)
LEMMA CarriedWhole ==
  ASSUME NEW f \in FormRecords, SectionsOK(f)
  PROVE  Carried(f) = [f EXCEPT !.pool = IF f.metallb THEN f.pool ELSE ""]
<1>1. /\ f.registry \in Registries /\ f.oidc \in OIDCs /\ f.gitops \in GitSections
      /\ f.dns \in DNSSections
  BY DEF FormRecords
<1>2. RegistryEnabled(f) =>
        [f.registry EXCEPT !.password = IF f.registry.user = "" THEN "" ELSE f.registry.password]
          = f.registry
  BY <1>1 DEF Registries, SectionsOK, RegistryOK
<1>3. ~RegistryEnabled(f) =>
        f.registry = [host |-> "", ca |-> "", user |-> "", password |-> ""]
  <2> SUFFICES ASSUME ~RegistryEnabled(f)
               PROVE  f.registry = [host |-> "", ca |-> "", user |-> "", password |-> ""]
    OBVIOUS
  <2>1. f.registry.host = "" /\ {f.registry.ca, f.registry.user, f.registry.password} = {""}
    BY DEF RegistryEnabled, SectionsOK, RegistryOK
  <2>2. f.registry.ca = "" /\ f.registry.user = "" /\ f.registry.password = ""
    BY <2>1
  <2> QED
    BY <1>1, <2>1, <2>2 DEF Registries
<1>4. ~OIDCEnabled(f) => f.oidc = [issuer |-> "", client |-> "", ca |-> "", group |-> ""]
  <2> SUFFICES ASSUME ~OIDCEnabled(f)
               PROVE  f.oidc = [issuer |-> "", client |-> "", ca |-> "", group |-> ""]
    OBVIOUS
  <2>1. {f.oidc.issuer, f.oidc.client, f.oidc.ca, f.oidc.group} = {""}
    BY DEF SectionsOK, OIDCOK
  <2>2. f.oidc.issuer = "" /\ f.oidc.client = "" /\ f.oidc.ca = "" /\ f.oidc.group = ""
    BY <2>1
  <2> QED
    BY <1>1, <2>2 DEF OIDCs
<1>5. ~f.gitops.on => f.gitops = [on |-> FALSE, url |-> "", token |-> "", ca |-> ""]
  <2> SUFFICES ASSUME ~f.gitops.on
               PROVE  f.gitops = [on |-> FALSE, url |-> "", token |-> "", ca |-> ""]
    OBVIOUS
  <2>1. {f.gitops.url, f.gitops.token, f.gitops.ca} = {""}
    BY DEF SectionsOK, GitOpsOK
  <2>2. f.gitops.url = "" /\ f.gitops.token = "" /\ f.gitops.ca = "" /\ f.gitops.on = FALSE
    BY <1>1, <2>1 DEF GitSections
  <2> QED
    BY <1>1, <2>2 DEF GitSections
<1>6. ~DNSEnabled(f) => f.dns = [domains |-> {}, servers |-> {}]
  BY <1>1 DEF DNSSections, SectionsOK, DNSOK, DNSEnabled
<1> DEFINE R == IF RegistryEnabled(f)
                THEN [f.registry EXCEPT
                        !.password = IF f.registry.user = "" THEN "" ELSE f.registry.password]
                ELSE [host |-> "", ca |-> "", user |-> "", password |-> ""]
           O == IF OIDCEnabled(f) THEN f.oidc
                ELSE [issuer |-> "", client |-> "", ca |-> "", group |-> ""]
           G == IF f.gitops.on THEN f.gitops
                ELSE [on |-> FALSE, url |-> "", token |-> "", ca |-> ""]
           D == IF DNSEnabled(f) THEN f.dns ELSE [domains |-> {}, servers |-> {}]
<1>7. R = f.registry /\ O = f.oidc /\ G = f.gitops /\ D = f.dns
  BY <1>2, <1>3, <1>4, <1>5, <1>6
<1>9. Carried(f) =
        [f EXCEPT !.pool = IF f.metallb THEN f.pool ELSE "", !.registry = R,
                  !.oidc = O, !.gitops = G, !.dns = D]
  BY DEF Carried
<1>8. "registry" \in DOMAIN f /\ "oidc" \in DOMAIN f /\ "gitops" \in DOMAIN f
        /\ "dns" \in DOMAIN f /\ f = [k \in DOMAIN f |-> f[k]]
  BY DEF FormRecords
<1> QED
  BY <1>7, <1>8, <1>9

(***************************************************************************)
(* So the job that the apply starts is the one of the form that was shown. *)
(***************************************************************************)
LEMMA CarriedMeansTheSame ==
  ASSUME NEW f \in FormRecords, SectionsOK(f)
  PROVE  /\ SectionsTyped(Carried(f)) /\ SectionsOK(Carried(f))
         /\ JobSteps(Carried(f)) = JobSteps(f)
         /\ \A s : Commands(Carried(f), s) = Commands(f, s)
         /\ TrustedCAs(Carried(f)) = TrustedCAs(f)
         /\ Carried(f).plan = f.plan
<1> DEFINE c == Carried(f)
<1>1. c = [f EXCEPT !.pool = IF f.metallb THEN f.pool ELSE ""]
  BY CarriedWhole
<1>2. /\ c.registry = f.registry /\ c.oidc = f.oidc /\ c.gitops = f.gitops /\ c.dns = f.dns
      /\ c.internalCA = f.internalCA /\ c.plan = f.plan /\ c.cni = f.cni
      /\ c.metrics = f.metrics /\ c.istio = f.istio /\ c.metallb = f.metallb
  BY <1>1 DEF FormRecords
<1> HIDE DEF c
<1>3. SectionsOK(c)
  BY <1>2 DEF SectionsOK, RegistryOK, OIDCOK, GitOpsOK, DNSOK, RegistryEnabled, OIDCEnabled,
              DNSEnabled
<1>4. AccessSteps(c) = AccessSteps(f) /\ AddonSteps(c) = AddonSteps(f)
  BY <1>2 DEF AccessSteps, AddonSteps, HasAuth, RegistryEnabled
<1>5. JobSteps(c) = JobSteps(f)
  BY <1>2, <1>4 DEF JobSteps, DNSEnabled
<1>6. \A s : Commands(c, s) = Commands(f, s)
  BY <1>2 DEF Commands, CNICommands, GitOpsCommands, GitSecret
<1>7. TrustedCAs(c) = TrustedCAs(f)
  BY <1>2 DEF TrustedCAs, RegistryEnabled
<1>8. SectionsTyped(c)
  BY <1>2 DEF SectionsTyped, FormRecords
<1> QED
  BY <1>2, <1>3, <1>5, <1>6, <1>7, <1>8 DEF c

(***************************************************************************)
(* Remembering an accepted form field by field keeps the sections in order *)
(* (saveClusterDefaults).                                                  *)
(***************************************************************************)
LEMMA MergedInOrder ==
  ASSUME NEW m \in MemoryRecords, MemoryOK(m), NEW f, SectionsTyped(f), SectionsOK(f)
  PROVE  Merged(m, f) \in MemoryRecords /\ MemoryOK(Merged(m, f))
<1> DEFINE n == Merged(m, f)
<1>0. /\ m.registry \in Registries /\ m.oidc \in OIDCs /\ m.dns \in DNSSections
      /\ m.gitops \in [url : STRING, token : STRING, ca : STRING] /\ m.internalCA \in STRING
      /\ f.registry \in Registries /\ f.oidc \in OIDCs /\ f.dns \in DNSSections
      /\ f.gitops \in GitSections /\ f.internalCA \in STRING
  BY DEF MemoryRecords, SectionsTyped
<1>1. \A k \in {"host", "ca", "user", "password"} :
        n.registry[k] = Or(f.registry[k], m.registry[k])
  BY <1>0 DEF Merged, Registries
<1>2. \A k \in {"issuer", "client", "ca", "group"} : n.oidc[k] = Or(f.oidc[k], m.oidc[k])
  BY <1>0 DEF Merged, OIDCs
<1>3. \A k \in {"domains", "servers"} :
        n.dns[k] = IF f.dns[k] = {} THEN m.dns[k] ELSE f.dns[k]
  BY <1>0 DEF Merged, DNSSections
<1>4. n.internalCA = Or(f.internalCA, m.internalCA)
  BY DEF Merged
<1>5. n \in MemoryRecords
  <2>1. n.registry \in Registries
    BY <1>0 DEF Merged, Registries, Or
  <2>2. n.oidc \in OIDCs
    BY <1>0 DEF Merged, OIDCs, Or
  <2>3. n.dns \in DNSSections
    BY <1>0 DEF Merged, DNSSections
  <2>4. n.gitops \in [url : STRING, token : STRING, ca : STRING]
    BY <1>0 DEF Merged, GitSections, Or
  <2>5. n.internalCA \in STRING
    BY <1>0, <1>4 DEF Or
  <2> QED
    BY <2>1, <2>2, <2>3, <2>4, <2>5 DEF Merged, MemoryRecords
<1> HIDE DEF n
<1>6. RegistryOK(n)
  <2>1. /\ n.registry.host = Or(f.registry.host, m.registry.host)
        /\ n.registry.ca = Or(f.registry.ca, m.registry.ca)
        /\ n.registry.user = Or(f.registry.user, m.registry.user)
        /\ n.registry.password = Or(f.registry.password, m.registry.password)
    BY <1>1
  <2>2. CASE f.registry.host = ""
    <3>1. {f.registry.ca, f.registry.user, f.registry.password} = {""}
      BY <2>2 DEF SectionsOK, RegistryOK, RegistryEnabled
    <3>2. /\ n.registry.host = m.registry.host /\ n.registry.ca = m.registry.ca
          /\ n.registry.user = m.registry.user /\ n.registry.password = m.registry.password
      BY <2>1, <2>2, <3>1 DEF Or
    <3> QED
      BY <3>2 DEF MemoryOK, RegistryOK, RegistryEnabled
  <2>3. CASE f.registry.host # ""
    <3>1. /\ f.registry.host # "with blanks" /\ CertificateOK(f.registry.ca)
          /\ (f.registry.user = "") = (f.registry.password = "")
      BY <2>3 DEF SectionsOK, RegistryOK, RegistryEnabled
    <3>2. CertificateOK(m.registry.ca) /\ (m.registry.user = "") = (m.registry.password = "")
      BY DEF MemoryOK, RegistryOK, CertificateOK
    <3>3. n.registry.host = f.registry.host /\ CertificateOK(n.registry.ca)
      BY <2>1, <2>3, <3>1, <3>2 DEF Or, CertificateOK
    <3>4. (n.registry.user = "") = (n.registry.password = "")
      BY <2>1, <3>1, <3>2 DEF Or
    <3> QED
      BY <2>3, <3>1, <3>3, <3>4 DEF RegistryOK, RegistryEnabled
  <2> QED
    BY <2>2, <2>3
<1>7. OIDCOK(n)
  <2>1. /\ n.oidc.issuer = Or(f.oidc.issuer, m.oidc.issuer)
        /\ n.oidc.client = Or(f.oidc.client, m.oidc.client)
        /\ n.oidc.ca = Or(f.oidc.ca, m.oidc.ca)
        /\ n.oidc.group = Or(f.oidc.group, m.oidc.group)
    BY <1>2
  <2>2. CASE OIDCEnabled(f)
    <3>1. f.oidc.issuer = "https" /\ CertificateOK(f.oidc.ca) /\ f.oidc.client # ""
      BY <2>2 DEF SectionsOK, OIDCOK, OIDCEnabled
    <3>2. CertificateOK(m.oidc.ca)
      BY DEF MemoryOK, OIDCOK, CertificateOK
    <3>3. n.oidc.issuer = "https" /\ n.oidc.client # "" /\ CertificateOK(n.oidc.ca)
      BY <2>1, <3>1, <3>2 DEF Or, CertificateOK
    <3> QED
      BY <3>3 DEF OIDCOK, OIDCEnabled
  <2>3. CASE ~OIDCEnabled(f)
    <3>1. {f.oidc.issuer, f.oidc.client, f.oidc.ca, f.oidc.group} = {""}
      BY <2>3 DEF SectionsOK, OIDCOK
    <3>2. /\ n.oidc.issuer = m.oidc.issuer /\ n.oidc.client = m.oidc.client
          /\ n.oidc.ca = m.oidc.ca /\ n.oidc.group = m.oidc.group
      BY <2>1, <3>1 DEF Or
    <3> QED
      BY <3>2 DEF MemoryOK, OIDCOK, OIDCEnabled
  <2> QED
    BY <2>2, <2>3
<1>8. DNSOK(n)
  <2>1. /\ n.dns.domains = IF f.dns.domains = {} THEN m.dns.domains ELSE f.dns.domains
        /\ n.dns.servers = IF f.dns.servers = {} THEN m.dns.servers ELSE f.dns.servers
    BY <1>3
  <2> QED
    BY <2>1 DEF SectionsOK, MemoryOK, DNSOK, DNSEnabled
<1>9. CertificateOK(n.internalCA)
  BY <1>4 DEF Or, SectionsOK, MemoryOK, CertificateOK
<1> QED
  BY <1>5, <1>6, <1>7, <1>8, <1>9 DEF n, MemoryOK

-----------------------------------------------------------------------------
(* The invariant of request and job *)

\* What ipplan.Validate found no error in.
PlanChecked(f) == PlanFits(f.plan) /\ f.plan.endpoint \notin Answering

FormCarried ==
  /\ shown \in Forms
  /\ place = "form" => form = shown
  /\ place = "previewed" => form = shown /\ SectionsOK(shown) /\ PlanChecked(form)
  /\ place \in JobPlaces => form = Carried(shown) /\ SectionsOK(shown) /\ PlanChecked(form)

MemoryKept == remembered \in MemoryRecords /\ MemoryOK(remembered)

ProvisionIInv == FormCarried /\ MemoryKept

(***************************************************************************)
(* Once the job is there nothing changes what was posted, and the job      *)
(* stays a job until it ends.                                              *)
(***************************************************************************)
LEMMA JobKeepsPage ==
  ASSUME JobRuns \/ Stop \/ Die \/ NodesChange \/ Reload
  PROVE  /\ UNCHANGED <<form, shown, manifest, templates, remembered>>
         /\ place \in JobPlaces /\ place' \in JobPlaces \cup Ended
<1> USE DEF pageVars, JobPlaces, Ended
<1>1. CASE FindSecret \/ Probe \/ PollFails
  BY <1>1 DEF FindSecret, Probe, PollFails, Polling, Running
<1>2. ASSUME NEW s, Enter(s) PROVE place' \in JobPlaces \cup Ended
  BY <1>2 DEF Enter
<1>3. ASSUME Proceed, place = "commands" PROVE place' \in JobPlaces \cup Ended
  BY <1>2, <1>3 DEF Proceed
<1>4. CASE SkipStep
  BY <1>2, <1>4 DEF SkipStep
<1>5. CASE CountNodes \/ NodesChange \/ Reload
  BY <1>5 DEF CountNodes, NodesChange, Reload, Running
<1>6. CASE NodesReady \/ RestartCoreDNS \/ RunCommand
  BY <1>3, <1>6 DEF NodesReady, RestartCoreDNS, RunCommand, Running
<1>7. CASE PatchCorefile
  BY <1>2, <1>3, <1>7 DEF PatchCorefile, Running
<1>8. CASE Stop \/ Die
  BY <1>8 DEF Stop, Die
<1> QED
  BY <1>1, <1>4, <1>5, <1>6, <1>7, <1>8 DEF JobRuns

(***************************************************************************)
(* What the operator does on the page keeps the invariant.                 *)
(***************************************************************************)
LEMMA PageStep ==
  ASSUME ProvisionIInv, NEW answers \in BOOLEAN
  PROVE  /\ (\E rendered \in Rendered : Preview(answers, rendered)) => ProvisionIInv'
         /\ Apply(answers) => ProvisionIInv'
<1> USE DEF ProvisionIInv
<1>1. shown \in FormRecords /\ shown.plan \in Plans
  BY FormsAssumption DEF FormCarried, FormRecords
<1>2. ASSUME NEW rendered \in Rendered, Preview(answers, rendered) PROVE ProvisionIInv'
  <2>1. form = shown /\ UNCHANGED <<form, shown, remembered>> /\ place' \in {"previewed", "refused"}
    BY <1>2 DEF Preview, FormCarried
  <2>2. place' = "previewed" => SectionsOK(form) /\ PlanErrors(form.plan, answers) = {}
    BY <1>2 DEF Preview, FormAccepted, FormParses
  <2>3. place' = "previewed" => PlanChecked(form)
    BY <1>1, <1>2, <2>1, <2>2, FaultlessPlanFits DEF Preview, Pinged, PlanChecked
  <2>4. FormCarried'
    BY <2>1, <2>2, <2>3 DEF FormCarried, JobPlaces, PlanChecked
  <2> QED
    BY <2>1, <2>4 DEF MemoryKept
<1>3. ASSUME Apply(answers) PROVE ProvisionIInv'
  <2>1. /\ place = "previewed" /\ SectionsOK(shown) /\ form' = Carried(shown) /\ shown' = shown
        /\ place' \in {"commands", "refused"}
    BY <1>3 DEF Apply, FormCarried
  <2>2. SectionsTyped(form') /\ SectionsOK(form') /\ form'.plan = shown.plan
    BY <1>1, <2>1, CarriedMeansTheSame
  <2>3. place' = "commands" => PlanChecked(form')
    <3>1. place' = "commands" => PlanErrors(form'.plan, answers) = {}
      BY <1>3 DEF Apply, FormAccepted
    <3>2. form'.plan = form.plan
      BY <2>1, <2>2 DEF FormCarried
    <3> QED
      BY <1>1, <1>3, <2>2, <3>1, <3>2, FaultlessPlanFits DEF Apply, Pinged, PlanChecked
  <2>4. FormCarried'
    BY <2>1, <2>3 DEF FormCarried, JobPlaces, PlanChecked
  <2>5. remembered' \in {Merged(remembered, form'), Merged(Nothing, form'), remembered}
    BY <1>3 DEF Apply, Remember
  <2>6. Nothing \in MemoryRecords /\ MemoryOK(Nothing)
    BY FormsAssumption
  <2>7. MemoryKept'
    BY <2>2, <2>5, <2>6, MergedInOrder DEF MemoryKept
  <2> QED
    BY <2>4, <2>7
<1> QED
  BY <1>2, <1>3

(***************************************************************************)
(* Every step keeps it.                                                    *)
(***************************************************************************)
LEMMA ProvisionStep == ProvisionIInv /\ [ProvisionNext]_provisionVars => ProvisionIInv'
<1> SUFFICES ASSUME ProvisionIInv, [ProvisionNext]_provisionVars PROVE ProvisionIInv'
  OBVIOUS
<1>1. CASE \E answers \in BOOLEAN : (\E rendered \in Rendered : Preview(answers, rendered))
                                      \/ Apply(answers)
  BY <1>1, PageStep
<1>2. CASE RemoveTemplate
  BY <1>2 DEF RemoveTemplate, ProvisionIInv, FormCarried, MemoryKept, PlanChecked
<1>3. CASE Forget
  <2>1. Nothing \in MemoryRecords /\ MemoryOK(Nothing)
    BY FormsAssumption
  <2> QED
    BY <1>3, <2>1 DEF Forget, ProvisionIInv, FormCarried, MemoryKept, PlanChecked
<1>4. CASE JobRuns \/ Stop \/ Die \/ NodesChange \/ Reload
  <2>1. /\ UNCHANGED <<form, shown, remembered>>
        /\ place \in JobPlaces /\ place' \in JobPlaces \cup Ended
    BY <1>4, JobKeepsPage
  <2>2. place' # "form" /\ place' # "previewed"
    BY <2>1 DEF JobPlaces, Ended
  <2> QED
    BY <2>1, <2>2 DEF ProvisionIInv, FormCarried, MemoryKept, PlanChecked
<1>5. CASE UNCHANGED provisionVars
  BY <1>5 DEF provisionVars, pageVars, ProvisionIInv, FormCarried, MemoryKept, PlanChecked
<1> QED
  BY <1>1, <1>2, <1>3, <1>4, <1>5 DEF ProvisionNext

-----------------------------------------------------------------------------
(***************************************************************************)
(* What was posted is carried to the job, and what is remembered is in     *)
(* order, for any form and any addresses.                                  *)
(***************************************************************************)
THEOREM ProvisionInvariance == ProvisionSpec => []ProvisionIInv
<1>1. ProvisionInit => ProvisionIInv
  BY FormsAssumption
     DEF ProvisionInit, ProvisionIInv, FormCarried, MemoryKept, JobPlaces
<1> QED
  BY <1>1, ProvisionStep, PTL DEF ProvisionSpec

(***************************************************************************)
(* A plan that was let through fits its subnet, its machines get neither   *)
(* the gateway's nor the endpoint's address, and nobody answers at the     *)
(* endpoint, from the preview to the end of the job (ipplan.Validate).     *)
(***************************************************************************)
THEOREM PlansFit == ProvisionSpec => []AcceptedPlanFits
<1>1. ProvisionIInv => AcceptedPlanFits
  BY DEF ProvisionIInv, FormCarried, AcceptedPlanFits, PlanChecked
<1> QED
  BY <1>1, ProvisionInvariance, PTL

(***************************************************************************)
(* The apply does what the preview showed: the hidden fields of the page   *)
(* lose nothing that matters (cluster_preview.html).                       *)
(***************************************************************************)
THEOREM PreviewIsKept == ProvisionSpec => []ApplyMatchesPreview
<1>1. ProvisionIInv => ApplyMatchesPreview
  <2> SUFFICES ASSUME ProvisionIInv, place \in JobPlaces
               PROVE  /\ Steps = JobSteps(shown)
                      /\ \A s : Commands(form, s) = Commands(shown, s)
                      /\ TrustedCAs(form) = TrustedCAs(shown) /\ form.plan = shown.plan
    BY DEF ApplyMatchesPreview
  <2>1. shown \in FormRecords /\ SectionsOK(shown) /\ form = Carried(shown)
    BY FormsAssumption DEF ProvisionIInv, FormCarried
  <2> QED
    BY <2>1, CarriedMeansTheSame DEF Steps
<1> QED
  BY <1>1, ProvisionInvariance, PTL

(***************************************************************************)
(* A form that begins with what is remembered is not refused for it        *)
(* (saveClusterDefaults), if the memory was in order to begin with.        *)
(***************************************************************************)
THEOREM MemoryStaysUsable == ProvisionSpec => []PrefilledIsAccepted
<1>1. ProvisionIInv => PrefilledIsAccepted
  BY DEF ProvisionIInv, MemoryKept, PrefilledIsAccepted
<1> QED
  BY <1>1, ProvisionInvariance, PTL

(***************************************************************************)
(* The workload cluster's kubeconfig is on disk only while a step uses it, *)
(* or after the process died (writeTempKubeconfig's cleanup).              *)
(***************************************************************************)
THEOREM CredentialsGo == ProvisionSpec => []NoCredentialsLeft
<1> USE DEF NoCredentialsLeft
<1>1. ProvisionInit => NoCredentialsLeft
  BY DEF ProvisionInit
<1>2. NoCredentialsLeft /\ [ProvisionNext]_provisionVars => NoCredentialsLeft'
  <2> SUFFICES ASSUME NoCredentialsLeft, [ProvisionNext]_provisionVars PROVE NoCredentialsLeft'
    OBVIOUS
  <2>1. ASSUME NEW answers \in BOOLEAN,
               (\E rendered \in Rendered : Preview(answers, rendered)) \/ Apply(answers)
        PROVE  NoCredentialsLeft'
    BY <2>1 DEF Preview, Apply
  <2>2. CASE RemoveTemplate \/ Forget \/ UNCHANGED provisionVars
    BY <2>2 DEF RemoveTemplate, Forget, provisionVars
  <2>3. CASE FindSecret \/ Probe \/ PollFails
    BY <2>3 DEF FindSecret, Probe, PollFails
  <2>4. ASSUME NEW s, Enter(s) PROVE NoCredentialsLeft'
    BY <2>4 DEF Enter
  <2>5. ASSUME Proceed PROVE NoCredentialsLeft'
    BY <2>4, <2>5 DEF Proceed
  <2>6. CASE SkipStep \/ NodesReady \/ PatchCorefile \/ RestartCoreDNS \/ RunCommand
    BY <2>4, <2>5, <2>6 DEF SkipStep, NodesReady, PatchCorefile, RestartCoreDNS, RunCommand
  <2>7. CASE CountNodes \/ NodesChange \/ Reload
    BY <2>7 DEF CountNodes, NodesChange, Reload
  <2>8. CASE Stop \/ Die
    BY <2>8 DEF Stop, Die
  <2> QED
    BY <2>1, <2>2, <2>3, <2>6, <2>7, <2>8 DEF ProvisionNext, JobRuns
<1> QED
  BY <1>1, <1>2, PTL DEF ProvisionSpec

-----------------------------------------------------------------------------
(* The steps of a job and their commands *)

\* The names of steps, and those of the steps that come after private DNS.
LateSteps == {"publishCA", "pullSecret", "oidcGroup", "metrics", "istio", "metallb", "gitops"}
StepNames == LateSteps \cup {"credentials", "manifest", "cni", "nodes", "dns"}

(***************************************************************************)
(* A step that is planned or not.                                          *)
(***************************************************************************)
LEMMA WhenSequence ==
  ASSUME NEW S, NEW s \in S, NEW chosen
  PROVE  When(chosen, s) \in Seq(S) /\ Len(When(chosen, s)) \in 0 .. 1
<1>1. CASE chosen
  BY <1>1 DEF When
<1>2. CASE ~chosen
  BY <1>2 DEF When
<1> QED
  BY <1>1, <1>2

(***************************************************************************)
(* Elements of a sequence over S.                                          *)
(***************************************************************************)
LEMMA Elements ==
  ASSUME NEW S, NEW s \in Seq(S)
  PROVE  Len(s) \in Nat /\ DOMAIN s = 1 .. Len(s) /\ \A i \in 1 .. Len(s) : s[i] \in S
BY LenProperties, ElementOfSeq

(***************************************************************************)
(* What comes after private DNS.                                           *)
(***************************************************************************)
LEMMA LateStepsLate ==
  ASSUME NEW f PROVE AccessSteps(f) \in Seq(LateSteps) /\ AddonSteps(f) \in Seq(LateSteps)
<1> DEFINE L == LateSteps
<1>0. {"publishCA", "pullSecret", "oidcGroup", "metrics", "istio", "metallb", "gitops"} = L
  BY DEF LateSteps
<1> HIDE DEF L
<1>1. \A s \in L : \A c : When(c, s) \in Seq(L)
  BY WhenSequence
<1>2. \A s, t \in Seq(L) : s \o t \in Seq(L)
  BY ConcatProperties
<1>3. /\ When(f.internalCA # "", "publishCA") \in Seq(L)
      /\ When(HasAuth(f), "pullSecret") \in Seq(L)
      /\ When(f.oidc.group # "", "oidcGroup") \in Seq(L)
      /\ When(f.metrics, "metrics") \in Seq(L) /\ When(f.istio, "istio") \in Seq(L)
      /\ When(f.metallb, "metallb") \in Seq(L) /\ When(f.gitops.on, "gitops") \in Seq(L)
  BY <1>0, <1>1
<1>4. AccessSteps(f) \in Seq(L)
  BY <1>2, <1>3 DEF AccessSteps
<1>5. AddonSteps(f) \in Seq(L)
  BY <1>2, <1>3 DEF AddonSteps
<1> QED
  BY <1>4, <1>5 DEF L

(***************************************************************************)
(* Where the steps of a job are: private DNS is the fifth when there is    *)
(* one, and nothing that needs it comes before (ApplySpec).                *)
(***************************************************************************)
LEMMA StepsInPlace ==
  ASSUME NEW f
  PROVE  /\ Len(JobSteps(f)) \in Nat /\ Len(JobSteps(f)) >= 4
         /\ \A i \in 1 .. Len(JobSteps(f)) :
              /\ JobSteps(f)[i] \in StepNames
              /\ JobSteps(f)[i] = "dns" <=> DNSEnabled(f) /\ i = 5
              /\ JobSteps(f)[i] = "gitops" => i > 4
         /\ DNSEnabled(f) => Len(JobSteps(f)) >= 5 /\ JobSteps(f)[5] = "dns"
<1> DEFINE head  == <<"credentials", "manifest", "cni", "nodes">>
           dns   == When(DNSEnabled(f), "dns")
           late  == AccessSteps(f)
           later == AddonSteps(f)
           first == head \o dns
           most  == first \o late
           N     == StepNames
<1>1. /\ head \in Seq(N) /\ Len(head) = 4 /\ \A i \in 1 .. 4 : head[i] \notin {"dns", "gitops"}
  <2>1. /\ head \in Seq({"credentials", "manifest", "cni", "nodes"})
        /\ Len(head) = 4
    OBVIOUS
  <2>2. head[1] = "credentials" /\ head[2] = "manifest" /\ head[3] = "cni" /\ head[4] = "nodes"
    OBVIOUS
  <2>3. {"credentials", "manifest", "cni", "nodes"} \subseteq N
    BY DEF StepNames
  <2> HIDE DEF head, N
  <2>4. head \in Seq(N)
    BY <2>1, <2>3
  <2>5. \A i \in 1 .. 4 : i \in {1, 2, 3, 4}
    OBVIOUS
  <2>6. \A i \in 1 .. 4 : head[i] \notin {"dns", "gitops"}
    BY <2>2, <2>5
  <2> QED
    BY <2>1, <2>4, <2>6
<1>2. /\ dns \in Seq(N) /\ Len(dns) = (IF DNSEnabled(f) THEN 1 ELSE 0)
      /\ DNSEnabled(f) => dns[1] = "dns"
  <2>1. "dns" \in N
    BY DEF StepNames
  <2>2. dns \in Seq(N)
    BY <2>1, WhenSequence
  <2> QED
    BY <2>2 DEF When
<1>3. late \in Seq(LateSteps) /\ later \in Seq(LateSteps) /\ LateSteps \subseteq N
  BY LateStepsLate DEF StepNames
<1>4. /\ Len(late) \in Nat /\ Len(later) \in Nat
      /\ \A i \in 1 .. Len(late) : late[i] \in LateSteps
      /\ \A i \in 1 .. Len(later) : later[i] \in LateSteps
  BY <1>3, Elements
<1>5. late \in Seq(N) /\ later \in Seq(N)
  BY <1>3
<1>6. JobSteps(f) = most \o later
  BY DEF JobSteps
<1>7. "dns" \notin LateSteps
  BY DEF LateSteps
<1> HIDE DEF head, dns, late, later, N
<1>j. ASSUME NEW s \in Seq(N), NEW t \in Seq(N)
      PROVE  /\ \A i \in 1 .. Len(s) : (s \o t)[i] = s[i]
             /\ \A i \in 1 .. Len(t) : (s \o t)[Len(s) + i] = t[i]
  BY SequencesJoined
<1>8. /\ first \in Seq(N) /\ Len(first) = (IF DNSEnabled(f) THEN 5 ELSE 4)
      /\ \A i \in 1 .. 4 : first[i] \notin {"dns", "gitops"}
      /\ DNSEnabled(f) => first[5] = "dns"
  <2>1. first \in Seq(N) /\ Len(first) = Len(head) + Len(dns)
    BY <1>1, <1>2, SequencesJoined
  <2>2. \A i \in 1 .. Len(head) : first[i] = head[i]
    BY <1>1, <1>2, <1>j
  <2>3. \A i \in 1 .. Len(dns) : first[Len(head) + i] = dns[i]
    BY <1>1, <1>2, <1>j
  <2> HIDE DEF first
  <2>4. DNSEnabled(f) => first[4 + 1] = "dns"
    BY <1>1, <1>2, <2>3
  <2> QED
    BY <1>1, <1>2, <2>1, <2>2, <2>4
<1> HIDE DEF first
<1>9. /\ most \in Seq(N) /\ Len(most) = Len(first) + Len(late)
      /\ \A i \in 1 .. Len(first) : most[i] = first[i]
      /\ \A i \in Len(first) + 1 .. Len(most) : most[i] \in LateSteps
  <2>1. most \in Seq(N) /\ Len(most) = Len(first) + Len(late)
    BY <1>5, <1>8, SequencesJoined
  <2>2. \A i \in 1 .. Len(first) : most[i] = first[i]
    BY <1>5, <1>8, <1>j
  <2>3. \A i \in 1 .. Len(late) : most[Len(first) + i] = late[i]
    BY <1>5, <1>8, <1>j
  <2> HIDE DEF most
  <2>4. ASSUME NEW i \in Len(first) + 1 .. Len(most) PROVE most[i] \in LateSteps
    <3>1. Len(first) \in Nat /\ Len(late) \in Nat /\ Len(most) = Len(first) + Len(late)
      BY <1>4, <1>8, <2>1
    <3>2. i - Len(first) \in 1 .. Len(late) /\ Len(first) + (i - Len(first)) = i
      BY <3>1
    <3> QED
      BY <1>4, <2>3, <3>2
  <2> QED
    BY <2>1, <2>2, <2>4
<1> HIDE DEF most
<1> DEFINE all == most \o later
<1>10. /\ all \in Seq(N) /\ Len(all) = Len(most) + Len(later)
       /\ \A i \in 1 .. Len(most) : all[i] = most[i]
       /\ \A i \in Len(most) + 1 .. Len(all) : all[i] \in LateSteps
  <2>1. all \in Seq(N) /\ Len(all) = Len(most) + Len(later)
    BY <1>5, <1>9, SequencesJoined
  <2>2. \A i \in 1 .. Len(most) : all[i] = most[i]
    BY <1>5, <1>9, <1>j
  <2>3. \A i \in 1 .. Len(later) : all[Len(most) + i] = later[i]
    BY <1>5, <1>9, <1>j
  <2> HIDE DEF all
  <2>0. Len(most) \in Nat
    BY <1>4, <1>8, <1>9
  <2>4. ASSUME NEW i \in Len(most) + 1 .. Len(all) PROVE all[i] \in LateSteps
    <3>1. i - Len(most) \in 1 .. Len(later) /\ Len(most) + (i - Len(most)) = i
      BY <1>4, <2>0, <2>1
    <3> QED
      BY <1>4, <2>3, <3>1
  <2> QED
    BY <2>1, <2>2, <2>4
<1> HIDE DEF all
<1> DEFINE h == IF DNSEnabled(f) THEN 5 ELSE 4
<1>11. /\ Len(all) \in Nat /\ Len(all) >= h
       /\ \A i \in 1 .. h : all[i] = first[i]
       /\ \A i \in h + 1 .. Len(all) : all[i] \in LateSteps
  <2>1. Len(all) \in Nat /\ Len(all) >= h /\ Len(first) = h /\ Len(most) \in Nat /\ Len(most) >= h
    BY <1>4, <1>8, <1>9, <1>10
  <2>2. \A i \in 1 .. h : all[i] = first[i]
    BY <1>9, <1>10, <2>1
  <2>3. ASSUME NEW i \in h + 1 .. Len(all) PROVE all[i] \in LateSteps
    BY <1>9, <1>10, <2>1, <2>3
  <2> QED
    BY <2>1, <2>2, <2>3
<1>12. \A i \in 1 .. Len(all) : all[i] \in N
  BY <1>10, Elements
<1>13. ASSUME NEW i \in 1 .. Len(all)
       PROVE  /\ all[i] = "dns" <=> DNSEnabled(f) /\ i = 5
              /\ all[i] = "gitops" => i > 4
  <2>1. CASE i \in 1 .. 4
    BY <1>8, <1>11, <2>1
  <2>2. CASE DNSEnabled(f) /\ i = 5
    BY <1>8, <1>11, <2>2
  <2>3. CASE i \notin 1 .. 4 /\ ~(DNSEnabled(f) /\ i = 5)
    <3>1. i \in h + 1 .. Len(all) /\ i > 4
      BY <1>11, <2>3
    <3> QED
      BY <1>7, <1>11, <2>3, <3>1
  <2> QED
    BY <2>1, <2>2, <2>3
<1>14. DNSEnabled(f) => Len(all) >= 5 /\ all[5] = "dns"
  BY <1>8, <1>11
<1>15. JobSteps(f) = all
  BY <1>6 DEF all
<1> QED
  BY <1>11, <1>12, <1>13, <1>14, <1>15 DEF N

\* The commands of the steps but private DNS and GitOps, and of GitOps.
PlainCommands ==
  {"credentials", "manifest", "cilium", "calico", "count nodes", "publish CA", "pull secret",
   "service account", "group binding", "metrics-server", "insecure kubelets", "istio",
   "metallb", "metallb available", "pool"}
GitOpsNames == {"flux", "flux available", "git secret", "source", "fetched"}

(***************************************************************************)
(* One, two or three commands.                                             *)
(***************************************************************************)
LEMMA Tuples ==
  ASSUME NEW S, NEW a \in S, NEW b \in S, NEW c \in S
  PROVE  /\ <<a>> \in Seq(S) /\ Len(<<a>>) \in 0 .. 5
         /\ <<a, b>> \in Seq(S) /\ Len(<<a, b>>) \in 0 .. 5
         /\ <<a, b, c>> \in Seq(S) /\ Len(<<a, b, c>>) \in 0 .. 5
OBVIOUS

(***************************************************************************)
(* The commands of such a step.                                            *)
(***************************************************************************)
LEMMA PlainSteps ==
  ASSUME NEW f, NEW s \in StepNames \ {"dns", "gitops"}
  PROVE  Commands(f, s) \in Seq(PlainCommands) /\ Len(Commands(f, s)) \in 0 .. 5
<1> DEFINE P == PlainCommands
<1>1. CASE s = "credentials"
  <2>1. Commands(f, s) = <<"credentials">>
    BY <1>1 DEF Commands
  <2>2. "credentials" \in PlainCommands
    BY DEF PlainCommands
  <2> QED
    BY <2>1, <2>2, Tuples
<1>2. CASE s = "manifest"
  <2>1. Commands(f, s) = <<"manifest">>
    BY <1>2 DEF Commands
  <2>2. "manifest" \in PlainCommands
    BY DEF PlainCommands
  <2> QED
    BY <2>1, <2>2, Tuples
<1>3. CASE s = "nodes"
  <2>1. Commands(f, s) = <<"count nodes">>
    BY <1>3 DEF Commands
  <2>2. "count nodes" \in PlainCommands
    BY DEF PlainCommands
  <2> QED
    BY <2>1, <2>2, Tuples
<1>4. CASE s = "publishCA"
  <2>1. Commands(f, s) = <<"publish CA">>
    BY <1>4 DEF Commands, CACommands
  <2>2. "publish CA" \in PlainCommands
    BY DEF PlainCommands
  <2> QED
    BY <2>1, <2>2, Tuples
<1>5. CASE s = "pullSecret"
  <2>1. Commands(f, s) = <<"pull secret", "service account">>
    BY <1>5 DEF Commands, PullCommands
  <2>2. "pull secret" \in PlainCommands /\ "service account" \in PlainCommands
    BY DEF PlainCommands
  <2> QED
    BY <2>1, <2>2, Tuples
<1>6. CASE s = "oidcGroup"
  <2>1. Commands(f, s) = <<"group binding">>
    BY <1>6 DEF Commands, GroupCommands
  <2>2. "group binding" \in PlainCommands
    BY DEF PlainCommands
  <2> QED
    BY <2>1, <2>2, Tuples
<1>7. CASE s = "metrics"
  <2>1. Commands(f, s) = <<"metrics-server", "insecure kubelets">>
    BY <1>7 DEF Commands, MetricsCommands
  <2>2. "metrics-server" \in PlainCommands /\ "insecure kubelets" \in PlainCommands
    BY DEF PlainCommands
  <2> QED
    BY <2>1, <2>2, Tuples
<1>8. CASE s = "istio"
  <2>1. Commands(f, s) = <<"istio">>
    BY <1>8 DEF Commands, IstioCommands
  <2>2. "istio" \in PlainCommands
    BY DEF PlainCommands
  <2> QED
    BY <2>1, <2>2, Tuples
<1>9. CASE s = "metallb"
  <2>1. Commands(f, s) = <<"metallb", "metallb available", "pool">>
    BY <1>9 DEF Commands, MetalLBCommands
  <2>2. "metallb" \in PlainCommands /\ "metallb available" \in PlainCommands /\ "pool" \in PlainCommands
    BY DEF PlainCommands
  <2> QED
    BY <2>1, <2>2, Tuples
<1>10. CASE s = "cni"
  <2>1. Commands(f, s) = CNICommands(f)
    BY <1>10 DEF Commands
  <2>2. "cilium" \in P /\ "calico" \in P
    BY DEF PlainCommands
  <2> DEFINE a == When(f.cni = "cilium", "cilium")
             b == When(f.cni = "calico", "calico")
  <2> HIDE DEF P
  <2>3. a \in Seq(P) /\ b \in Seq(P) /\ Len(a) \in 0 .. 1 /\ Len(b) \in 0 .. 1
    BY <2>2, WhenSequence
  <2>4. CNICommands(f) = a \o b
    BY DEF CNICommands
  <2> HIDE DEF a, b
  <2>5. a \o b \in Seq(P) /\ Len(a \o b) = Len(a) + Len(b)
    BY <2>3, ConcatProperties
  <2>6. Len(a) + Len(b) \in 0 .. 5
    <3>1. \A m, n \in 0 .. 1 : m + n \in 0 .. 5
      OBVIOUS
    <3> QED
      BY <2>3, <3>1
  <2> QED
    BY <2>1, <2>4, <2>5, <2>6 DEF P
<1> QED
  BY <1>1, <1>2, <1>3, <1>4, <1>5, <1>6, <1>7, <1>8, <1>9, <1>10 DEF StepNames, LateSteps

(***************************************************************************)
(* The commands of GitOps.                                                 *)
(***************************************************************************)
LEMMA GitOpsStep ==
  ASSUME NEW f
  PROVE  /\ Commands(f, "gitops") \in Seq(GitOpsNames)
         /\ Len(Commands(f, "gitops")) \in 0 .. 5
<1> DEFINE flux == <<"flux", "flux available">>
           secret == GitSecret(f)
           source == GitSource
           G == GitOpsNames
<1>1. Commands(f, "gitops") = (flux \o secret) \o source
  BY DEF Commands, GitOpsCommands
<1>2. flux \in Seq(G) /\ Len(flux) = 2 /\ source \in Seq(G) /\ Len(source) = 2
  BY DEF GitSource, GitOpsNames
<1>3. "git secret" \in G
  BY DEF GitOpsNames
<1> HIDE DEF flux, source, G
<1>4. secret \in Seq(G) /\ Len(secret) \in 0 .. 1
  BY <1>3, WhenSequence DEF GitSecret
<1> HIDE DEF secret
<1>5. flux \o secret \in Seq(G) /\ Len(flux \o secret) = Len(flux) + Len(secret)
  BY <1>2, <1>4, ConcatProperties
<1> DEFINE most == flux \o secret
<1> HIDE DEF most
<1>6. most \o source \in Seq(G) /\ Len(most \o source) = Len(most) + Len(source)
  BY <1>2, <1>5, ConcatProperties DEF most
<1>7. Len(most) + Len(source) \in 0 .. 5
  <2>1. \A m \in 0 .. 1 : (2 + m) + 2 \in 0 .. 5
    OBVIOUS
  <2> QED
    BY <1>2, <1>4, <1>5, <2>1 DEF most
<1> QED
  BY <1>1, <1>6, <1>7 DEF most, G

(***************************************************************************)
(* A step has at most five commands, and those about private DNS are those *)
(* of its step.                                                            *)
(***************************************************************************)
LEMMA CommandsOfStep ==
  ASSUME NEW f, NEW s \in StepNames
  PROVE  /\ Len(Commands(f, s)) \in 0 .. 5
         /\ \A n \in 1 .. Len(Commands(f, s)) :
              /\ Commands(f, s)[n] = "source" => s = "gitops"
              /\ Commands(f, s)[n] \in {"patch corefile", "restart coredns"} => s = "dns"
         /\ s = "dns" => /\ Len(Commands(f, s)) = 2
                         /\ Commands(f, s)[1] = "patch corefile"
                         /\ Commands(f, s)[2] = "restart coredns"
<1>1. CASE s = "dns"
  <2>1. Commands(f, s) = <<"patch corefile", "restart coredns">>
    BY <1>1 DEF Commands, DNSCommands
  <2> HIDE DEF Commands
  <2> DEFINE c == Commands(f, s)
  <2>2. Len(c) = 2 /\ c[1] = "patch corefile" /\ c[2] = "restart coredns"
    <3> DEFINE d == <<"patch corefile", "restart coredns">>
    <3>1. Len(d) = 2 /\ d[1] = "patch corefile" /\ d[2] = "restart coredns"
      OBVIOUS
    <3> QED
      BY <2>1, <3>1, Zenon
  <2>3. \A n \in 1 .. 2 : n = 1 \/ n = 2
    OBVIOUS
  <2> HIDE DEF c
  <2>4. \A n \in 1 .. Len(c) : c[n] # "source"
    BY <2>2, <2>3
  <2>5. Len(c) \in 0 .. 5
    <3>1. 2 \in 0 .. 5
      OBVIOUS
    <3> QED
      BY <2>2, <3>1, Zenon
  <2> QED
    BY <1>1, <2>2, <2>4, <2>5 DEF c
<1>2. CASE s = "gitops"
  <2>1. \A n \in 1 .. Len(Commands(f, s)) : Commands(f, s)[n] \in GitOpsNames
    BY <1>2, GitOpsStep, Elements
  <2> QED
    BY <1>2, <2>1, GitOpsStep DEF GitOpsNames
<1>3. CASE s \notin {"dns", "gitops"}
  <2>1. Commands(f, s) \in Seq(PlainCommands) /\ Len(Commands(f, s)) \in 0 .. 5
    BY <1>3, PlainSteps
  <2>2. \A n \in 1 .. Len(Commands(f, s)) : Commands(f, s)[n] \in PlainCommands
    BY <2>1, Elements
  <2> QED
    BY <1>3, <2>1, <2>2 DEF PlainCommands
<1> QED
  BY <1>1, <1>2, <1>3

-----------------------------------------------------------------------------
(* The job's way through its steps *)

PageTyped ==
  form \in {shown, Carried(shown)} /\ templates \subseteq Templates

\* A job is in a step it has, at a command of that step or before the first.
Progress ==
  /\ place \in Pages \cup JobPlaces \cup Ended
  /\ step \in 1 .. Len(Steps) + 1 /\ command \in 1 .. 5
  /\ place \in Pages => step = 1 /\ command = 1
  /\ place \in JobPlaces => step <= Len(Steps) /\ command \in 1 .. Len(Now) \cup {1}
  /\ waited \in 0 .. Patience /\ held \in BOOLEAN

Counted == streak \in 0 .. Stable - 1 /\ expected \in Nat /\ ready \in Nat

(***************************************************************************)
(* What the sequences of this job are.                                     *)
(***************************************************************************)
LEMMA JobSequences ==
  /\ Len(Steps) \in Nat /\ Len(Steps) >= 4
  /\ \A i \in 1 .. Len(Steps) : Steps[i] \in StepNames
  /\ step \in 1 .. Len(Steps) => Len(Now) \in 0 .. 5
<1>1. Len(Steps) \in Nat /\ Len(Steps) >= 4 /\ \A i \in 1 .. Len(Steps) : Steps[i] \in StepNames
  BY StepsInPlace DEF Steps
<1>2. step \in 1 .. Len(Steps) => Len(Now) \in 0 .. 5
  BY <1>1, CommandsOfStep DEF Now
<1> QED
  BY <1>1, <1>2

(***************************************************************************)
(* The next step begins, or the job has succeeded.                         *)
(***************************************************************************)
LEMMA Entered ==
  ASSUME Progress, place \in JobPlaces, form' = form, Enter(step + 1) PROVE Progress'
<1>1. Steps' = Steps
  BY DEF Steps
<1>2. Len(Steps) \in Nat /\ step \in Nat /\ step >= 1 /\ step <= Len(Steps)
  BY JobSequences DEF Progress
<1>3. /\ step' = step + 1 /\ command' = 1 /\ waited' = 0 /\ held' = FALSE
      /\ place' \in JobPlaces \cup {"succeeded"}
      /\ step + 1 > Len(Steps) => place' = "succeeded"
  BY DEF Enter, JobPlaces
<1>4. place' \in JobPlaces => step' <= Len(Steps)
  BY <1>2, <1>3 DEF JobPlaces
<1>5. place' \notin Pages /\ place' \in Pages \cup JobPlaces \cup Ended
  BY <1>3 DEF Pages, JobPlaces, Ended
<1>6. step' \in 1 .. Len(Steps) + 1 /\ command' \in 1 .. 5
  BY <1>2, <1>3
<1>7. waited' \in 0 .. Patience /\ held' \in BOOLEAN
  <2>1. 0 \in 0 .. Patience
    BY ProvisionAssumption
  <2> QED
    BY <1>3, <2>1, Zenon
<1>8. command' \in 1 .. Len(Now') \cup {1}
  BY <1>3
<1> QED
  BY <1>1, <1>4, <1>5, <1>6, <1>7, <1>8 DEF Progress

(***************************************************************************)
(* The next command, or the next step.                                     *)
(***************************************************************************)
LEMMA Proceeded ==
  ASSUME Progress, place = "commands", form' = form, Proceed PROVE Progress'
<1>1. CASE command < Len(Now)
  <2>1. /\ Steps' = Steps /\ UNCHANGED <<place, step, waited, held>> /\ command' = command + 1
    BY <1>1 DEF Proceed, Steps
  <2>2. Now' = Now
    BY <2>1 DEF Now
  <2>3. step \in 1 .. Len(Steps)
    BY JobSequences DEF Progress, JobPlaces
  <2>4. Len(Now) \in 0 .. 5 /\ command \in 1 .. 5
    BY <2>3, JobSequences DEF Progress
  <2>5. command + 1 \in 1 .. 5 /\ command + 1 \in 1 .. Len(Now)
    <3>1. \A n \in 0 .. 5, c \in 1 .. 5 : c < n => c + 1 \in 1 .. 5 /\ c + 1 \in 1 .. n
      OBVIOUS
    <3> QED
      BY <1>1, <2>4, <3>1
  <2> QED
    BY <2>1, <2>2, <2>5 DEF Progress, Pages
<1>2. CASE ~(command < Len(Now))
  BY <1>2, Entered DEF Proceed, JobPlaces
<1> QED
  BY <1>1, <1>2

(***************************************************************************)
(* Where a poll, a stop or a death leads.                                  *)
(***************************************************************************)
LEMMA StaysOrEnds ==
  ASSUME Progress, place \in JobPlaces, UNCHANGED <<form, step, command>>,
         place' \in {place, "failed", "interrupted"} \/ (place' \in JobPlaces /\ place # "commands"),
         waited' \in 0 .. Patience, held' \in BOOLEAN
  PROVE  Progress'
<1>1. Steps' = Steps /\ Now' = Now
  BY DEF Steps, Now
<1>2. place' \notin Pages /\ place' \in Pages \cup JobPlaces \cup Ended
  BY DEF Pages, JobPlaces, Ended
<1> QED
  BY <1>1, <1>2 DEF Progress

(***************************************************************************)
(* A job's steps keep its place.                                           *)
(***************************************************************************)
LEMMA ProgressJob ==
  ASSUME Progress, JobRuns \/ Stop \/ Die \/ NodesChange \/ Reload PROVE Progress'
<1> USE DEF pageVars, waitVars
<1>0. /\ place \in JobPlaces /\ form' = form
      /\ waited \in 0 .. Patience /\ held \in BOOLEAN
  BY JobKeepsPage DEF Progress
<1>1. CASE FindSecret
  BY <1>0, <1>1, StaysOrEnds DEF FindSecret, JobPlaces
<1>2. CASE Probe
  <2>1. /\ UNCHANGED <<form, step, command>> /\ place' \in {place, "commands"}
        /\ place = "stable" /\ waited' \in {waited, 0} /\ held' = held
    BY <1>2 DEF Probe
  <2> QED
    BY <1>0, <2>1, StaysOrEnds, ProvisionAssumption DEF JobPlaces
<1>3. CASE PollFails
  <2>1. CASE waited < Patience
    <3>1. /\ UNCHANGED <<form, step, command>> /\ place' = place
          /\ held' = held /\ waited' = waited + 1
      BY <1>3, <2>1 DEF PollFails
    <3>2. \A w \in 0 .. Patience : w < Patience => w + 1 \in 0 .. Patience
      BY ProvisionAssumption
    <3>3. waited' \in 0 .. Patience
      BY <1>0, <2>1, <3>1, <3>2
    <3> QED
      BY <1>0, <3>1, <3>3, StaysOrEnds
  <2>2. CASE ~(waited < Patience)
    <3>1. /\ UNCHANGED <<form, step, command>> /\ place' = "failed"
          /\ held' = FALSE /\ waited' = waited
      BY <1>3, <2>2 DEF PollFails
    <3> QED
      BY <1>0, <3>1, StaysOrEnds
  <2> QED
    BY <2>1, <2>2
<1>4. CASE SkipStep
  BY <1>0, <1>4, Entered DEF SkipStep
<1>5. CASE CountNodes \/ NodesChange \/ Reload
  BY <1>0, <1>5, StaysOrEnds DEF CountNodes, NodesChange, Reload
<1>6. CASE NodesReady \/ RestartCoreDNS \/ RunCommand
  BY <1>0, <1>6, Proceeded DEF NodesReady, RestartCoreDNS, RunCommand, Running
<1>7. CASE PatchCorefile
  BY <1>0, <1>7, Entered, Proceeded DEF PatchCorefile, Running
<1>8. CASE Stop \/ Die
  BY <1>0, <1>8, StaysOrEnds DEF Stop, Die
<1> QED
  BY <1>1, <1>2, <1>3, <1>4, <1>5, <1>6, <1>7, <1>8 DEF JobRuns

(***************************************************************************)
(* Before the job nothing has been begun.                                  *)
(***************************************************************************)
LEMMA ProgressPage ==
  ASSUME Progress, place \in Pages, place' \in {place, "previewed", "refused", "commands"},
         UNCHANGED <<step, command, waited, held>>
  PROVE  Progress'
<1>1. Len(Steps') \in Nat /\ Len(Steps') >= 4
  BY StepsInPlace DEF Steps
<1>2. step' = 1 /\ command' = 1 /\ waited' \in 0 .. Patience /\ held' \in BOOLEAN
  BY DEF Progress
<1>3. place' \in Pages \cup JobPlaces \cup Ended
  BY DEF Pages, JobPlaces, Ended
<1>4. 1 \in 1 .. Len(Steps') + 1 /\ 1 \in 1 .. 5 /\ 1 <= Len(Steps')
  BY <1>1
<1> QED
  BY <1>2, <1>3, <1>4 DEF Progress

(***************************************************************************)
(* What the form of a job says of nodes and private domains.               *)
(***************************************************************************)
LEMMA JobForm ==
  ASSUME FormCarried, place \in JobPlaces
  PROVE  /\ form.controlPlanes \in Int /\ form.workers \in Int
         /\ SectionsOK(form)
<1>1. shown \in FormRecords /\ SectionsOK(shown) /\ form = Carried(shown)
  BY FormsAssumption DEF FormCarried
<1>2. form = [shown EXCEPT !.pool = IF shown.metallb THEN shown.pool ELSE ""]
  BY <1>1, CarriedWhole
<1>3. form.controlPlanes = shown.controlPlanes /\ form.workers = shown.workers
  BY <1>1, <1>2 DEF FormRecords
<1>4. SectionsOK(form)
  BY <1>1, CarriedMeansTheSame
<1> QED
  BY <1>1, <1>3, <1>4 DEF FormRecords

(***************************************************************************)
(* Nodes and probes are counted in natural numbers.                        *)
(***************************************************************************)
LEMMA CountedStep ==
  ASSUME FormCarried, Progress, Counted, [ProvisionNext]_provisionVars PROVE Counted'
<1> USE DEF pageVars, waitVars, Counted
<1>0. 0 \in 0 .. Stable - 1
  BY ProvisionAssumption
<1>1. CASE \E answers \in BOOLEAN : (\E rendered \in Rendered : Preview(answers, rendered))
                                      \/ Apply(answers)
  BY <1>1 DEF Preview, Apply
<1>2. CASE RemoveTemplate \/ Forget \/ Stop \/ Die \/ Reload \/ UNCHANGED provisionVars
  BY <1>2 DEF RemoveTemplate, Forget, Stop, Die, Reload, provisionVars
<1>3. CASE FindSecret \/ PollFails
  BY <1>0, <1>3 DEF FindSecret, PollFails
<1>4. CASE Probe
  <2>1. streak' \in 0 .. Stable - 1
    <3>1. \A n \in 0 .. Stable - 1 : n + 1 # Stable => n + 1 \in 0 .. Stable - 1
      BY ProvisionAssumption
    <3> QED
      BY <1>0, <1>4, <3>1 DEF Probe
  <2> QED
    BY <1>4, <2>1 DEF Probe
<1>5. CASE SkipStep \/ NodesReady \/ PatchCorefile \/ RestartCoreDNS \/ RunCommand
  BY <1>5 DEF SkipStep, NodesReady, PatchCorefile, RestartCoreDNS, RunCommand
<1>6. CASE CountNodes
  <2>1. form.controlPlanes \in Int /\ form.workers \in Int
    BY <1>6, JobForm DEF CountNodes, Running, JobPlaces
  <2>2. PICK c \in {n \in {form.controlPlanes, 1} : n > 0},
             w \in {n \in {form.workers, 0} : n >= 0} : expected' = c + w
    BY <1>6 DEF CountNodes
  <2>3. c \in Nat /\ w \in Nat
    BY <2>1
  <2>4. expected' \in Nat
    BY <2>2, <2>3
  <2>5. UNCHANGED <<streak, ready>>
    BY <1>6 DEF CountNodes
  <2> QED
    BY <2>4, <2>5
<1>7. CASE NodesChange
  <2>1. form.controlPlanes \in Int /\ form.workers \in Int
    BY <1>7, JobForm DEF NodesChange, Running, JobPlaces
  <2>2. Declared \in Int
    BY <2>1 DEF Declared
  <2>3. PICK n \in 0 .. Declared : ready' = n
    BY <1>7 DEF NodesChange
  <2>4. ready' \in Nat
    BY <2>2, <2>3
  <2>5. UNCHANGED <<streak, expected>>
    BY <1>7 DEF NodesChange
  <2> QED
    BY <2>4, <2>5
<1> QED
  BY <1>1, <1>2, <1>3, <1>4, <1>5, <1>6, <1>7 DEF ProvisionNext, JobRuns

(***************************************************************************)
(* The page goes on with the form it showed, or with what it carries.      *)
(***************************************************************************)
LEMMA PageTypedStep ==
  ASSUME PageTyped, [ProvisionNext]_provisionVars PROVE PageTyped'
<1> USE DEF pageVars, PageTyped
<1>1. CASE \E answers \in BOOLEAN : (\E rendered \in Rendered : Preview(answers, rendered))
                                      \/ Apply(answers)
  BY <1>1 DEF Preview, Apply
<1>2. CASE RemoveTemplate \/ Forget \/ UNCHANGED provisionVars
  BY <1>2 DEF RemoveTemplate, Forget, provisionVars
<1>3. CASE JobRuns \/ Stop \/ Die \/ NodesChange \/ Reload
  BY <1>3, JobKeepsPage
<1> QED
  BY <1>1, <1>2, <1>3 DEF ProvisionNext

(***************************************************************************)
(* Every step keeps a job's place.                                         *)
(***************************************************************************)
LEMMA ProgressStep ==
  ASSUME Progress, [ProvisionNext]_provisionVars PROVE Progress'
<1> USE DEF pageVars, waitVars
<1>1. CASE \E answers \in BOOLEAN : (\E rendered \in Rendered : Preview(answers, rendered))
                                      \/ Apply(answers)
  BY <1>1, ProgressPage DEF Preview, Apply, Pages
<1>2. CASE RemoveTemplate \/ Forget
  BY <1>2, ProgressPage DEF RemoveTemplate, Forget, Pages
<1>3. CASE JobRuns \/ Stop \/ Die \/ NodesChange \/ Reload
  BY <1>3, ProgressJob
<1>4. CASE UNCHANGED provisionVars
  BY <1>4 DEF provisionVars, Progress, Steps, Now
<1> QED
  BY <1>1, <1>2, <1>3, <1>4 DEF ProvisionNext

ProvisionTyped == PageTyped /\ Progress /\ Counted

(***************************************************************************)
(* At first the form is open and nothing has begun.                        *)
(***************************************************************************)
LEMMA TypedAtFirst == ASSUME ProvisionInit PROVE ProvisionTyped
<1> USE DEF ProvisionInit
<1>1. PageTyped
  BY DEF PageTyped
<1>2. Progress
  <2>1. Len(Steps) \in Nat /\ Len(Steps) >= 4 /\ 0 \in 0 .. Patience
    BY JobSequences, ProvisionAssumption
  <2>2. held \in BOOLEAN
    OBVIOUS
  <2>3. place = "form" /\ step = 1 /\ command = 1 /\ waited = 0
    OBVIOUS
  <2> QED
    BY <2>1, <2>2, <2>3 DEF Progress, Pages, JobPlaces, Ended
<1>3. Counted
  BY ProvisionAssumption DEF Counted
<1> QED
  BY <1>1, <1>2, <1>3 DEF ProvisionTyped

(***************************************************************************)
(* The variables of request and job stay within their types, for any form, *)
(* number of probes and patience.                                          *)
(***************************************************************************)
THEOREM ProvisionTypes == ProvisionSpec => []ProvisionTypeOK
<1>1. ProvisionInit => ProvisionTyped
  BY TypedAtFirst
<1>2. ProvisionIInv /\ ProvisionTyped /\ [ProvisionNext]_provisionVars => ProvisionTyped'
  BY PageTypedStep, ProgressStep, CountedStep DEF ProvisionTyped, ProvisionIInv
<1>3. ProvisionTyped => ProvisionTypeOK
  BY DEF ProvisionTyped, PageTyped, Progress, Counted, ProvisionTypeOK, Steps
<1> QED
  BY <1>1, <1>2, <1>3, ProvisionInvariance, PTL DEF ProvisionSpec

-----------------------------------------------------------------------------
(* The job nears its end *)

Gate(p) == IF p = "secret" THEN 0 ELSE IF p = "stable" THEN 1 ELSE 2

JobState == <<place, step, command, expected, waited, streak>>

\* The job has ended, or the first of these to change has grown: the step, its
\* gate, the command, whether the nodes have been counted, the polls that
\* failed, the probes in a row.
Nearer ==
  \/ place' \in Ended
  \/ step' > step
  \/ /\ step' = step
     /\ \/ Gate(place') > Gate(place)
        \/ /\ place' = place
           /\ \/ command' > command
              \/ command' = command /\ expected = 0 /\ expected' > 0
              \/ UNCHANGED <<command, expected>> /\ waited' > waited
              \/ UNCHANGED <<command, expected, waited>> /\ streak' > streak

(***************************************************************************)
(* A job that does something is nearer its end, and what others do leaves  *)
(* it where it is (ApplySpec's steps and the waits in them).               *)
(***************************************************************************)
JobNearsItsEnd ==
  [][(place \in JobPlaces) =>
       /\ place' \in JobPlaces \cup Ended
       /\ (UNCHANGED JobState) \/ Nearer
       /\ (JobRuns => Nearer)]_provisionVars

(***************************************************************************)
(* The next step, or the next command, is nearer.                          *)
(***************************************************************************)
LEMMA ProceedIsNearer ==
  ASSUME Progress, place \in JobPlaces,
         Enter(step + 1) \/ (place = "commands" /\ Proceed)
  PROVE  Nearer
<1>1. step \in Nat /\ command \in Nat
  BY JobSequences DEF Progress
<1>2. ASSUME Enter(step + 1) PROVE Nearer
  BY <1>1, <1>2 DEF Enter, Nearer
<1>3. CASE Proceed /\ command < Len(Now)
  <2>1. command' = command + 1 /\ UNCHANGED <<place, step>>
    BY <1>3 DEF Proceed
  <2> QED
    BY <1>1, <2>1 DEF Nearer
<1>4. CASE Proceed /\ ~(command < Len(Now))
  BY <1>2, <1>4 DEF Proceed
<1> QED
  BY <1>2, <1>3, <1>4

(***************************************************************************)
(* Whatever the job does brings it nearer its end.                         *)
(***************************************************************************)
LEMMA RunsNearer ==
  ASSUME FormCarried, Progress, Counted, JobRuns PROVE Nearer
<1> USE DEF pageVars, waitVars
<1>0. place \in JobPlaces /\ place' \in JobPlaces \cup Ended
  BY JobKeepsPage
<1>1. waited \in Nat /\ streak \in Nat
  BY ProvisionAssumption DEF Progress, Counted
<1>2. CASE FindSecret
  BY <1>2 DEF FindSecret, Nearer, Gate
<1>3. CASE Probe
  <2>1. CASE place' = "commands"
    BY <1>3, <2>1 DEF Probe, Nearer, Gate
  <2>2. CASE streak' = streak + 1 /\ UNCHANGED <<place, waited>>
    BY <1>1, <1>3, <2>2 DEF Probe, Nearer
  <2> QED
    BY <1>3, <2>1, <2>2 DEF Probe
<1>4. CASE PollFails
  <2>1. CASE place' = "failed"
    BY <2>1 DEF Nearer, Ended
  <2>2. CASE waited' = waited + 1 /\ place' = place
    BY <1>1, <1>4, <2>2 DEF PollFails, Nearer
  <2> QED
    BY <1>4, <2>1, <2>2 DEF PollFails
<1>5. CASE CountNodes
  <2>1. form.controlPlanes \in Int /\ form.workers \in Int
    BY <1>0, JobForm
  <2>2. PICK c \in {n \in {form.controlPlanes, 1} : n > 0},
             w \in {n \in {form.workers, 0} : n >= 0} : expected' = c + w
    BY <1>5 DEF CountNodes
  <2>3. c \in Nat /\ c > 0 /\ w \in Nat
    BY <2>1
  <2>4. expected' > 0
    BY <2>2, <2>3
  <2> QED
    BY <1>5, <2>4 DEF CountNodes, Nearer
<1>6. CASE SkipStep
  BY <1>0, <1>6, ProceedIsNearer DEF SkipStep
<1>7. CASE NodesReady \/ RestartCoreDNS \/ RunCommand
  BY <1>0, <1>7, ProceedIsNearer DEF NodesReady, RestartCoreDNS, RunCommand, Running
<1>8. CASE PatchCorefile
  BY <1>0, <1>8, ProceedIsNearer DEF PatchCorefile, Running
<1> QED
  BY <1>2, <1>3, <1>4, <1>5, <1>6, <1>7, <1>8 DEF JobRuns

(***************************************************************************)
(* An apply job nears its end with every step it takes, and nothing the    *)
(* page, the nodes or CoreDNS do takes it back: of ApplyEnds it is the     *)
(* part that needs no fairness, each of these numbers being bounded.       *)
(***************************************************************************)
THEOREM ApplyNearsItsEnd == ProvisionSpec => JobNearsItsEnd
<1>1. ProvisionInit => ProvisionTyped
  BY TypedAtFirst
<1>2. ProvisionIInv /\ ProvisionTyped /\ [ProvisionNext]_provisionVars => ProvisionTyped'
  BY PageTypedStep, ProgressStep, CountedStep DEF ProvisionTyped, ProvisionIInv
<1>3. ProvisionIInv /\ ProvisionTyped /\ [ProvisionNext]_provisionVars
        => [(place \in JobPlaces) =>
              /\ place' \in JobPlaces \cup Ended
              /\ (UNCHANGED JobState) \/ Nearer
              /\ (JobRuns => Nearer)]_provisionVars
  <2> SUFFICES ASSUME ProvisionIInv, ProvisionTyped, ProvisionNext, place \in JobPlaces
               PROVE  /\ place' \in JobPlaces \cup Ended
                      /\ (UNCHANGED JobState) \/ Nearer
                      /\ (JobRuns => Nearer)
    OBVIOUS
  <2>1. JobRuns \/ Stop \/ Die \/ NodesChange \/ Reload
    BY DEF ProvisionNext, Preview, Apply, RemoveTemplate, Forget, JobPlaces
  <2>2. place' \in JobPlaces \cup Ended
    BY <2>1, JobKeepsPage
  <2>3. JobRuns => Nearer
    BY RunsNearer DEF ProvisionIInv, ProvisionTyped
  <2>4. Stop \/ Die => Nearer
    BY DEF Stop, Die, Nearer, Ended
  <2>5. NodesChange \/ Reload => UNCHANGED JobState
    BY DEF NodesChange, Reload, JobState, waitVars
  <2> QED
    BY <2>1, <2>2, <2>3, <2>4, <2>5
<1> QED
  BY <1>1, <1>2, <1>3, ProvisionInvariance, PTL DEF ProvisionSpec, JobNearsItsEnd

-----------------------------------------------------------------------------
(* Private DNS *)

\* The fifth step is private DNS, and its first command is done.
BlockWritten == step > 5 \/ (step = 5 /\ command = 2)

CorefileServed ==
  /\ corefile \in Files
  /\ place \in Pages => served = corefile
  /\ place \in JobPlaces =>
       /\ served # corefile => DNSEnabled(form) /\ step = 5 /\ command = 2
       /\ DNSEnabled(form) /\ BlockWritten => HasOneBlock(corefile, Zones)

(***************************************************************************)
(* An accepted form that asks for private DNS names a zone.                *)
(***************************************************************************)
LEMMA ZonesPositive ==
  ASSUME SectionsOK(form), DNSEnabled(form) PROVE Zones \in Nat \ {0}
<1> DEFINE d == form.dns.domains
<1>1. d \subseteq {"lan", "corp"} /\ d # {}
  BY DEF SectionsOK, DNSOK, DNSEnabled
<1> HIDE DEF d
<1>2. IsFiniteSet({"lan", "corp"})
  <2>1. IsFiniteSet({"lan"})
    BY FS_Singleton
  <2>2. {"lan", "corp"} = {"lan"} \cup {"corp"}
    OBVIOUS
  <2> QED
    BY <2>1, <2>2, FS_AddElement
<1>3. IsFiniteSet(d)
  BY <1>1, <1>2, FS_Subset
<1>4. Cardinality(d) \in Nat /\ Cardinality(d) # 0
  BY <1>1, <1>3, FS_CardinalityType, FS_EmptySet
<1> QED
  BY <1>4 DEF Zones, d

(***************************************************************************)
(* A command that runs is one of the commands of its step.                 *)
(***************************************************************************)
LEMMA RunningWhere ==
  ASSUME Progress, NEW c, Running(c)
  PROVE  /\ place \in JobPlaces
         /\ c = "source" => step > 4 /\ (DNSEnabled(form) => step > 5)
         /\ c \in {"patch corefile", "restart coredns"} =>
              /\ DNSEnabled(form) /\ step = 5
              /\ c = "patch corefile" => command = 1
              /\ c = "restart coredns" => command = 2
         /\ command \in 1 .. Len(Now)
<1>1. place \in JobPlaces /\ step \in 1 .. Len(Steps) /\ Now[command] = c /\ Now # << >>
  BY JobSequences DEF Running, JobPlaces, Progress
<1>2. Steps[step] \in StepNames /\ Len(Now) \in 0 .. 5
  BY <1>1, JobSequences
<1> DEFINE s == Steps[step]
<1>3. /\ s = "dns" <=> DNSEnabled(form) /\ step = 5
      /\ s = "gitops" => step > 4
  BY <1>1, StepsInPlace DEF Steps
<1> HIDE DEF s
<1>4. command \in 1 .. Len(Now)
  <2>1. Now \in Seq(PlainCommands) \cup Seq(GitOpsNames) \cup {DNSCommands}
    <3>1. CASE s = "dns"
      BY <3>1 DEF Now, s, Commands
    <3>2. CASE s = "gitops"
      BY <3>2, GitOpsStep DEF Now, s
    <3>3. CASE s \notin {"dns", "gitops"}
      BY <1>2, <3>3, PlainSteps DEF Now, s
    <3> QED
      BY <3>1, <3>2, <3>3
  <2>2. Len(Now) # 0
    <3>1. CASE Now = DNSCommands
      <4>1. Len(<<"patch corefile", "restart coredns">>) = 2
        OBVIOUS
      <4>2. Len(Now) = 2
        BY <3>1, <4>1, Zenon DEF DNSCommands
      <4> QED
        BY <4>2
    <3>2. CASE Now \in Seq(PlainCommands)
      BY <1>1, <3>2, EmptySeq
    <3>3. CASE Now \in Seq(GitOpsNames)
      BY <1>1, <3>3, EmptySeq
    <3> QED
      BY <2>1, <3>1, <3>2, <3>3
  <2>3. command = 1 \/ command \in 1 .. Len(Now)
    BY <1>1 DEF Progress
  <2> QED
    BY <1>2, <2>2, <2>3
<1>5. /\ c = "source" => s = "gitops"
      /\ c \in {"patch corefile", "restart coredns"} => s = "dns"
      /\ s = "dns" => Len(Now) = 2 /\ Now[1] = "patch corefile" /\ Now[2] = "restart coredns"
  <2>1. s \in StepNames /\ Now = Commands(form, s)
    BY <1>2 DEF Now, s
  <2> HIDE DEF s
  <2>2. /\ \A n \in 1 .. Len(Now) :
              /\ Now[n] = "source" => s = "gitops"
              /\ Now[n] \in {"patch corefile", "restart coredns"} => s = "dns"
        /\ s = "dns" => Len(Now) = 2 /\ Now[1] = "patch corefile" /\ Now[2] = "restart coredns"
    <3>1. /\ \A n \in 1 .. Len(Commands(form, s)) :
              /\ Commands(form, s)[n] = "source" => s = "gitops"
              /\ Commands(form, s)[n] \in {"patch corefile", "restart coredns"} => s = "dns"
          /\ s = "dns" => /\ Len(Commands(form, s)) = 2
                          /\ Commands(form, s)[1] = "patch corefile"
                          /\ Commands(form, s)[2] = "restart coredns"
      BY <2>1, CommandsOfStep
    <3> QED
      BY <2>1, <3>1, Zenon
  <2> QED
    BY <1>1, <1>4, <2>2
<1>6. c = "source" => step > 4 /\ (DNSEnabled(form) => step > 5)
  <2>1. c = "source" => s = "gitops" /\ s # "dns" /\ step > 4
    BY <1>3, <1>5
  <2>2. step \in Nat
    BY <1>1, JobSequences
  <2> QED
    BY <1>3, <2>1, <2>2
<1>7. ASSUME c \in {"patch corefile", "restart coredns"}
      PROVE  /\ DNSEnabled(form) /\ step = 5
             /\ c = "patch corefile" => command = 1
             /\ c = "restart coredns" => command = 2
  <2>1. s = "dns" /\ command \in 1 .. 2
    BY <1>4, <1>5, <1>7
  <2>2. command = 1 \/ command = 2
    BY <2>1
  <2> QED
    BY <1>1, <1>3, <1>5, <2>1, <2>2
<1> QED
  BY <1>1, <1>4, <1>6, <1>7

(***************************************************************************)
(* A command of the private DNS step is one of its two.                    *)
(***************************************************************************)
LEMMA DNSStepCommands ==
  ASSUME Progress, place = "commands", DNSEnabled(form), step = 5
  PROVE  /\ Now # << >> /\ Len(Now) = 2
         /\ command \in 1 .. 2
         /\ Now[command] = IF command = 1 THEN "patch corefile" ELSE "restart coredns"
<1>1. Steps[5] = "dns"
  BY StepsInPlace DEF Steps
<1>2. Now = Commands(form, "dns") /\ "dns" \in StepNames
  BY <1>1 DEF Now, StepNames
<1>3. Len(Now) = 2 /\ Now[1] = "patch corefile" /\ Now[2] = "restart coredns"
  BY <1>2, CommandsOfStep
<1>4. Now = DNSCommands
  BY <1>2 DEF Commands
<1>5. Now # << >>
  BY <1>4 DEF DNSCommands
<1>6. command \in 1 .. 2
  <2>1. command = 1 \/ command \in 1 .. Len(Now)
    BY DEF Progress, JobPlaces
  <2>2. 1 \in 1 .. 2
    OBVIOUS
  <2> QED
    BY <1>3, <2>1, <2>2, Zenon
<1>7. command = 1 \/ command = 2
  BY <1>6
<1> QED
  BY <1>3, <1>5, <1>6, <1>7

(***************************************************************************)
(* Where Enter and Proceed lead.                                           *)
(***************************************************************************)
LEMMA ProceedWhere ==
  ASSUME Proceed \/ Enter(step + 1), Progress, place \in JobPlaces
  PROVE  (step' = step /\ command' = command + 1) \/ (step' = step + 1 /\ command' = 1)
BY DEF Proceed, Enter

(***************************************************************************)
(* No other step of a job changes what CoreDNS has.                        *)
(***************************************************************************)
LEMMA OtherStepsServe ==
  ASSUME CorefileServed, Progress, place = "commands", UNCHANGED <<form, corefile, served>>,
         place' \notin Pages, Proceed \/ Enter(step + 1), ~(DNSEnabled(form) /\ step = 5)
  PROVE  CorefileServed'
<1>1. step \in Nat /\ command \in Nat
  BY JobSequences DEF Progress
<1>2. (step' = step /\ command' = command + 1) \/ (step' = step + 1 /\ command' = 1)
  BY ProceedWhere DEF JobPlaces
<1>3. served = corefile
  BY DEF CorefileServed, JobPlaces
<1>4. DNSEnabled(form) /\ BlockWritten' => BlockWritten
  BY <1>1, <1>2 DEF BlockWritten
<1>5. Zones' = Zones
  BY DEF Zones
<1>6. DNSEnabled(form) /\ BlockWritten' => HasOneBlock(corefile, Zones)
  BY <1>4 DEF CorefileServed, JobPlaces
<1> QED
  BY <1>3, <1>5, <1>6 DEF CorefileServed

(***************************************************************************)
(* The two commands of private DNS.                                        *)
(***************************************************************************)
LEMMA DNSStepServes ==
  ASSUME CorefileServed, Progress, FormCarried, place' \notin Pages, form' = form,
         PatchCorefile \/ RestartCoreDNS
  PROVE  CorefileServed'
<1>1. CASE PatchCorefile
  <2>1. /\ place \in JobPlaces /\ place = "commands" /\ DNSEnabled(form) /\ step = 5 /\ command = 1
    BY <1>1, RunningWhere DEF PatchCorefile, Running
  <2>2. Zones \in Nat \ {0} /\ Zones' = Zones
    BY <2>1, JobForm, ZonesPositive DEF Zones
  <2>3. corefile' \in Files /\ HasOneBlock(corefile', Zones)
    BY <1>1, <2>2, PrivateZonesWritten DEF PatchCorefile, CorefileServed
  <2>4. served' = served /\ served = corefile
    <3>1. served' = served
      BY <1>1 DEF PatchCorefile
    <3>2. served = corefile
      BY <2>1 DEF CorefileServed
    <3> QED
      BY <3>1, <3>2
  <2>5. CASE corefile' = corefile
    BY <2>1, <2>2, <2>3, <2>4, <2>5 DEF CorefileServed
  <2>6. CASE corefile' # corefile
    <3>1. Proceed /\ Len(Now) = 2
      BY <1>1, <2>1, <2>6, DNSStepCommands DEF PatchCorefile
    <3>2. step' = 5 /\ command' = 2
      BY <2>1, <3>1 DEF Proceed
    <3> QED
      BY <2>1, <2>2, <2>3, <3>2 DEF CorefileServed
  <2> QED
    BY <2>5, <2>6
<1>2. CASE RestartCoreDNS
  <2>1. /\ place \in JobPlaces /\ DNSEnabled(form) /\ step = 5 /\ command = 2
    BY <1>2, RunningWhere DEF RestartCoreDNS
  <2>2. HasOneBlock(corefile, Zones) /\ corefile \in Files
    BY <2>1 DEF CorefileServed, BlockWritten
  <2>3. served' = corefile' /\ corefile' = corefile /\ Zones' = Zones
    BY <1>2 DEF RestartCoreDNS, Zones
  <2> QED
    BY <2>2, <2>3 DEF CorefileServed
<1> QED
  BY <1>1, <1>2

(***************************************************************************)
(* Every step keeps what CoreDNS has, and has been told of.                *)
(***************************************************************************)
LEMMA CorefileServedStep ==
  ASSUME FormCarried, Progress, CorefileServed, [ProvisionNext]_provisionVars
  PROVE  CorefileServed'
<1> USE DEF pageVars, waitVars
<1>1. CASE \/ \E answers \in BOOLEAN : (\E rendered \in Rendered : Preview(answers, rendered))
                                       \/ Apply(answers)
           \/ RemoveTemplate \/ Forget
  <2>1. place \in Pages /\ UNCHANGED <<step, command, corefile, served>>
    BY <1>1 DEF Preview, Apply, RemoveTemplate, Forget, Pages
  <2>2. step = 1 /\ served = corefile
    BY <2>1 DEF Progress, CorefileServed
  <2>3. ~BlockWritten'
    BY <2>1, <2>2 DEF BlockWritten
  <2> QED
    BY <2>1, <2>2, <2>3 DEF CorefileServed
<1>2. CASE UNCHANGED provisionVars
  BY <1>2 DEF provisionVars, CorefileServed, BlockWritten, Zones
<1>3. CASE JobRuns \/ Stop \/ Die \/ NodesChange \/ Reload
  <2>0. place \in JobPlaces /\ place' \notin Pages /\ form' = form /\ Zones' = Zones
    BY <1>3, JobKeepsPage DEF Pages, JobPlaces, Ended, Zones
  <2>1. CASE FindSecret \/ Probe \/ PollFails \/ CountNodes \/ NodesChange \/ Stop \/ Die
    <3>1. UNCHANGED <<step, command, corefile, served>>
      BY <2>1 DEF FindSecret, Probe, PollFails, CountNodes, NodesChange, Stop, Die
    <3> QED
      BY <2>0, <3>1 DEF CorefileServed, BlockWritten
  <2>2. CASE Reload
    <3>1. UNCHANGED <<step, command, corefile>> /\ served' = corefile
      BY <2>2 DEF Reload
    <3> QED
      BY <2>0, <3>1 DEF CorefileServed, BlockWritten
  <2>3. CASE SkipStep
    BY <2>0, <2>3, DNSStepCommands, OtherStepsServe DEF SkipStep
  <2>4. CASE NodesReady \/ RunCommand
    <3>1. /\ place = "commands" /\ UNCHANGED <<corefile, served>> /\ Proceed
          /\ Now[command] \notin {"patch corefile", "restart coredns"}
      BY <2>4 DEF NodesReady, RunCommand, Running
    <3>2. ~(DNSEnabled(form) /\ step = 5)
      BY <3>1, DNSStepCommands
    <3> QED
      BY <2>0, <3>1, <3>2, OtherStepsServe
  <2>5. CASE PatchCorefile \/ RestartCoreDNS
    BY <2>0, <2>5, DNSStepServes
  <2> QED
    BY <1>3, <2>1, <2>2, <2>3, <2>4, <2>5 DEF JobRuns
<1> QED
  BY <1>1, <1>2, <1>3 DEF ProvisionNext

ProvisionServed == ProvisionTyped /\ CorefileServed

(***************************************************************************)
(* Typed and served together.                                              *)
(***************************************************************************)
LEMMA ProvisionServes == ProvisionSpec => [](ProvisionIInv /\ ProvisionServed)
<1>1. ProvisionInit => CorefileServed
  BY CorefilesAssumption DEF ProvisionInit, CorefileServed, Pages, JobPlaces
<1>2. /\ ProvisionIInv /\ ProvisionServed /\ [ProvisionNext]_provisionVars => ProvisionServed'
  BY PageTypedStep, ProgressStep, CountedStep, CorefileServedStep
     DEF ProvisionTyped, ProvisionServed, ProvisionIInv
<1>3. ProvisionInit => ProvisionServed
  BY <1>1, TypedAtFirst DEF ProvisionServed
<1> QED
  BY <1>2, <1>3, ProvisionInvariance, PTL DEF ProvisionSpec

(***************************************************************************)
(* When Flux is told of the Git server, CoreDNS runs on the block of the   *)
(* form's private domains (ConfigurePrivateDNSStep before GitOps).         *)
(***************************************************************************)
THEOREM FluxFindsItsServer == ProvisionSpec => []FetchesThroughPrivateDNS
<1>1. ProvisionIInv /\ ProvisionServed => FetchesThroughPrivateDNS
  <2> SUFFICES ASSUME ProvisionServed, Running("source"), DNSEnabled(form)
               PROVE  HasOneBlock(served, Zones)
    BY DEF FetchesThroughPrivateDNS
  <2>1. place \in JobPlaces /\ step > 5
    BY RunningWhere DEF ProvisionServed, ProvisionTyped
  <2>3. step # 5
    BY <2>1, JobSequences DEF ProvisionServed, ProvisionTyped, Progress
  <2>2. served = corefile /\ HasOneBlock(corefile, Zones)
    BY <2>1, <2>3 DEF ProvisionServed, CorefileServed, BlockWritten
  <2> QED
    BY <2>2
<1> QED
  BY <1>1, ProvisionServes, PTL

(***************************************************************************)
(* The job leaves one block with the zones of the form, keeps what others  *)
(* wrote, and would change nothing the second time, whatever the Corefile  *)
(* was (applyPrivateDNSToCorefile).                                        *)
(***************************************************************************)
THEOREM CorefileIsKept == ProvisionSpec => CorefileKept
<1>1. ProvisionIInv /\ ProvisionServed /\ [ProvisionNext]_provisionVars
        => [corefile' # corefile =>
              /\ HasOneBlock(corefile', Zones)
              /\ KeepsOthers(corefile, corefile')
              /\ WithPrivateZones(corefile', Zones) = corefile']_provisionVars
  <2> SUFFICES ASSUME ProvisionIInv, ProvisionServed, [ProvisionNext]_provisionVars,
                      corefile' # corefile
               PROVE  /\ HasOneBlock(corefile', Zones)
                      /\ KeepsOthers(corefile, corefile')
                      /\ WithPrivateZones(corefile', Zones) = corefile'
    OBVIOUS
  <2>1. PatchCorefile
    BY DEF ProvisionNext, JobRuns, provisionVars, Preview, Apply, RemoveTemplate, Forget,
           FindSecret, Probe, PollFails, SkipStep, CountNodes, NodesReady, RestartCoreDNS,
           RunCommand, Stop, Die, NodesChange, Reload
  <2>2. /\ corefile \in Files /\ corefile' = WithPrivateZones(corefile, Zones)
        /\ place \in JobPlaces /\ DNSEnabled(form)
    BY <2>1, RunningWhere
       DEF PatchCorefile, ProvisionServed, CorefileServed, ProvisionTyped
  <2>3. Zones \in Nat \ {0}
    BY <2>2, JobForm, ZonesPositive DEF ProvisionIInv
  <2> QED
    BY <2>2, <2>3, PrivateZonesWritten
<1> QED
  BY <1>1, ProvisionServes, PTL DEF ProvisionSpec, CorefileKept

-----------------------------------------------------------------------------
(* What each pass of Generate does to a document *)

\* A machine template of linked clones.
Linked(d) == [d EXCEPT !.full = FALSE, !.disk = IF @ = "qcow2" THEN "" ELSE @]

(***************************************************************************)
(* The passes change documents and neither add nor remove any; LinkClones  *)
(* changes machine templates only.                                         *)
(***************************************************************************)
LEMMA LinkClonesDoes ==
  ASSUME NEW m
  PROVE  /\ DOMAIN LinkClones(m) = DOMAIN m
         /\ \A k \in DOMAIN m :
              LinkClones(m)[k] = IF k = "ProxmoxMachineTemplate"
                                 THEN Linked(m[k]) ELSE m[k]
BY DEF Linked, LinkClones, Inject

(***************************************************************************)
(* InjectRegistryTrust changes bootstraps only.                            *)
(***************************************************************************)
LEMMA RegistryDoes ==
  ASSUME NEW f, NEW m
  PROVE  /\ DOMAIN InjectRegistryTrust(f, m) = DOMAIN m
         /\ \A k \in DOMAIN m :
              InjectRegistryTrust(f, m)[k] =
                IF RegistryEnabled(f) /\ k \in Bootstraps
                THEN WithFiles(m[k], RegistryFiles(f), "configure-registry") ELSE m[k]
BY DEF InjectRegistryTrust, Inject

(***************************************************************************)
(* InjectInternalCATrust changes bootstraps only.                          *)
(***************************************************************************)
LEMMA InternalCADoes ==
  ASSUME NEW f, NEW m
  PROVE  /\ DOMAIN InjectInternalCATrust(f, m) = DOMAIN m
         /\ \A k \in DOMAIN m :
              InjectInternalCATrust(f, m)[k] =
                IF f.internalCA # "" /\ k \in Bootstraps
                THEN WithFiles(m[k], InternalCAFiles, "install-internal-ca") ELSE m[k]
BY DEF InjectInternalCATrust, Inject

(***************************************************************************)
(* InjectCredentialsRef changes the ProxmoxCluster only.                   *)
(***************************************************************************)
LEMMA CredentialsDo ==
  ASSUME NEW f, NEW m
  PROVE  /\ DOMAIN InjectCredentialsRef(f, m) = DOMAIN m
         /\ \A k \in DOMAIN m :
              InjectCredentialsRef(f, m)[k] =
                IF k = "ProxmoxCluster"
                THEN [m[k] EXCEPT !.credentials = f.connection] ELSE m[k]
BY DEF InjectCredentialsRef, Inject

OIDCFile == File("/etc/kubernetes/pki", "oidc-ca", "pem", "OIDC CA")

\* The control plane's document with OIDC.
WithOIDC(f, d) ==
  [d EXCEPT !.flags = @ \cup ({"issuer-url", "client-id", "username-claim", "groups-claim"}
                                \cup IF f.oidc.ca # "" THEN {"ca-file"} ELSE {}),
            !.files = @ \cup IF f.oidc.ca # "" THEN {OIDCFile} ELSE {}]

(***************************************************************************)
(* InjectOIDCAuth changes the control plane's document only.               *)
(***************************************************************************)
LEMMA OIDCDoes ==
  ASSUME NEW f, NEW m
  PROVE  /\ DOMAIN InjectOIDCAuth(f, m) = DOMAIN m
         /\ \A k \in DOMAIN m :
              InjectOIDCAuth(f, m)[k] =
                IF OIDCEnabled(f) /\ k = "KubeadmControlPlane" THEN WithOIDC(f, m[k]) ELSE m[k]
BY DEF InjectOIDCAuth, Inject, WithOIDC, OIDCFile

(***************************************************************************)
(* InjectIgnitionFormat changes bootstraps and machine templates.          *)
(***************************************************************************)
LEMMA IgnitionDoes ==
  ASSUME NEW f, NEW m
  PROVE  /\ DOMAIN InjectIgnitionFormat(f, m) = DOMAIN m
         /\ \A k \in DOMAIN m :
              InjectIgnitionFormat(f, m)[k] =
                IF Flatcar(f) /\ k \in Bootstraps THEN Ignition(m[k])
                ELSE IF Flatcar(f) /\ k = "ProxmoxMachineTemplate"
                THEN [m[k] EXCEPT !.skipCloudInit = TRUE] ELSE m[k]
<1>1. "ProxmoxMachineTemplate" \notin Bootstraps
  BY DEF Bootstraps
<1> DEFINE n == Inject(m, Bootstraps, Ignition)
<1>2. DOMAIN n = DOMAIN m /\ \A k \in DOMAIN m : n[k] = IF k \in Bootstraps THEN Ignition(m[k]) ELSE m[k]
  BY DEF Inject
<1>3. Flatcar(f) =>
        InjectIgnitionFormat(f, m) =
          [k \in DOMAIN n |-> IF k \in {"ProxmoxMachineTemplate"}
                              THEN [n[k] EXCEPT !.skipCloudInit = TRUE] ELSE n[k]]
  BY DEF InjectIgnitionFormat, Inject
<1> HIDE DEF n
<1>4. CASE Flatcar(f)
  BY <1>1, <1>2, <1>3, <1>4
<1>5. CASE ~Flatcar(f)
  BY <1>5 DEF InjectIgnitionFormat
<1> QED
  BY <1>4, <1>5

-----------------------------------------------------------------------------
(* Documents that boot *)

ScriptNames == {"upstream", "configure-registry", "install-internal-ca"}

\* A bootstrap document whose scripts are there.
IsSound(d) ==
  /\ d = [files |-> d.files, before |-> d.before, after |-> d.after, flags |-> d.flags,
          format |-> d.format]
  /\ \A x \in d.files : IsFile(x)
  /\ d.before \in Seq(ScriptNames) /\ Len(d.before) >= 1 /\ d.before[1] = "upstream"
  /\ \A n \in 2 .. Len(d.before) : Script(d.before[n]) \in d.files
  /\ "ca-file" \in d.flags => OIDCFile \in d.files

(***************************************************************************)
(* What File makes is one.                                                 *)
(***************************************************************************)
LEMMA FilesAreFiles ==
  ASSUME NEW dir, NEW name, NEW ext, NEW holds PROVE IsFile(File(dir, name, ext, holds))
BY DEF IsFile, File

(***************************************************************************)
(* What is rendered is sound.                                              *)
(***************************************************************************)
LEMMA RenderedSound ==
  ASSUME NEW m, IsRendered(m), NEW k \in DOMAIN m, k \in Bootstraps
  PROVE  IsSound(m[k]) /\ Len(m[k].before) = 1
<1> DEFINE d == m[k]
<1>1. /\ d = [files |-> d.files, before |-> <<"upstream">>, after |-> d.after,
              flags |-> d.flags, format |-> d.format]
      /\ \A x \in d.files : IsFile(x)
      /\ "ca-file" \notin d.flags
  BY DEF IsRendered, IsRenderedDoc
<1> HIDE DEF d
<1>2. d.before = <<"upstream">>
  BY <1>1
<1>3. "upstream" \in ScriptNames
  BY DEF ScriptNames
<1>4. /\ <<"upstream">> \in Seq(ScriptNames) /\ Len(<<"upstream">>) = 1 /\ <<"upstream">>[1] = "upstream"
  BY <1>3
<1>5. 2 .. 1 = {} /\ 1 >= 1
  OBVIOUS
<1>6. /\ d.before \in Seq(ScriptNames) /\ Len(d.before) = 1 /\ d.before[1] = "upstream"
  BY <1>2, <1>4, Zenon
<1>7. d = [files |-> d.files, before |-> d.before, after |-> d.after,
           flags |-> d.flags, format |-> d.format]
  BY <1>1, <1>2
<1> QED
  BY <1>1, <1>5, <1>6, <1>7 DEF IsSound, d

(***************************************************************************)
(* injectBootstrapFiles brings the script it runs.                         *)
(***************************************************************************)
LEMMA WithFilesSound ==
  ASSUME NEW d, IsSound(d), NEW files, \A x \in files : IsFile(x),
         NEW s \in ScriptNames, Script(s) \in files
  PROVE  /\ IsSound(WithFiles(d, files, s))
         /\ WithFiles(d, files, s).files = d.files \cup files
         /\ WithFiles(d, files, s).before = Append(d.before, s)
<1> DEFINE e == WithFiles(d, files, s)
           b == Append(d.before, s)
<1>1. e = [files |-> d.files \cup files, before |-> b, after |-> d.after,
           flags |-> d.flags, format |-> d.format]
  <2>1. d = [files |-> d.files, before |-> d.before, after |-> d.after, flags |-> d.flags,
             format |-> d.format]
    BY DEF IsSound
  <2> HIDE DEF b
  <2>2. e = [d EXCEPT !.files = d.files \cup files, !.before = b]
    BY <2>1 DEF WithFiles, b
  <2> QED
    BY <2>1, <2>2
<1>2. /\ d.before \in Seq(ScriptNames) /\ Len(d.before) \in Nat /\ Len(d.before) >= 1
      /\ d.before[1] = "upstream"
      /\ \A n \in 2 .. Len(d.before) : Script(d.before[n]) \in d.files
  BY LenProperties DEF IsSound
<1>3. /\ b \in Seq(ScriptNames) /\ Len(b) = Len(d.before) + 1 /\ b[Len(d.before) + 1] = s
      /\ \A n \in 1 .. Len(d.before) : b[n] = d.before[n]
  BY <1>2, AppendProperties
<1> HIDE DEF b
<1>4. /\ e.files = d.files \cup files /\ e.before = b /\ e.after = d.after
      /\ e.flags = d.flags /\ e.format = d.format
  BY <1>1
<1> HIDE DEF e
<1>5. ASSUME NEW n \in 2 .. Len(b) PROVE Script(b[n]) \in d.files \cup files
  <2>1. CASE n \in 2 .. Len(d.before)
    BY <1>2, <1>3, <2>1
  <2>2. CASE n \notin 2 .. Len(d.before)
    <3>1. n = Len(d.before) + 1
      BY <1>2, <1>3, <2>2
    <3> QED
      BY <1>3, <3>1
  <2> QED
    BY <2>1, <2>2
<1>6. Len(b) >= 1 /\ b[1] = "upstream"
  BY <1>2, <1>3
<1>7. /\ \A x \in e.files : IsFile(x)
      /\ "ca-file" \in e.flags => OIDCFile \in e.files
  BY <1>4 DEF IsSound
<1>8. e = [files |-> e.files, before |-> e.before, after |-> e.after, flags |-> e.flags,
           format |-> e.format]
  BY <1>1, <1>4
<1>9. IsSound(e)
  BY <1>3, <1>4, <1>5, <1>6, <1>7, <1>8 DEF IsSound
<1> QED
  BY <1>3, <1>4, <1>9 DEF e

(***************************************************************************)
(* The OIDC flags bring the file they name.                                *)
(***************************************************************************)
LEMMA WithOIDCSound ==
  ASSUME NEW f, NEW d, IsSound(d)
  PROVE  /\ IsSound(WithOIDC(f, d)) /\ d.files \subseteq WithOIDC(f, d).files
         /\ WithOIDC(f, d).before = d.before
<1> DEFINE e == WithOIDC(f, d)
           flags == d.flags \cup ({"issuer-url", "client-id", "username-claim", "groups-claim"}
                                    \cup IF f.oidc.ca # "" THEN {"ca-file"} ELSE {})
           files == d.files \cup IF f.oidc.ca # "" THEN {OIDCFile} ELSE {}
<1>1. d = [files |-> d.files, before |-> d.before, after |-> d.after, flags |-> d.flags,
           format |-> d.format]
  BY DEF IsSound
<1>2. IsFile(OIDCFile)
  BY DEF IsFile, OIDCFile, File
<1>3. \A x \in files : IsFile(x)
  BY <1>2 DEF IsSound
<1>4. "ca-file" \in flags => OIDCFile \in files
  BY DEF IsSound
<1>5. d.files \subseteq files
  OBVIOUS
<1>6. e = [d EXCEPT !.flags = flags, !.files = files]
  BY <1>1 DEF WithOIDC
<1> HIDE DEF e, flags, files
<1>7. /\ e = [files |-> files, before |-> d.before, after |-> d.after, flags |-> flags,
              format |-> d.format]
  BY <1>1, <1>6
<1>8. /\ e.files = files /\ e.before = d.before /\ e.after = d.after /\ e.flags = flags
      /\ e.format = d.format
  BY <1>7
<1>10. /\ d.before \in Seq(ScriptNames) /\ Len(d.before) >= 1 /\ d.before[1] = "upstream"
       /\ \A n \in 2 .. Len(d.before) : Script(d.before[n]) \in files
  BY <1>5 DEF IsSound
<1>11. e = [files |-> e.files, before |-> e.before, after |-> e.after, flags |-> e.flags,
            format |-> e.format]
  BY <1>7, <1>8
<1>9. IsSound(e)
  BY <1>3, <1>4, <1>8, <1>10, <1>11, Zenon DEF IsSound
<1> QED
  BY <1>5, <1>8, <1>9 DEF e

(***************************************************************************)
(* The file that holds a CA, before Flatcar moves it.                      *)
(***************************************************************************)
CAFileOf(ca) ==
  IF ca = "registry CA" THEN CAFile(UsrTrust, "registry", "registry CA")
  ELSE CAFile(UsrTrust, "internal-ca", "internal CA")

\* The registry's files, and its script as the first of ours.
HasRegistry(f, d) ==
  RegistryEnabled(f) =>
    RegistryFiles(f) \subseteq d.files /\ Len(d.before) > 1 /\ d.before[2] = "configure-registry"

\* No script of ours but the registry's.
OnlyRegistry(d) == \A n \in 2 .. Len(d.before) : d.before[n] = "configure-registry"

\* A sound document that carries what the form asks for and nothing else.
IsPrepared(f, d) ==
  /\ IsSound(d) /\ HasRegistry(f, d)
  /\ \A ca \in TrustedCAs(f) : CAFileOf(ca) \in d.files
  /\ TrustedCAs(f) # {} => Len(d.before) > 1
  /\ f.internalCA = "" => OnlyRegistry(d)

\* All passes but Flatcar's.
Passes(f, m) ==
  InjectInternalCATrust(f, InjectCredentialsRef(f,
    InjectOIDCAuth(f, InjectRegistryTrust(f, LinkClones(m)))))

(***************************************************************************)
(* After all passes but Flatcar's, a bootstrap document is prepared.       *)
(***************************************************************************)
LEMMA PassesPrepare ==
  ASSUME NEW f, NEW m, IsRendered(m), NEW k \in DOMAIN m, k \in Bootstraps
  PROVE  IsPrepared(f, Passes(f, m)[k])
<1> DEFINE m1 == LinkClones(m)
           m2 == InjectRegistryTrust(f, m1)
           m3 == InjectOIDCAuth(f, m2)
           m4 == InjectCredentialsRef(f, m3)
           m5 == InjectInternalCATrust(f, m4)
           withRegistry == RegistryEnabled(f) /\ f.registry.ca # ""
<1>1. /\ k # "ProxmoxMachineTemplate" /\ k # "ProxmoxCluster"
  BY DEF Bootstraps
<1>2. IsSound(m[k]) /\ Len(m[k].before) = 1
  BY RenderedSound
<1>3. DOMAIN m1 = DOMAIN m /\ m1[k] = m[k]
  BY <1>1, LinkClonesDoes
<1> HIDE DEF m1
<1>4. DOMAIN m2 = DOMAIN m
  BY <1>3, RegistryDoes
<1>5. /\ IsSound(m2[k]) /\ Len(m2[k].before) \in Nat
      /\ withRegistry => CAFileOf("registry CA") \in m2[k].files /\ Len(m2[k].before) > 1
      /\ HasRegistry(f, m2[k]) /\ OnlyRegistry(m2[k])
  <2>1. CASE RegistryEnabled(f)
    <3>1. m2[k] = WithFiles(m[k], RegistryFiles(f), "configure-registry")
      BY <1>3, <2>1, RegistryDoes
    <3>2. Script("configure-registry") \in RegistryFiles(f) /\ \A x \in RegistryFiles(f) : IsFile(x)
      BY FilesAreFiles DEF RegistryFiles, Script, CAFile
    <3>3. withRegistry => CAFileOf("registry CA") \in RegistryFiles(f)
      BY DEF CAFileOf, RegistryFiles
    <3>4. "configure-registry" \in ScriptNames
      BY DEF ScriptNames
    <3> HIDE DEF m2
    <3>a. LET e == WithFiles(m[k], RegistryFiles(f), "configure-registry") IN
          /\ IsSound(e) /\ e.files = m[k].files \cup RegistryFiles(f)
          /\ e.before = Append(m[k].before, "configure-registry")
      <4>1. IsSound(m[k]) /\ \A x \in RegistryFiles(f) : IsFile(x)
        BY <1>2, <3>2
      <4> HIDE DEF withRegistry
      <4> QED
        BY <3>2, <3>4, <4>1, WithFilesSound
    <3>5. /\ IsSound(m2[k]) /\ m2[k].files = m[k].files \cup RegistryFiles(f)
          /\ m2[k].before = Append(m[k].before, "configure-registry")
      BY <3>1, <3>a, Zenon
    <3>6. Len(m2[k].before) = 2 /\ m2[k].before[2] = "configure-registry"
      <4>1. m[k].before \in Seq(ScriptNames) /\ Len(m[k].before) = 1
        BY <1>2 DEF IsSound
      <4> QED
        BY <3>4, <3>5, <4>1, AppendProperties
    <3>7. HasRegistry(f, m2[k]) /\ OnlyRegistry(m2[k])
      BY <3>5, <3>6 DEF HasRegistry, OnlyRegistry
    <3>8. withRegistry => CAFileOf("registry CA") \in m2[k].files
      BY <3>3, <3>5
    <3>9. 2 \in Nat /\ 2 > 1
      OBVIOUS
    <3> HIDE DEF withRegistry
    <3> QED
      BY <3>5, <3>6, <3>7, <3>8, <3>9, Zenon
  <2>2. CASE ~RegistryEnabled(f)
    <3>1. m2[k] = m[k]
      BY <1>3, <2>2, RegistryDoes
    <3>2. Len(m[k].before) \in Nat /\ OnlyRegistry(m[k])
      BY <1>2 DEF OnlyRegistry
    <3>3. ~withRegistry /\ HasRegistry(f, m[k])
      BY <2>2 DEF HasRegistry
    <3> HIDE DEF withRegistry, m2
    <3> QED
      BY <1>2, <3>1, <3>2, <3>3, Zenon
  <2> QED
    BY <2>1, <2>2
<1> HIDE DEF m2
<1>6. /\ DOMAIN m3 = DOMAIN m
      /\ IsSound(m3[k]) /\ m2[k].files \subseteq m3[k].files /\ m3[k].before = m2[k].before
      /\ HasRegistry(f, m3[k]) /\ OnlyRegistry(m3[k])
  <2>1. /\ DOMAIN m3 = DOMAIN m2
        /\ m3[k] = IF OIDCEnabled(f) /\ k = "KubeadmControlPlane" THEN WithOIDC(f, m2[k]) ELSE m2[k]
    BY <1>4, OIDCDoes
  <2>2. IsSound(m2[k])
    BY <1>5
  <2> HIDE DEF m3
  <2>3. /\ IsSound(WithOIDC(f, m2[k])) /\ m2[k].files \subseteq WithOIDC(f, m2[k]).files
        /\ WithOIDC(f, m2[k]).before = m2[k].before
    BY <2>2, WithOIDCSound
  <2>4. /\ DOMAIN m3 = DOMAIN m
        /\ IsSound(m3[k]) /\ m2[k].files \subseteq m3[k].files /\ m3[k].before = m2[k].before
    BY <1>4, <2>1, <2>2, <2>3
  <2> QED
    BY <1>5, <2>4 DEF HasRegistry, OnlyRegistry
<1> HIDE DEF m3
<1>7. DOMAIN m4 = DOMAIN m /\ m4[k] = m3[k]
  <2>1. /\ DOMAIN m4 = DOMAIN m3
        /\ m4[k] = IF k = "ProxmoxCluster"
                   THEN [m3[k] EXCEPT !.credentials = f.connection] ELSE m3[k]
    BY <1>6, CredentialsDo
  <2> QED
    BY <1>1, <1>6, <2>1
<1> HIDE DEF m4
<1>8. CASE f.internalCA # ""
  <2>1. m5[k] = WithFiles(m4[k], InternalCAFiles, "install-internal-ca")
    BY <1>7, <1>8, InternalCADoes
  <2>2. Script("install-internal-ca") \in InternalCAFiles /\ \A x \in InternalCAFiles : IsFile(x)
    BY FilesAreFiles DEF InternalCAFiles, Script, CAFile
  <2>3. CAFileOf("internal CA") \in InternalCAFiles
    BY DEF CAFileOf, InternalCAFiles
  <2>4. "install-internal-ca" \in ScriptNames
    BY DEF ScriptNames
  <2> HIDE DEF m5
  <2>a. LET e == WithFiles(m4[k], InternalCAFiles, "install-internal-ca") IN
        /\ IsSound(e) /\ e.files = m4[k].files \cup InternalCAFiles
        /\ e.before = Append(m4[k].before, "install-internal-ca")
    <3>1. IsSound(m4[k])
      BY <1>6, <1>7
    <3> QED
      BY <3>1, <2>2, <2>4, WithFilesSound
  <2>5. /\ IsSound(m5[k]) /\ m5[k].files = m4[k].files \cup InternalCAFiles
        /\ Len(m5[k].before) = Len(m4[k].before) + 1
        /\ \A n \in 1 .. Len(m4[k].before) : m5[k].before[n] = m4[k].before[n]
    <3>1. m5[k].before = Append(m4[k].before, "install-internal-ca")
      BY <2>1, <2>a, Zenon
    <3>2. m4[k].before \in Seq(ScriptNames)
      BY <1>6, <1>7 DEF IsSound
    <3>3. /\ Len(m5[k].before) = Len(m4[k].before) + 1
          /\ \A n \in 1 .. Len(m4[k].before) : m5[k].before[n] = m4[k].before[n]
      BY <2>4, <3>1, <3>2, AppendProperties
    <3>4. IsSound(m5[k]) /\ m5[k].files = m4[k].files \cup InternalCAFiles
      BY <2>1, <2>a, Zenon
    <3> QED
      BY <3>3, <3>4
  <2>6. Len(m4[k].before) \in Nat /\ Len(m4[k].before) >= 1
    BY <1>6, <1>7, LenProperties DEF IsSound
  <2>7. \A ca \in TrustedCAs(f) : ca = "internal CA" \/ (ca = "registry CA" /\ withRegistry)
    BY DEF TrustedCAs
  <2>8. \A ca \in TrustedCAs(f) : CAFileOf(ca) \in m5[k].files
    BY <1>5, <1>6, <1>7, <2>3, <2>5, <2>7
  <2>9. Len(m5[k].before) > 1
    BY <2>5, <2>6
  <2>10. HasRegistry(f, m5[k])
    <3> SUFFICES ASSUME RegistryEnabled(f)
                 PROVE  /\ RegistryFiles(f) \subseteq m5[k].files /\ Len(m5[k].before) > 1
                        /\ m5[k].before[2] = "configure-registry"
      BY DEF HasRegistry
    <3>1. /\ RegistryFiles(f) \subseteq m4[k].files /\ Len(m4[k].before) > 1
          /\ m4[k].before[2] = "configure-registry"
      BY <1>6, <1>7 DEF HasRegistry
    <3>2. 2 \in 1 .. Len(m4[k].before)
      BY <2>6, <3>1
    <3> QED
      BY <2>5, <2>9, <3>1, <3>2
  <2> QED
    BY <1>8, <2>5, <2>8, <2>9, <2>10 DEF IsPrepared, Passes, m5, m4, m3, m2, m1
<1>9. CASE f.internalCA = ""
  <2>1. m5[k] = m4[k]
    BY <1>9 DEF InjectInternalCATrust
  <2> HIDE DEF m5
  <2>2. \A ca \in TrustedCAs(f) : ca = "registry CA" /\ withRegistry
    BY <1>9 DEF TrustedCAs
  <2>3. TrustedCAs(f) # {} => withRegistry
    BY <2>2
  <2>4. IsPrepared(f, m5[k])
    BY <1>5, <1>6, <1>7, <2>1, <2>2, <2>3 DEF IsPrepared
  <2> QED
    BY <2>4 DEF Passes, m5, m4, m3, m2, m1
<1> QED
  BY <1>8, <1>9

(***************************************************************************)
(* The file of a CA holds it, where Ubuntu looks for it.                   *)
(***************************************************************************)
LEMMA CAFiles ==
  ASSUME NEW f, NEW ca \in TrustedCAs(f)
  PROVE  /\ CAFileOf(ca).holds = ca /\ CAFileOf(ca).dir = UsrTrust /\ CAFileOf(ca).ext = "crt"
         /\ IsFile(CAFileOf(ca))
<1>1. ca = "registry CA" \/ ca = "internal CA"
  BY DEF TrustedCAs
<1> QED
  BY <1>1, FilesAreFiles DEF CAFileOf, CAFile, File

\* What a manifest promises of one of its bootstrap documents.
BootsAsAsked(f, d) ==
  /\ NodePulls(f, d)
  /\ UpdatesCAs(f) \/ f.internalCA = "" => NodeBoots(f, d)
  /\ UpdatesCAs(f) => NodeTrusts(f, d)

(***************************************************************************)
(* The scripts of a prepared document end well where the image has         *)
(* update-ca-certificates or no internal CA is installed.                  *)
(***************************************************************************)
LEMMA PreparedRuns ==
  ASSUME NEW f, NEW d, IsPrepared(f, d), UpdatesCAs(f) \/ f.internalCA = "",
         NEW n \in 2 .. Len(d.before)
  PROVE  Script(d.before[n]) \in d.files /\ (d.before[n] = "install-internal-ca" => UpdatesCAs(f))
BY DEF IsPrepared, IsSound, OnlyRegistry

(***************************************************************************)
(* A prepared document keeps its promises as it is, but on Flatcar.        *)
(***************************************************************************)
LEMMA PreparedBoots ==
  ASSUME NEW f, NEW d, IsPrepared(f, d), ~Flatcar(f) PROVE BootsAsAsked(f, d)
<1>1. ASSUME UpdatesCAs(f), NEW ca \in TrustedCAs(f)
      PROVE  \E x \in d.files : x.holds = ca /\ Anchored(f, x)
  <2>1. CAFileOf(ca) \in d.files
    BY DEF IsPrepared
  <2>2. CAFileOf(ca).holds = ca /\ Anchored(f, CAFileOf(ca))
    BY <1>1, CAFiles DEF Anchored
  <2> QED
    BY <2>1, <2>2
<1>2. "ca-file" \in d.flags => \E x \in d.files : x.holds = "OIDC CA"
  <2>1. OIDCFile.holds = "OIDC CA"
    BY DEF OIDCFile, File
  <2> QED
    BY <2>1 DEF IsPrepared, IsSound
<1>3. NodePulls(f, d)
  <2>1. ASSUME RegistryEnabled(f)
        PROVE  2 \in 2 .. Len(d.before) /\ d.before[2] = "configure-registry"
               /\ RegistryFiles(f) \subseteq d.files
    <3>1. Len(d.before) \in Nat
      BY LenProperties DEF IsPrepared, IsSound
    <3>2. /\ RegistryFiles(f) \subseteq d.files /\ Len(d.before) > 1
          /\ d.before[2] = "configure-registry"
      BY <2>1 DEF IsPrepared, HasRegistry
    <3>3. 2 \in 2 .. Len(d.before)
      BY <3>1, <3>2
    <3> QED
      BY <3>2, <3>3, Zenon
  <2> QED
    BY <2>1 DEF NodePulls
<1>4. UpdatesCAs(f) \/ f.internalCA = "" => NodeBoots(f, d)
  BY <1>2, PreparedRuns DEF IsPrepared, IsSound, NodeBoots, ScriptRuns
<1>5. UpdatesCAs(f) => NodeTrusts(f, d)
  BY <1>1 DEF IsPrepared, NodeTrusts
<1> QED
  BY <1>3, <1>4, <1>5 DEF BootsAsAsked

\* The files of a document after the Flatcar pass.
Ignited(files) == {[x EXCEPT !.permissions = TRUE] : x \in Rehomed(files) \cup UntaintFiles}

(***************************************************************************)
(* What becomes of a file on Flatcar.                                      *)
(***************************************************************************)
LEMMA IgnitionFiles ==
  ASSUME NEW files, \A x \in files : IsFile(x)
  PROVE  /\ \A z \in Ignited(files) : z.dir \notin Usr /\ z.permissions = TRUE
         /\ \A x \in files : x.dir \notin Usr /\ x.permissions = TRUE => x \in Ignited(files)
         /\ \A x \in files : x.dir = UsrTrust =>
              \E z \in Ignited(files) : z.holds = x.holds /\ z.dir = EtcTrust /\ z.ext = "pem"
<1> DEFINE new == Ignited(files)
<1>0. EtcTrust \notin Usr /\ UsrTrust \in Usr
  BY DEF EtcTrust, UsrTrust, Usr
<1>1. \A x \in UntaintFiles : IsFile(x) /\ x.dir \notin Usr
  BY FilesAreFiles DEF UntaintFiles, Script, File, Usr, UsrTrust
<1>2. ASSUME NEW x, IsFile(x)
      PROVE  [x EXCEPT !.permissions = TRUE]
               = [dir |-> x.dir, name |-> x.name, ext |-> x.ext, holds |-> x.holds,
                  permissions |-> TRUE]
  <2>1. PICK dir, name, ext, holds, permissions :
          x = [dir |-> dir, name |-> name, ext |-> ext, holds |-> holds,
               permissions |-> permissions]
    BY <1>2 DEF IsFile
  <2> DEFINE stated == TRUE
  <2> HIDE DEF stated
  <2>2. [x EXCEPT !.permissions = stated]
          = [dir |-> dir, name |-> name, ext |-> ext, holds |-> holds, permissions |-> stated]
    BY <2>1
  <2>3. /\ x.dir = dir /\ x.name = name /\ x.ext = ext /\ x.holds = holds
        /\ x.permissions = permissions
    BY <2>1
  <2> QED
    BY <2>2, <2>3, Zenon DEF stated
<1>3. ASSUME NEW x, IsFile(x)
      PROVE  [x EXCEPT !.dir = EtcTrust, !.ext = "pem"]
               = [dir |-> EtcTrust, name |-> x.name, ext |-> "pem", holds |-> x.holds,
                  permissions |-> x.permissions]
  <2>1. PICK dir, name, ext, holds, permissions :
          x = [dir |-> dir, name |-> name, ext |-> ext, holds |-> holds,
               permissions |-> permissions]
    BY <1>3 DEF IsFile
  <2> DEFINE pem == "pem"
             there == EtcTrust
  <2> HIDE DEF pem, there
  <2>2. [x EXCEPT !.dir = there, !.ext = pem]
          = [dir |-> there, name |-> name, ext |-> pem, holds |-> holds,
             permissions |-> permissions]
    <3> DEFINE y == [x EXCEPT !.dir = there]
    <3>1. y = [dir |-> there, name |-> name, ext |-> ext, holds |-> holds,
               permissions |-> permissions]
      BY <2>1
    <3>2. [x EXCEPT !.dir = there, !.ext = pem] = [y EXCEPT !.ext = pem]
      BY <2>1
    <3> HIDE DEF y
    <3>3. [y EXCEPT !.ext = pem]
            = [dir |-> there, name |-> name, ext |-> pem, holds |-> holds,
               permissions |-> permissions]
      BY <3>1
    <3> QED
      BY <3>2, <3>3, Zenon
  <2>3. /\ x.dir = dir /\ x.name = name /\ x.ext = ext /\ x.holds = holds
        /\ x.permissions = permissions
    BY <2>1
  <2> QED
    BY <2>2, <2>3, Zenon DEF pem, there
<1>4. ASSUME NEW x \in Rehomed(files)
      PROVE  IsFile(x) /\ x.dir \notin Usr
  <2>1. PICK y \in files : /\ y.dir \in Usr => y.dir = UsrTrust
                           /\ x = IF y.dir = UsrTrust
                                  THEN [y EXCEPT !.dir = EtcTrust, !.ext = "pem"] ELSE y
    BY DEF Rehomed
  <2>2. CASE y.dir = UsrTrust
    <3>1. x = [dir |-> EtcTrust, name |-> y.name, ext |-> "pem", holds |-> y.holds,
               permissions |-> y.permissions]
      BY <1>3, <2>1, <2>2
    <3> QED
      BY <1>0, <3>1 DEF IsFile
  <2>3. CASE y.dir # UsrTrust
    BY <2>1, <2>3
  <2> QED
    BY <2>2, <2>3
<1>5. ASSUME NEW z \in new PROVE z.dir \notin Usr /\ z.permissions = TRUE
  <2>1. PICK x \in Rehomed(files) \cup UntaintFiles : z = [x EXCEPT !.permissions = TRUE]
    BY DEF Ignited
  <2>2. IsFile(x) /\ x.dir \notin Usr
    BY <1>1, <1>4
  <2>3. z = [dir |-> x.dir, name |-> x.name, ext |-> x.ext, holds |-> x.holds, permissions |-> TRUE]
    BY <1>2, <2>1, <2>2
  <2> QED
    BY <2>2, <2>3
<1>6. ASSUME NEW x \in files, x.dir \notin Usr, x.permissions = TRUE PROVE x \in new
  <2>1. x \in Rehomed(files)
    BY <1>0, <1>6 DEF Rehomed
  <2>2. [x EXCEPT !.permissions = TRUE] = x
    BY <1>2, <1>6 DEF IsFile
  <2> QED
    BY <2>1, <2>2 DEF Ignited
<1>7. ASSUME NEW x \in files, x.dir = UsrTrust
      PROVE  \E z \in new : z.holds = x.holds /\ z.dir = EtcTrust /\ z.ext = "pem"
  <2> DEFINE y == [x EXCEPT !.dir = EtcTrust, !.ext = "pem"]
             z == [y EXCEPT !.permissions = TRUE]
  <2>1. y \in Rehomed(files)
    BY <1>7 DEF Rehomed
  <2>2. y = [dir |-> EtcTrust, name |-> x.name, ext |-> "pem", holds |-> x.holds,
             permissions |-> x.permissions]
    BY <1>3
  <2>3. z \in new
    BY <2>1 DEF Ignited
  <2> HIDE DEF y
  <2>4. z.holds = x.holds /\ z.dir = EtcTrust /\ z.ext = "pem"
    BY <2>2
  <2> QED
    BY <2>3, <2>4
<1> QED
  BY <1>5, <1>6, <1>7

(***************************************************************************)
(* On Flatcar it does so after the Ignition pass.                          *)
(***************************************************************************)
LEMMA IgnitionBoots ==
  ASSUME NEW f, NEW d, IsPrepared(f, d), Flatcar(f) PROVE BootsAsAsked(f, Ignition(d))
<1> DEFINE new == Ignited(d.files)
           e == Ignition(d)
<1>1. d = [files |-> d.files, before |-> d.before, after |-> d.after, flags |-> d.flags,
           format |-> d.format]
  BY DEF IsPrepared, IsSound
<1>2. /\ e.files = new /\ e.before = d.before /\ e.flags = d.flags /\ e.format = "ignition"
  <2>1. e = [d EXCEPT !.format = "ignition", !.files = new, !.after = Append(d.after, "untaint")]
    BY <1>1 DEF Ignition, Ignited
  <2> HIDE DEF e, new
  <2> QED
    BY <1>1, <2>1
<1>3. \A x \in d.files : IsFile(x)
  BY DEF IsPrepared, IsSound
<1> HIDE DEF e
<1>4. /\ \A z \in new : z.dir \notin Usr /\ z.permissions = TRUE
      /\ \A x \in d.files : x.dir \notin Usr /\ x.permissions = TRUE => x \in new
      /\ \A x \in d.files : x.dir = UsrTrust =>
           \E z \in new : z.holds = x.holds /\ z.dir = EtcTrust /\ z.ext = "pem"
  BY <1>3, IgnitionFiles
<1> HIDE DEF new
<1>u. UpdatesCAs(f)
  BY DEF Flatcar, UpdatesCAs
<1>5. ASSUME NEW s, Script(s) \in d.files PROVE Script(s) \in new
  <2>1. Script(s).dir \notin Usr /\ Script(s).permissions = TRUE
    BY DEF Script, File, Usr, UsrTrust
  <2> QED
    BY <1>4, <1>5, <2>1
<1>6. ASSUME NEW ca \in TrustedCAs(f)
      PROVE  \E x \in new : x.holds = ca /\ Anchored(f, x)
  <2>1. CAFileOf(ca) \in d.files
    BY DEF IsPrepared
  <2>2. PICK z \in new : z.holds = CAFileOf(ca).holds /\ z.dir = EtcTrust /\ z.ext = "pem"
    BY <1>4, <2>1, CAFiles
  <2> QED
    BY <1>u, <2>2, CAFiles DEF Anchored
<1>7. "ca-file" \in d.flags => \E x \in new : x.holds = "OIDC CA"
  <2>1. /\ OIDCFile.holds = "OIDC CA" /\ OIDCFile.dir \notin Usr /\ OIDCFile.permissions = TRUE
    BY DEF OIDCFile, File, Usr, UsrTrust
  <2> QED
    BY <1>4, <2>1 DEF IsPrepared, IsSound
<1>8. /\ d.before[1] = "upstream"
      /\ \A n \in 2 .. Len(d.before) : Script(d.before[n]) \in new
      /\ TrustedCAs(f) # {} => Len(d.before) > 1
  BY <1>5 DEF IsPrepared, IsSound
<1>9. NodeBoots(f, e)
  BY <1>2, <1>4, <1>7, <1>8, <1>u DEF NodeBoots, ScriptRuns
<1>10. NodeTrusts(f, e)
  BY <1>2, <1>6, <1>8 DEF NodeTrusts
<1>11. NodePulls(f, e)
  <2> SUFFICES ASSUME RegistryEnabled(f)
               PROVE  /\ \E n \in 2 .. Len(e.before) : e.before[n] = "configure-registry"
                      /\ \A x \in RegistryFiles(f) :
                           x # CAFile(UsrTrust, "registry", "registry CA") => x \in e.files
    BY DEF NodePulls
  <2>1. RegistryFiles(f) \subseteq d.files /\ Len(d.before) > 1 /\ d.before[2] = "configure-registry"
    BY DEF IsPrepared, HasRegistry
  <2>2. Len(d.before) \in Nat
    BY LenProperties DEF IsPrepared, IsSound
  <2>3. 2 \in 2 .. Len(d.before)
    BY <2>1, <2>2
  <2>4. ASSUME NEW x \in RegistryFiles(f), x # CAFile(UsrTrust, "registry", "registry CA")
        PROVE  x.dir \notin Usr /\ x.permissions = TRUE
    <3>1. \/ x = Script("configure-registry")
          \/ x = File("/etc/containerd/certs.d", "hosts", "toml", "hosts")
          \/ x = CAFile("/etc/containerd/certs.d", "ca", "registry CA")
      BY <2>4 DEF RegistryFiles
    <3>2. \E dir, name, ext, holds : x = File(dir, name, ext, holds) /\ dir \notin Usr
      <4>1. "/etc/pvekube" \notin Usr /\ "/etc/containerd/certs.d" \notin Usr
        BY DEF Usr, UsrTrust
      <4> QED
        BY <3>1, <4>1, Zenon DEF Script, CAFile
    <3> QED
      BY <3>2 DEF File
  <2>5. ASSUME NEW x \in RegistryFiles(f), x # CAFile(UsrTrust, "registry", "registry CA")
        PROVE  x \in new
    BY <1>4, <2>1, <2>4, <2>5
  <2> QED
    BY <1>2, <2>1, <2>3, <2>5
<1>12. BootsAsAsked(f, e)
  BY <1>9, <1>10, <1>11 DEF BootsAsAsked
<1> QED
  BY <1>12 DEF e

(***************************************************************************)
(* The passes before Flatcar's keep every kind of document, and change the *)
(* documents that are no bootstraps only by the connection's Secret and    *)
(* the linked clones.                                                      *)
(***************************************************************************)
LEMMA PassesDo ==
  ASSUME NEW f, NEW m, NEW m1, m1 = LinkClones(m), NEW m2, m2 = InjectRegistryTrust(f, m1),
         NEW m3, m3 = InjectOIDCAuth(f, m2), NEW m4, m4 = InjectCredentialsRef(f, m3),
         NEW m5, m5 = InjectInternalCATrust(f, m4)
  PROVE  /\ DOMAIN m5 = DOMAIN m
         /\ \A k \in DOMAIN m \ Bootstraps :
              m5[k] = IF k = "ProxmoxCluster"
                      THEN [m1[k] EXCEPT !.credentials = f.connection] ELSE m1[k]
<1>1. DOMAIN m1 = DOMAIN m
  BY LinkClonesDoes
<1>2. /\ DOMAIN m2 = DOMAIN m1
      /\ \A k \in DOMAIN m1 : m2[k] = IF RegistryEnabled(f) /\ k \in Bootstraps
                   THEN WithFiles(m1[k], RegistryFiles(f), "configure-registry") ELSE m1[k]
  BY RegistryDoes
<1>3. /\ DOMAIN m3 = DOMAIN m2
      /\ \A k \in DOMAIN m2 : m3[k] = IF OIDCEnabled(f) /\ k = "KubeadmControlPlane"
                                     THEN WithOIDC(f, m2[k]) ELSE m2[k]
  BY OIDCDoes
<1>4. /\ DOMAIN m4 = DOMAIN m3
      /\ \A k \in DOMAIN m3 : m4[k] = IF k = "ProxmoxCluster"
                   THEN [m3[k] EXCEPT !.credentials = f.connection] ELSE m3[k]
  BY CredentialsDo
<1>5. /\ DOMAIN m5 = DOMAIN m4
      /\ \A k \in DOMAIN m4 : m5[k] = IF f.internalCA # "" /\ k \in Bootstraps
                   THEN WithFiles(m4[k], InternalCAFiles, "install-internal-ca") ELSE m4[k]
  BY DEF InjectInternalCATrust, Inject
<1>6. ASSUME NEW k \in DOMAIN m, k \notin Bootstraps
      PROVE  m5[k] = IF k = "ProxmoxCluster"
                     THEN [m1[k] EXCEPT !.credentials = f.connection] ELSE m1[k]
  <2>1. k # "KubeadmControlPlane"
    BY <1>6 DEF Bootstraps
  <2>2. m2[k] = m1[k] /\ k \in DOMAIN m1 /\ k \in DOMAIN m2
    BY <1>1, <1>2, <1>6
  <2>3. m3[k] = m2[k] /\ k \in DOMAIN m3
    BY <1>3, <2>1, <2>2
  <2>4. m5[k] = m4[k]
    BY <1>4, <1>5, <1>6, <2>3
  <2> QED
    BY <1>4, <2>2, <2>3, <2>4
<1> QED
  BY <1>1, <1>2, <1>3, <1>4, <1>5, <1>6

(***************************************************************************)
(* What Generate makes of a rendered manifest boots and trusts as far as   *)
(* its image allows, whatever the form asks for.                           *)
(***************************************************************************)
LEMMA GeneratedBoots ==
  ASSUME NEW f, NEW m, IsRendered(m), "ProxmoxCluster" \in DOMAIN m
  PROVE  ManifestBoots(f, Generate(f, m))
<1> DEFINE m1 == LinkClones(m)
           m5 == Passes(f, m)
           g  == Generate(f, m)
           c  == "ProxmoxCluster"
           t  == "ProxmoxMachineTemplate"
<1>1. g = InjectIgnitionFormat(f, m5)
  BY DEF Generate, Passes
<1>2. /\ DOMAIN m5 = DOMAIN m
      /\ \A k \in DOMAIN m \ Bootstraps :
           m5[k] = IF k = "ProxmoxCluster"
                   THEN [m1[k] EXCEPT !.credentials = f.connection] ELSE m1[k]
  BY PassesDo DEF Passes
<1>3. \A k \in DOMAIN m : k \in Bootstraps => IsPrepared(f, m5[k])
  BY PassesPrepare
<1>k. c \notin Bootstraps /\ t \notin Bootstraps /\ t # c
  BY DEF Bootstraps
<1> HIDE DEF m5
<1>m. \A k \in DOMAIN m : m1[k] = IF k = "ProxmoxMachineTemplate"
                                 THEN Linked(m[k]) ELSE m[k]
  BY LinkClonesDoes
<1> HIDE DEF m1
<1>4. m5[c].credentials = f.connection
  <2>1. m5[c] = [m[c] EXCEPT !.credentials = f.connection]
    BY <1>2, <1>k, <1>m
  <2>2. m[c] = [credentials |-> m[c].credentials]
    BY <1>k DEF IsRendered, IsRenderedDoc
  <2> HIDE DEF c
  <2> QED
    BY <2>1, <2>2
<1>5. t \in DOMAIN m => "skipCloudInit" \in DOMAIN m5[t]
  <2> SUFFICES ASSUME t \in DOMAIN m PROVE "skipCloudInit" \in DOMAIN m5[t]
    OBVIOUS
  <2>1. m5[t] = Linked(m[t])
    BY <1>2, <1>k, <1>m
  <2>2. m[t] = [skipCloudInit |-> m[t].skipCloudInit, full |-> m[t].full, disk |-> m[t].disk]
    BY <1>k DEF IsRendered, IsRenderedDoc
  <2> HIDE DEF t
  <2> QED
    BY <2>1, <2>2 DEF Linked
<1>6. /\ DOMAIN g = DOMAIN m
      /\ \A k \in DOMAIN m :
           g[k] = IF Flatcar(f) /\ k \in Bootstraps THEN Ignition(m5[k])
                  ELSE IF Flatcar(f) /\ k = "ProxmoxMachineTemplate"
                  THEN [m5[k] EXCEPT !.skipCloudInit = TRUE] ELSE m5[k]
  BY <1>1, <1>2, IgnitionDoes
<1> HIDE DEF g
<1>7. ASSUME NEW k \in Bootstraps \cap DOMAIN g PROVE BootsAsAsked(f, g[k])
  <2>1. IsPrepared(f, m5[k]) /\ k \in DOMAIN m
    BY <1>3, <1>6
  <2>2. CASE Flatcar(f)
    <3>1. g[k] = Ignition(m5[k])
      BY <1>6, <2>1, <2>2
    <3> QED
      BY <2>1, <2>2, <3>1, IgnitionBoots
  <2>3. CASE ~Flatcar(f)
    <3>1. g[k] = m5[k]
      BY <1>6, <2>1, <2>3
    <3> QED
      BY <2>1, <2>3, <3>1, PreparedBoots
  <2> QED
    BY <2>2, <2>3
<1>8. g["ProxmoxCluster"].credentials = f.connection
  <2>1. "ProxmoxCluster" \notin Bootstraps
    BY DEF Bootstraps
  <2>2. g["ProxmoxCluster"] = m5["ProxmoxCluster"]
    BY <1>6, <2>1
  <2> QED
    BY <1>4, <2>2
<1>9. ASSUME Flatcar(f), "ProxmoxMachineTemplate" \in DOMAIN g
      PROVE  g["ProxmoxMachineTemplate"].skipCloudInit
  <2>1. "ProxmoxMachineTemplate" \notin Bootstraps
    BY DEF Bootstraps
  <2>2. g["ProxmoxMachineTemplate"] = [m5["ProxmoxMachineTemplate"] EXCEPT !.skipCloudInit = TRUE]
    BY <1>6, <1>9, <2>1
  <2> QED
    BY <1>5, <1>6, <1>9, <2>2
<1> QED
  BY <1>7, <1>8, <1>9 DEF ManifestBoots, BootsAsAsked, g

-----------------------------------------------------------------------------
(***************************************************************************)
(* Generate's passes (generate.go) do not undo each other, whatever        *)
(* clusterctl renders: of a manifest that was shown, containerd finds the  *)
(* registry on every node; on Ubuntu and Flatcar every node boots, with    *)
(* scripts that end well, and trusts each CA of the form; on Rocky Linux   *)
(* it boots unless there is an internal CA to install.                     *)
(***************************************************************************)
THEOREM NodesBoot == ProvisionSpec => []NodesBootTrusting
<1> DEFINE IInv == (place = "form" => form = shown) /\ NodesBootTrusting
<1>1. ProvisionInit => IInv
  BY DEF ProvisionInit, NodesBootTrusting
<1>2. IInv /\ [ProvisionNext]_provisionVars => IInv'
  <2> SUFFICES ASSUME IInv, [ProvisionNext]_provisionVars PROVE IInv'
    OBVIOUS
  <2>1. ASSUME NEW answers \in BOOLEAN, NEW rendered \in Rendered, Preview(answers, rendered)
        PROVE  IInv'
    <3>1. /\ place = "form" /\ form = shown /\ shown' = shown
          /\ place' \in {"previewed", "refused"}
          /\ \/ manifest' = manifest
             \/ CanGenerate(form, rendered) /\ manifest' = Generate(form, rendered)
      BY <2>1 DEF Preview
    <3>2. IsRendered(rendered)
      BY RenderedAssumption
    <3>3. CASE manifest' = manifest
      BY <3>1, <3>3 DEF NodesBootTrusting
    <3>4. CASE CanGenerate(form, rendered) /\ manifest' = Generate(form, rendered)
      <4>1. ManifestBoots(form, Generate(form, rendered))
        BY <3>2, <3>4, GeneratedBoots DEF CanGenerate
      <4>2. ManifestBoots(shown', manifest')
        BY <3>1, <3>4, <4>1, Zenon
      <4> QED
        BY <3>1, <4>2 DEF NodesBootTrusting
    <3> QED
      BY <3>1, <3>3, <3>4
  <2>2. ASSUME NEW answers \in BOOLEAN, Apply(answers) PROVE IInv'
    BY <2>2 DEF Apply, NodesBootTrusting
  <2>3. CASE RemoveTemplate \/ Forget
    BY <2>3 DEF RemoveTemplate, Forget, NodesBootTrusting
  <2>4. CASE JobRuns \/ Stop \/ Die \/ NodesChange \/ Reload
    <3>1. UNCHANGED <<form, shown, manifest>> /\ place' # "form"
      BY <2>4, JobKeepsPage DEF JobPlaces, Ended
    <3> QED
      BY <3>1 DEF NodesBootTrusting
  <2>5. CASE UNCHANGED provisionVars
    BY <2>5 DEF provisionVars, pageVars, NodesBootTrusting
  <2> QED
    BY <2>1, <2>2, <2>3, <2>4, <2>5 DEF ProvisionNext
<1> QED
  BY <1>1, <1>2, PTL DEF ProvisionSpec
=============================================================================
