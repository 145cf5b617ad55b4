------------------------------ MODULE Provision ------------------------------
(***************************************************************************)
(* One cluster from its form to the end of its apply job: preview, apply,  *)
(* and the steps of ApplySpec on a workload cluster that comes up slowly,  *)
(* answers now and then, and whose nodes come and go.  Exclusion and       *)
(* records are the business of ClusterLifecycle.                           *)
(***************************************************************************)
EXTENDS Manifest, Corefile

CONSTANTS
  Forms,      \* the forms an operator may send
  Rendered,   \* manifests clusterctl may render
  Corefiles,  \* Corefiles a new cluster may come with
  Nothing,    \* what is remembered of no form
  Memories,   \* what may be remembered of earlier forms
  Templates,  \* template rows of the connection
  Answering,  \* addresses that reply to each ping
  Stable,     \* successful probes in a row, 5
  Patience    \* bound: failed polls until a wait's deadline

ASSUME ProvisionAssumption == Stable \in Nat \ {0} /\ Patience \in Nat

ASSUME FormsAssumption ==
  /\ Forms \subseteq FormRecords
  /\ \A m \in Memories \cup {Nothing} : m \in MemoryRecords /\ MemoryOK(m)

ASSUME AnsweringAssumption == Answering \subseteq IPs

ASSUME RenderedAssumption == \A m \in Rendered : IsRendered(m)

ASSUME CorefilesAssumption == Corefiles \subseteq Files

VARIABLES
  form,       \* the form as last posted
  shown,      \* the form the manifest on the screen was generated from
  manifest,   \* that manifest
  templates,
  remembered, \* cluster_defaults: the values the next form begins with
  place, step, command,   \* where the request, then the job, is
  streak, waited,         \* probes in a row that succeeded; polls that failed
  expected,   \* nodes the job waits for
  ready,      \* nodes that are Ready
  held,       \* the cluster's kubeconfig lies in the data directory
  corefile,   \* the ConfigMap
  served      \* the Corefile CoreDNS runs on

pageVars  == <<form, shown, manifest, templates, remembered>>
waitVars  == <<streak, waited, expected>>
provisionVars == <<pageVars, place, step, command, waitVars, ready, held, corefile, served>>

JobPlaces == {"secret", "stable", "commands"}
Ended     == {"refused", "failed", "succeeded", "interrupted"}
Pages     == {"form", "previewed"}

ProvisionTypeOK ==
  /\ form \in {shown, Carried(shown)}
  /\ templates \subseteq Templates
  /\ place \in Pages \cup JobPlaces \cup Ended
  /\ step \in 1 .. Len(JobSteps(form)) + 1
  /\ command \in 1 .. 5
  /\ streak \in 0 .. Stable - 1 /\ waited \in 0 .. Patience
  /\ expected \in Nat /\ ready \in Nat
  /\ held \in BOOLEAN

ProvisionInit ==
  /\ form \in Forms /\ shown = form
  /\ manifest = << >>
  /\ templates = Templates
  /\ remembered \in Memories
  /\ place = "form" /\ step = 1 /\ command = 1
  /\ streak = 0 /\ waited = 0 /\ expected = 0 /\ ready = 0
  /\ held = FALSE
  /\ corefile \in Corefiles /\ served = corefile

Declared == form.controlPlanes + form.workers
Zones    == Cardinality(form.dns.domains)

Steps   == JobSteps(form)
Now     == Commands(form, Steps[step])
Running(c) == place = "commands" /\ Now # << >> /\ Now[command] = c

-----------------------------------------------------------------------------
(* handleClustersPreview and handleClustersApply *)

\* The endpoint is pinged; a ping that is lost, or not to be had, is no answer.
Pinged(answers) == form.plan.endpoint \in Answering => answers

Preview(answers, rendered) ==
  /\ place = "form" /\ Pinged(answers)
  /\ IF FormAccepted(form, templates, answers) /\ CanGenerate(form, rendered)
     THEN place' = "previewed" /\ manifest' = Generate(form, rendered)
     ELSE place' = "refused" /\ UNCHANGED manifest
  /\ UNCHANGED <<form, shown, templates, remembered, step, command, waitVars, ready, held, corefile, served>>

\* Another page deletes the template between preview and apply.
RemoveTemplate ==
  /\ place = "previewed" /\ templates # {}
  /\ templates' = {}
  /\ UNCHANGED <<form, shown, manifest, remembered, place, step, command, waitVars, ready,
                 held, corefile, served>>

\* handleClustersDefaultsClear
Forget ==
  /\ place = "previewed" /\ remembered # Nothing
  /\ remembered' = Nothing
  /\ UNCHANGED <<form, shown, manifest, templates, place, step, command, waitVars, ready, held,
                 corefile, served>>

\* A row that cannot be read counts as none, and a write that fails is logged.
Remember(f) == remembered' \in {Merged(remembered, f), Merged(Nothing, f), remembered}

\* What the page posts is parsed and checked once more.  The cluster's row may
\* be refused, and after the form has been remembered the lock may be busy.
\* The job does not need the workload cluster for its first step.
Apply(answers) ==
  /\ place = "previewed" /\ Pinged(answers)
  /\ form' = Carried(shown)
  /\ \/ place' = "refused" /\ UNCHANGED remembered
     \/ /\ FormAccepted(form', templates, answers)
        /\ Remember(form')
        /\ place' \in {"commands", "refused"}
  /\ UNCHANGED <<shown, manifest, templates, step, command, waitVars, ready, held,
                 corefile, served>>

-----------------------------------------------------------------------------
(* waitForWorkloadKubeconfig *)

\* The polls there are: for the Secret, of the API server, of the nodes.
Polling ==
  \/ place \in {"secret", "stable"}
  \/ Running("count nodes") /\ expected > 0 /\ ready < expected

\* Gate 1; the file is written once the Secret has been read.
FindSecret ==
  /\ place = "secret"
  /\ place' = "stable" /\ held' = TRUE /\ streak' = 0
  /\ UNCHANGED <<pageVars, step, command, waited, expected, ready, corefile, served>>

\* Mutant of Probe: one success more than that is counted.
ProbeOnceMore ==
  /\ place = "stable"
  /\ IF streak = Stable
     THEN place' = "commands" /\ streak' = 0 /\ waited' = 0
     ELSE streak' = streak + 1 /\ UNCHANGED <<place, waited>>
  /\ UNCHANGED <<pageVars, step, command, expected, ready, held, corefile, served>>

\* Gate 2.
Probe ==
  /\ place = "stable"
  /\ IF streak + 1 = Stable
     THEN place' = "commands" /\ streak' = 0 /\ waited' = 0
     ELSE streak' = streak + 1 /\ UNCHANGED <<place, waited>>
  /\ UNCHANGED <<pageVars, step, command, expected, ready, held, corefile, served>>

\* Mutant of PollFails: a poll that fails after one that succeeded starts the
\* time anew.
PollFailsForever ==
  /\ Polling
  /\ streak' = 0
  /\ IF waited < Patience \/ streak > 0
     THEN waited' = (IF streak > 0 THEN 0 ELSE waited + 1) /\ UNCHANGED <<place, held>>
     ELSE place' = "failed" /\ held' = FALSE /\ UNCHANGED waited
  /\ UNCHANGED <<pageVars, step, command, expected, ready, corefile, served>>

\* Mutant of PollFails: a wait that fails leaves its file.
PollFailsUntidily ==
  /\ Polling
  /\ streak' = 0
  /\ IF waited < Patience
     THEN waited' = waited + 1 /\ UNCHANGED <<place, held>>
     ELSE place' = "failed" /\ UNCHANGED <<waited, held>>
  /\ UNCHANGED <<pageVars, step, command, expected, ready, corefile, served>>

\* A poll that fails begins the row of successes anew, and fails the step,
\* which removes its file, when the deadline has passed.
PollFails ==
  /\ Polling
  /\ streak' = 0
  /\ IF waited < Patience
     THEN waited' = waited + 1 /\ UNCHANGED <<place, held>>
     ELSE place' = "failed" /\ held' = FALSE /\ UNCHANGED waited
  /\ UNCHANGED <<pageVars, step, command, expected, ready, corefile, served>>

-----------------------------------------------------------------------------
(* The commands of a step *)

\* The step after s begins, or the job has succeeded.
Enter(s) ==
  /\ step' = s /\ command' = 1 /\ waited' = 0 /\ held' = FALSE
  /\ place' = IF s > Len(Steps) THEN "succeeded"
              ELSE IF NeedsWorkload(form, Steps[s]) THEN "secret" ELSE "commands"

Proceed ==
  IF command < Len(Now)
  THEN command' = command + 1 /\ UNCHANGED <<place, step, waited, held>>
  ELSE Enter(step + 1)

\* A step without commands: the plain CNI flavor.
SkipStep ==
  /\ place = "commands" /\ Now = << >>
  /\ Enter(step + 1)
  /\ UNCHANGED <<pageVars, streak, expected, ready, corefile, served>>

\* The declared counts are read from the management cluster, once; a read
\* that fails, or a count no cluster can have, leaves one control plane, or no
\* workers.
CountNodes ==
  /\ Running("count nodes") /\ expected = 0
  /\ \E c \in {n \in {form.controlPlanes, 1} : n > 0}, w \in {n \in {form.workers, 0} : n >= 0} :
       expected' = c + w
  /\ UNCHANGED <<pageVars, place, step, command, streak, waited, ready, held, corefile, served>>

NodesReady ==
  /\ Running("count nodes") /\ expected > 0 /\ ready >= expected
  /\ Proceed
  /\ UNCHANGED <<pageVars, streak, expected, ready, corefile, served>>

\* A ConfigMap that has the block as it should be is left alone, and CoreDNS
\* is not restarted.
PatchCorefile ==
  /\ Running("patch corefile")
  /\ corefile' = WithPrivateZones(corefile, Zones)
  /\ IF corefile' = corefile THEN Enter(step + 1) ELSE Proceed
  /\ UNCHANGED <<pageVars, streak, expected, ready, served>>

RestartCoreDNS ==
  /\ Running("restart coredns")
  /\ served' = corefile
  /\ Proceed
  /\ UNCHANGED <<pageVars, streak, expected, ready, corefile>>

\* Any other command; Commands says in which order they come.
RunCommand ==
  /\ place = "commands" /\ Now # << >>
  /\ Now[command] \notin {"count nodes", "patch corefile", "restart coredns"}
  /\ Proceed
  /\ UNCHANGED <<pageVars, streak, expected, ready, corefile, served>>

\* A command fails or the job is cancelled: the file goes, the rest stays.
Stop ==
  /\ place \in JobPlaces
  /\ place' = "failed" /\ held' = FALSE
  /\ UNCHANGED <<pageVars, step, command, waitVars, ready, corefile, served>>

\* The process dies.
Die ==
  /\ place \in JobPlaces
  /\ place' = "interrupted"
  /\ UNCHANGED <<pageVars, step, command, waitVars, ready, held, corefile, served>>

-----------------------------------------------------------------------------
(* The workload cluster *)

\* Nodes become Ready and stop being it; only the wait for them looks.
NodesChange ==
  /\ Running("count nodes")
  /\ \E n \in {ready - 1, ready + 1} : n \in 0 .. Declared /\ ready' = n
  /\ UNCHANGED <<pageVars, place, step, command, waitVars, held, corefile, served>>

\* kubelet has brought the ConfigMap to CoreDNS, which reloads it.
Reload ==
  /\ place \in JobPlaces /\ served # corefile
  /\ served' = corefile
  /\ UNCHANGED <<pageVars, place, step, command, waitVars, ready, held, corefile>>

-----------------------------------------------------------------------------
JobRuns == \/ FindSecret \/ Probe \/ PollFails
           \/ SkipStep \/ CountNodes \/ NodesReady
           \/ PatchCorefile \/ RestartCoreDNS \/ RunCommand

ProvisionNext ==
  \/ \E answers \in BOOLEAN : \/ \E rendered \in Rendered : Preview(answers, rendered)
                              \/ Apply(answers)
  \/ RemoveTemplate \/ Forget \/ JobRuns \/ Stop \/ Die \/ NodesChange \/ Reload

ProvisionSpec == ProvisionInit /\ [][ProvisionNext]_provisionVars

\* The job's goroutine goes on, and what it calls returns; nobody owes it a
\* cluster that answers or nodes that become Ready.
ProvisionFairness == WF_provisionVars(JobRuns)

-----------------------------------------------------------------------------
(* Properties *)

(***************************************************************************)
(* The passes of Generate (generate.go) do not undo each other.  Of a      *)
(* manifest that was shown, every node's containerd finds the registry and *)
(* its CA; on Ubuntu and Flatcar every node boots, with scripts it has and *)
(* that end well, and its system trusts each CA of the form, wherever the  *)
(* image looks for one.  On Rocky Linux, which has no                      *)
(* update-ca-certificates, a node boots unless the form has an internal CA *)
(* (trust.go), and its system is not said to trust any.                    *)
(***************************************************************************)
NodesBootTrusting == manifest # << >> => ManifestBoots(shown, manifest)

(***************************************************************************)
(* A plan that was let through puts gateway, endpoint and every machine in *)
(* one subnet, no machine at the gateway's or the endpoint's address, and  *)
(* the endpoint at none that answers (ipplan.Validate): an endpoint that   *)
(* is the gateway's own address passes only where the gateway is silent.   *)
(***************************************************************************)
AcceptedPlanFits ==
  place \in JobPlaces \cup {"previewed"} =>
    PlanFits(form.plan) /\ form.plan.endpoint \notin Answering

(***************************************************************************)
(* What the apply does is what the preview showed: the hidden fields of    *)
(* the page lose nothing that a step, a command or a node needs.           *)
(***************************************************************************)
ApplyMatchesPreview ==
  place \in JobPlaces =>
    /\ Steps = JobSteps(shown)
    /\ \A s \in 1 .. Len(Steps) : Commands(form, Steps[s]) = Commands(shown, Steps[s])
    /\ TrustedCAs(form) = TrustedCAs(shown) /\ form.plan = shown.plan

(***************************************************************************)
(* Left as it comes pre-filled, a new form is not refused for its registry *)
(* OIDC and DNS sections: remembering the fields of several forms one by   *)
(* one (saveClusterDefaults) leaves no password without a user, no server  *)
(* without a domain, as long as the sealing key stays what it was.  It is  *)
(* not so for Git, where an older token may stay next to a newer ssh       *)
(* address.                                                                *)
(***************************************************************************)
PrefilledIsAccepted == MemoryOK(remembered)

(***************************************************************************)
(* The DNS step leaves one block, with the zones of the form, keeps what   *)
(* others wrote in its order, and would change nothing the second time     *)
(* (applyPrivateDNSToCorefile).                                            *)
(***************************************************************************)
CorefileKept ==
  [][corefile' # corefile =>
       /\ HasOneBlock(corefile', Zones)
       /\ KeepsOthers(corefile, corefile')
       /\ WithPrivateZones(corefile', Zones) = corefile']_provisionVars

(***************************************************************************)
(* When Flux is told of the Git server, CoreDNS already forwards the       *)
(* form's private domains: the block is not only written but served, and   *)
(* written before (ConfigurePrivateDNSStep's ordering, asserted by the     *)
(* caller).                                                                *)
(***************************************************************************)
FetchesThroughPrivateDNS ==
  Running("source") /\ DNSEnabled(form) => HasOneBlock(served, Zones)

(***************************************************************************)
(* The workload cluster's kubeconfig lies on disk only while a step uses   *)
(* it; a step that ends, fails or is cancelled takes it away, and only the *)
(* death of the process leaves it.                                         *)
(***************************************************************************)
NoCredentialsLeft == held => place \in {"stable", "commands", "interrupted"}

(***************************************************************************)
(* An apply job ends, whatever the workload cluster does.                  *)
(***************************************************************************)
ApplyEnds == place \in JobPlaces ~> place \in Ended
=============================================================================
