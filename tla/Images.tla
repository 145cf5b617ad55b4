-------------------------------- MODULE Images --------------------------------
(***************************************************************************)
(* Node images: the template.build and template.validate jobs, which share *)
(* the image-builder checkout and leave a container and a VM behind them   *)
(* when they go wrong, the template rows, and their deletion, while VMs    *)
(* come and go in Proxmox by other hands.                                  *)
(***************************************************************************)
EXTENDS Naturals, FiniteSets

CONSTANTS
  Builds,     \* submissions of the build form
  Checks,     \* submissions that only validate
  VMIDs,      \* the ids Proxmox has left
  Nobody,     \* no build
  MaxMishaps  \* bound: times the process dies, or docker rm fails

ASSUME ImagesAssumption ==
  /\ Builds \cap Checks = {} /\ Nobody \notin Builds \cup Checks
  /\ VMIDs \subseteq Nat /\ IsFiniteSet(VMIDs) /\ VMIDs # {}
  /\ MaxMishaps \in Nat

Jobs == Builds \cup Checks

VARIABLES
  at,         \* where each submission, then its job, is
  vmid,       \* the id allocated to each build
  vm,         \* what is at each id: <<"free" | "other" | "half" | "image", build>>
  container,  \* pvekube-build-<vmid>: <<phase, build>>
  template,   \* packer.json.tmpl in the checkout
  rendered,   \* packer.json
  rows,       \* builds with a template row
  used,       \* rows that a cluster references
  deleting,   \* the deletion of a template: <<"idle" | "looked" | "destroyed", row>>
  stale,      \* history: rows whose image went otherwise than with them
  late,       \* history: a cluster came to the row after the deletion had looked
  mishaps

checkoutVars == <<template, rendered>>
rowVars      == <<rows, used, deleting, late>>
imageVars    == <<at, vmid, vm, container, checkoutVars, rowVars, stale, mishaps>>

AtWork == {"clone", "cloning", "render", "stage", "check", "checking",
              "checked", "build", "running", "record"}

Free     == <<"free", Nobody>>
Half(b)  == <<"half", b>>
Image(b) == <<"image", b>>
NoContainer  == <<"none", Nobody>>
NotDeleting  == <<"idle", Nobody>>

VMStates        == {Free, <<"other", Nobody>>} \cup {"half", "image"} \X Builds
ContainerStates == {NoContainer} \cup {"started", "reset", "ready", "made"} \X Builds
Deletions       == {NotDeleting} \cup {"looked", "destroyed"} \X rows

ImagesTypeOK ==
  /\ at \in [Jobs -> AtWork \cup {"idle", "asked", "over"}]
  /\ vmid \in [Builds -> VMIDs \cup {0}]
  /\ vm \in [VMIDs -> VMStates]
  /\ container \in [VMIDs -> ContainerStates]
  /\ template \in {"none", "cloning", "upstream", "patched"}
  /\ rendered \in {"absent", "upstream", "patched"}
  /\ used \subseteq rows /\ rows \cup stale \subseteq Builds /\ late \in BOOLEAN
  /\ deleting \in Deletions
  /\ mishaps \in 0 .. MaxMishaps

ImagesInit ==
  /\ at = [j \in Jobs |-> "idle"]
  /\ vmid = [b \in Builds |-> 0]
  /\ vm = [v \in VMIDs |-> Free]
  /\ container = [v \in VMIDs |-> NoContainer]
  /\ template = "none" /\ rendered = "absent"
  /\ rows = {} /\ used = {} /\ deleting = NotDeleting
  /\ stale = {} /\ late = FALSE
  /\ mishaps = 0

Go(j, place) == at' = [at EXCEPT ![j] = place]

\* The build whose image at v has a row, or is about to have one.
Recorded(v) == {b \in Builds : vm[v] = Image(b) /\ (b \in rows \/ at[b] = "record")}

-----------------------------------------------------------------------------
(* handleTemplatesBuild, handleTemplatesValidate *)

\* templateBuildInProgress
Busy == \E b \in Builds : at[b] \in AtWork

\* Mutant of Submit: no buildMu.
SubmitUnlocked(b) ==
  /\ at[b] = "idle"
  /\ Go(b, IF Busy THEN "over" ELSE "asked")
  /\ UNCHANGED <<vmid, vm, container, checkoutVars, rowVars, stale, mishaps>>

\* buildMu is held from the look at the job rows until this job's row is there.
Submit(b) ==
  /\ at[b] = "idle" /\ \A o \in Builds : at[o] # "asked"
  /\ Go(b, IF Busy THEN "over" ELSE "asked")
  /\ UNCHANGED <<vmid, vm, container, checkoutVars, rowVars, stale, mishaps>>

\* NextVMID is the lowest id that is free in Proxmox, where nothing keeps it
\* for this build until Packer takes it.
NextVMID == {v \in VMIDs : vm[v] = Free /\ \A w \in VMIDs : vm[w] = Free => v <= w}

Allocate(b) ==
  /\ at[b] = "asked"
  /\ \/ \E v \in NextVMID : vmid' = [vmid EXCEPT ![b] = v] /\ Go(b, "clone")
     \/ Go(b, "over") /\ UNCHANGED vmid
  /\ UNCHANGED <<vm, container, checkoutVars, rowVars, stale, mishaps>>

\* A validation asks nobody.
SubmitCheck(c) ==
  /\ at[c] = "idle" /\ Go(c, "clone")
  /\ UNCHANGED <<vmid, vm, container, checkoutVars, rowVars, stale, mishaps>>

-----------------------------------------------------------------------------
(* The steps that BuildSpec and ValidateSpec share *)

\* EnsureRepoStep: a checkout is there when its .git is.
Clone(j) ==
  /\ at[j] = "clone"
  /\ IF template = "none" THEN Go(j, "cloning") /\ template' = "cloning"
                          ELSE Go(j, "render") /\ UNCHANGED template
  /\ UNCHANGED <<vmid, vm, container, rendered, rowVars, stale, mishaps>>

Cloned(j) ==
  /\ at[j] = "cloning"
  /\ template' = "upstream" /\ Go(j, "render")
  /\ UNCHANGED <<vmid, vm, container, rendered, rowVars, stale, mishaps>>

\* Mutant of Render: the wait is added to packer.json only.
RenderOutputOnly(j) ==
  /\ at[j] = "render" /\ template \in {"upstream", "patched"}
  /\ rendered' = "patched" /\ Go(j, "stage")
  /\ UNCHANGED <<vmid, vm, container, template, rowVars, stale, mishaps>>

\* ensurePackerJSON: packer.json's template gets the wait for the reboot.
Render(j) ==
  /\ at[j] = "render" /\ template \in {"upstream", "patched"}
  /\ template' = "patched" /\ rendered' = "patched" /\ Go(j, "stage")
  /\ UNCHANGED <<vmid, vm, container, rowVars, stale, mishaps>>

\* EnsureISOStagedStep: the installer is in Proxmox, or left to Packer, or
\* Proxmox has been told to download it and has.
Stage(j) ==
  /\ at[j] = "stage"
  /\ Go(j, "check")
  /\ UNCHANGED <<vmid, vm, container, checkoutVars, rowVars, stale, mishaps>>

\* In a container, set-ssh-password.sh removes packer.json and writes it anew
\* from the template before Packer reads it.
Validate(j) ==
  /\ \/ at[j] = "check" /\ rendered' = "absent" /\ Go(j, "checking")
     \/ at[j] = "checking" /\ rendered' = template /\ Go(j, "checked")
     \/ at[j] = "checked" /\ rendered # "absent" /\ UNCHANGED rendered
          /\ Go(j, IF j \in Builds THEN "build" ELSE "over")
  /\ UNCHANGED <<vmid, vm, container, template, rowVars, stale, mishaps>>

\* A step fails or is cancelled, the download also when one look at it fails.
\* git removes a clone that fails.
Fail(j) ==
  /\ at[j] \in AtWork \ {"running"}
  /\ Go(j, "over")
  /\ template' = IF at[j] = "cloning" THEN "none" ELSE template
  /\ UNCHANGED <<vmid, vm, container, rendered, rowVars, stale, mishaps>>

-----------------------------------------------------------------------------
(* packer build *)

\* What an earlier build left under this name is removed.
Run(b) ==
  /\ at[b] = "build"
  /\ container' = [container EXCEPT ![vmid[b]] = <<"started", b>>]
  /\ Go(b, "running")
  /\ UNCHANGED <<vmid, vm, checkoutVars, rowVars, stale, mishaps>>

Phase(v, phase, next) ==
  container[v][1] = phase /\ container' = [container EXCEPT ![v][1] = next]

SetPassword(v) ==
  /\ \/ Phase(v, "started", "reset") /\ rendered' = "absent"
     \/ Phase(v, "reset", "ready") /\ rendered' = template
  /\ UNCHANGED <<at, vmid, vm, template, rowVars, stale, mishaps>>

\* Mutant of CreateVM: Packer is not told the id and takes the next one.
CreateAnyVM(v) ==
  /\ rendered # "absent" /\ Phase(v, "ready", "made")
  /\ \E w \in NextVMID : vm' = [vm EXCEPT ![w] = Half(container[v][2])]
  /\ UNCHANGED <<at, vmid, checkoutVars, rowVars, stale, mishaps>>

CreateVM(v) ==
  /\ rendered # "absent" /\ Phase(v, "ready", "made")
  /\ vm[v] = Free /\ vm' = [vm EXCEPT ![v] = Half(container[v][2])]
  /\ UNCHANGED <<at, vmid, checkoutVars, rowVars, stale, mishaps>>

\* The container is gone and its job, if that is still there, goes on.
Ends(v, place) ==
  LET b == container[v][2]
  IN  /\ container' = [container EXCEPT ![v] = NoContainer]
      /\ at' = IF at[b] = "running" THEN [at EXCEPT ![b] = place] ELSE at

Finish(v) ==
  /\ container[v][1] = "made"
  /\ \E w \in VMIDs : /\ vm[w] = Half(container[v][2])
                      /\ vm' = [vm EXCEPT ![w] = Image(container[v][2])]
  /\ Ends(v, "record")
  /\ UNCHANGED <<vmid, checkoutVars, rowVars, stale, mishaps>>

\* Packer removes its VM, or does not get to it.
Clean(b) ==
  \/ UNCHANGED vm
  \/ vm' = [v \in VMIDs |-> IF vm[v] = Half(b) THEN Free ELSE vm[v]]

PackerFails(v) ==
  /\ container[v] # NoContainer
  /\ Clean(container[v][2]) /\ Ends(v, "over")
  /\ UNCHANGED <<vmid, checkoutVars, rowVars, stale, mishaps>>

\* Mutant of Interrupt: a build takes as long as it takes.
NeverInterrupt(b) == FALSE /\ UNCHANGED imageVars

\* BuildTimeout, or the operator's cancel: the container is reaped, or the
\* job ends without it.
Interrupt(b) ==
  /\ at[b] = "running"
  /\ \/ Clean(b) /\ Ends(vmid[b], "over") /\ UNCHANGED mishaps
     \/ /\ mishaps < MaxMishaps /\ mishaps' = mishaps + 1
        /\ Go(b, "over") /\ UNCHANGED <<vm, container>>
  /\ UNCHANGED <<vmid, checkoutVars, rowVars, stale>>

\* "Record template"
Record(b) ==
  /\ at[b] = "record"
  /\ rows' = rows \cup {b} /\ Go(b, "over")
  /\ UNCHANGED <<vmid, vm, container, checkoutVars, used, deleting, late, stale, mishaps>>

-----------------------------------------------------------------------------
(* handleTemplatesDelete, and the clusters that use a template *)

Use(b) ==
  /\ b \in rows \ used
  /\ used' = used \cup {b}
  /\ late' = (late \/ deleting[2] = b)
  /\ UNCHANGED <<at, vmid, vm, container, checkoutVars, rows, deleting, stale, mishaps>>

\* The last cluster on it is deleted.
Unuse(b) ==
  /\ b \in used
  /\ used' = used \ {b} /\ late' = (late /\ deleting[2] # b)
  /\ UNCHANGED <<at, vmid, vm, container, checkoutVars, rows, deleting, stale, mishaps>>

\* Mutant of Look: only the foreign key keeps a template that is used.
LookAway(b) ==
  /\ deleting = NotDeleting /\ b \in rows
  /\ deleting' = <<"looked", b>>
  /\ UNCHANGED <<at, vmid, vm, container, checkoutVars, rows, used, late, stale, mishaps>>

Look(b) ==
  /\ deleting = NotDeleting /\ b \in rows \ used
  /\ deleting' = <<"looked", b>>
  /\ UNCHANGED <<at, vmid, vm, container, checkoutVars, rows, used, late, stale, mishaps>>

\* Whatever has the row's id is destroyed; nothing there is as good, and any
\* other failure ends the request.
Destroy ==
  LET v == vmid[deleting[2]]
  IN  /\ deleting[1] = "looked"
      /\ \/ /\ deleting' = <<"destroyed", deleting[2]>>
            /\ vm' = [vm EXCEPT ![v] = Free] /\ stale' = stale \cup Recorded(v)
            /\ UNCHANGED late
         \/ deleting' = NotDeleting /\ late' = FALSE /\ UNCHANGED <<vm, stale>>
      /\ UNCHANGED <<at, vmid, container, checkoutVars, rows, used, mishaps>>

\* The foreign key of clusters.template_id, or any other failure, keeps the row.
RemoveRow ==
  /\ deleting[1] = "destroyed" /\ deleting' = NotDeleting /\ late' = FALSE
  /\ \/ /\ deleting[2] \notin used
        /\ rows' = rows \ {deleting[2]} /\ stale' = stale \ {deleting[2]}
     \/ UNCHANGED <<rows, stale>>
  /\ UNCHANGED <<at, vmid, vm, container, checkoutVars, used, mishaps>>

-----------------------------------------------------------------------------
(* Proxmox by other hands, and the process *)

Appear(v) ==
  /\ vm[v] = Free /\ vm' = [vm EXCEPT ![v] = <<"other", Nobody>>]
  /\ UNCHANGED <<at, vmid, container, checkoutVars, rowVars, stale, mishaps>>

Vanish(v) ==
  /\ vm[v] # Free /\ vm' = [vm EXCEPT ![v] = Free]
  /\ stale' = stale \cup Recorded(v)
  /\ UNCHANGED <<at, vmid, container, checkoutVars, rowVars, mishaps>>

\* Containers and a half-made clone survive the process; a validation that
\* outlives it has nothing left to do but end.
Crash ==
  /\ mishaps < MaxMishaps /\ mishaps' = mishaps + 1
  /\ at' = [j \in Jobs |-> IF at[j] = "idle" THEN "idle" ELSE "over"]
  /\ deleting' = NotDeleting /\ late' = FALSE
  /\ UNCHANGED <<vmid, vm, container, checkoutVars, rows, used, stale>>

-----------------------------------------------------------------------------
JobStep(j) ==
  \/ Clone(j) \/ Cloned(j) \/ Render(j) \/ Stage(j) \/ Validate(j) \/ Fail(j)
  \/ j \in Builds /\ (Allocate(j) \/ Run(j) \/ Interrupt(j) \/ Record(j))

ImagesNext ==
  \/ \E j \in Jobs : JobStep(j)
  \/ \E b \in Builds : Submit(b) \/ Use(b) \/ Unuse(b) \/ Look(b)
  \/ \E c \in Checks : SubmitCheck(c)
  \/ \E v \in VMIDs : SetPassword(v) \/ CreateVM(v) \/ Finish(v) \/ PackerFails(v)
                        \/ Appear(v) \/ Vanish(v)
  \/ Destroy \/ RemoveRow \/ Crash

\* Commands return and time passes; a container owes nothing.
ImagesFairness == \A b \in Builds : WF_imageVars(JobStep(b))

ImagesSpec == ImagesInit /\ [][ImagesNext]_imageVars /\ ImagesFairness

-----------------------------------------------------------------------------
(***************************************************************************)
(* At most one build is at work on the checkout, and a build container     *)
(* without a job is one that the death of the process orphaned, or that    *)
(* docker did not remove (buildMu, templateBuildInProgress, reapContainer).*)
(***************************************************************************)
OneBuildAtWork ==
  /\ Cardinality({b \in Builds : at[b] \in AtWork \cup {"asked"}}) <= 1
  /\ mishaps = 0 => \A v \in VMIDs : \A b \in Builds : container[v][2] = b => at[b] = "running"

(***************************************************************************)
(* A template row names the VM that its own build made: ids are recycled,  *)
(* but a row is never of another build's image, unless its own image went  *)
(* without it (the id allocated before the build, "Record template").      *)
(***************************************************************************)
RowsNameTheirImages == \A b \in rows \ stale : vm[vmid[b]] = Image(b)

(***************************************************************************)
(* Deleting a template destroys the image under no cluster that was there  *)
(* when the deletion looked (clustersUsingTemplate comes first).           *)
(***************************************************************************)
UsedImagesKept ==
  [][deleting[1] = "looked" /\ deleting'[1] = "destroyed" /\ deleting[2] \in used
       => late]_imageVars

(***************************************************************************)
(* Packer builds from a packer.json that waits for the reboot, although    *)
(* every container removes that file and writes it anew (patchRebootWait). *)
(***************************************************************************)
BuildWaitsForReboot ==
  [][\A v \in VMIDs : container[v][1] = "ready" /\ container'[v][1] = "made"
       => rendered = "patched"]_imageVars

(***************************************************************************)
(* A build ends even when Packer hangs, and so does not block the builds   *)
(* of every connection for ever (BuildTimeout).                            *)
(***************************************************************************)
BuildsEnd == \A b \in Builds : at[b] \in AtWork ~> at[b] = "over"
=============================================================================
