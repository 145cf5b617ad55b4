----------------------------- MODULE ImagesProofs -----------------------------
(***************************************************************************)
(* Proofs about Images, for any number of builds, validations, ids and     *)
(* mishaps.  One inductive invariant: one build at a time from the         *)
(* allocation of its id on, containers and VMs that bear the id of the     *)
(* build they are of, rows of builds that are over, and a checkout whose   *)
(* template is patched before any container starts.                        *)
(***************************************************************************)
EXTENDS Images, FiniteSetTheorems, TLAPS

Patching == {"stage", "check", "checking", "checked", "build", "running", "record"}

\* From the look at the job rows to the end of the job.
OneAtATime ==
  \A a, b \in Builds :
    at[a] \in AtWork \cup {"asked"} /\ at[b] \in AtWork \cup {"asked"} => a = b

IdsAllocated == \A b \in Builds : at[b] \in AtWork => vmid[b] \in VMIDs

\* A container, and a VM that a build made, lie at that build's id.
OwnContainers ==
  \A v \in VMIDs, b \in Builds :
    container[v][2] = b => vmid[b] = v /\ at[b] \notin {"idle", "asked"}

OwnVMs ==
  \A v \in VMIDs, b \in Builds :
    vm[v][2] = b => vmid[b] = v /\ at[b] \notin {"idle", "asked"}

RunningIn ==
  \A b \in Builds : at[b] = "running" => container[vmid[b]][2] = b

NoOrphans ==
  mishaps = 0 => \A v \in VMIDs, b \in Builds : container[v][2] = b => at[b] = "running"

RowsOwn ==
  \A b \in Builds :
    /\ b \in rows => at[b] = "over"
    /\ b \in rows \/ at[b] = "record" =>
         vmid[b] \in VMIDs /\ (b \notin stale => vm[vmid[b]] = Image(b))

PatchedFirst ==
  /\ rendered # "upstream"
  /\ \A j \in Jobs : at[j] = "cloning" => template = "cloning"
  /\ \A i, j \in Jobs : at[i] = "cloning" /\ at[j] = "cloning" => i = j
  /\ \A j \in Jobs : at[j] \in Patching => template = "patched"
  /\ \A v \in VMIDs : container[v] # NoContainer => template = "patched"

LookedAtUnused == deleting[1] = "looked" /\ deleting[2] \in used => late

ImagesIInv ==
  /\ ImagesTypeOK
  /\ OneAtATime /\ IdsAllocated
  /\ OwnContainers /\ OwnVMs /\ RunningIn /\ NoOrphans
  /\ RowsOwn /\ PatchedFirst /\ LookedAtUnused

-----------------------------------------------------------------------------
(***************************************************************************)
(* Nobody is no build: free ids and absent containers are of no build.     *)
(***************************************************************************)
LEMMA ImNobody == Nobody \notin Builds /\ Nobody \notin Jobs /\ Builds \subseteq Jobs
                    /\ VMIDs \subseteq Nat
BY ImagesAssumption DEF Jobs

(***************************************************************************)
(* What may be at an id, in a container, and of a deletion.                *)
(***************************************************************************)
LEMMA ImStates ==
  /\ Free \in VMStates /\ <<"other", Nobody>> \in VMStates
  /\ \A b \in Builds : Half(b) \in VMStates /\ Image(b) \in VMStates
  /\ NoContainer \in ContainerStates
  /\ \A b \in Builds, p \in {"started", "reset", "ready", "made"} :
       <<p, b>> \in ContainerStates
BY DEF VMStates, ContainerStates, Half, Image

(***************************************************************************)
(* A container that is not absent is of a build, in one of four phases.    *)
(***************************************************************************)
LEMMA ImContainer ==
  ASSUME NEW c \in ContainerStates
  PROVE  /\ c[1] \in {"started", "reset", "ready", "made"} \/ c # NoContainer =>
              /\ c[1] \in {"started", "reset", "ready", "made"} /\ c[2] \in Builds
              /\ c = <<c[1], c[2]>>
              /\ \A p : [c EXCEPT ![1] = p] = <<p, c[2]>>
         /\ c = NoContainer => c[1] = "none" /\ c[2] = Nobody
BY DEF ContainerStates, NoContainer

(***************************************************************************)
(* A container that comes to its next phase stays its build's.             *)
(***************************************************************************)
LEMMA ImPhase ==
  ASSUME container \in [VMIDs -> ContainerStates], NEW v \in VMIDs,
         container[v][1] \in {"started", "reset", "ready"} \/ container[v] # NoContainer,
         NEW p \in {"reset", "ready", "made"}
  PROVE  LET next == [container EXCEPT ![v][1] = p]
         IN  /\ next \in [VMIDs -> ContainerStates]
             /\ next[v] = <<p, container[v][2]>>
             /\ \A w \in VMIDs : next[w][2] = container[w][2]
             /\ \A w \in VMIDs : w # v => next[w] = container[w]
<1> DEFINE b == container[v][2]
           next == [container EXCEPT ![v][1] = p]
<1>1. b \in Builds /\ [container[v] EXCEPT ![1] = p] = <<p, b>>
  BY ImContainer
<1>2. next = [container EXCEPT ![v] = <<p, b>>]
  BY <1>1
<1>3. <<p, b>> \in ContainerStates
  BY <1>1, ImStates
<1>4. next \in [VMIDs -> ContainerStates] /\ next[v] = <<p, b>>
  BY <1>2, <1>3
<1>5. \A w \in VMIDs : w # v => next[w] = container[w]
  BY <1>2
<1>6. next[v][2] = container[v][2]
  BY <1>4
<1> QED
  BY <1>4, <1>5, <1>6

(***************************************************************************)
(* What is at an id is of nobody, or of a build and half made or an image. *)
(***************************************************************************)
LEMMA ImVM ==
  ASSUME NEW m \in VMStates
  PROVE  \/ m[2] = Nobody /\ m \in {Free, <<"other", Nobody>>}
         \/ m[2] \in Builds /\ m \in {Half(m[2]), Image(m[2])}
BY DEF VMStates, Free, Half, Image

(***************************************************************************)
(* A deletion that is under way is of a row.                               *)
(***************************************************************************)
LEMMA ImDeletion ==
  ASSUME deleting \in Deletions
  PROVE  /\ deleting[1] \in {"looked", "destroyed"} \/ deleting # NotDeleting =>
              /\ deleting[2] \in rows /\ deleting[1] \in {"looked", "destroyed"}
              /\ deleting = <<deleting[1], deleting[2]>>
         /\ deleting = NotDeleting => deleting[1] = "idle" /\ deleting[2] = Nobody
BY DEF Deletions, NotDeleting

(***************************************************************************)
(* The initial states satisfy the invariant.                               *)
(***************************************************************************)
LEMMA ImInit == ImagesInit => ImagesIInv
<1> SUFFICES ASSUME ImagesInit PROVE ImagesIInv
  OBVIOUS
<1>1. ImagesTypeOK
  <2>1. vm \in [VMIDs -> VMStates] /\ container \in [VMIDs -> ContainerStates]
    BY ImStates DEF ImagesInit
  <2>2. deleting \in Deletions
    BY DEF ImagesInit, Deletions
  <2>3. at \in [Jobs -> AtWork \cup {"idle", "asked", "over"}] /\ vmid \in [Builds -> VMIDs \cup {0}]
    BY DEF ImagesInit
  <2>4. mishaps \in 0 .. MaxMishaps
    BY ImagesAssumption DEF ImagesInit
  <2> QED
    BY <2>1, <2>2, <2>3, <2>4 DEF ImagesInit, ImagesTypeOK
<1>2. OneAtATime /\ IdsAllocated /\ RunningIn /\ RowsOwn
  BY ImNobody DEF ImagesInit, OneAtATime, IdsAllocated, RunningIn, RowsOwn, AtWork
<1>3. OwnContainers /\ OwnVMs /\ NoOrphans
  BY ImNobody DEF ImagesInit, OwnContainers, OwnVMs, NoOrphans, Free, NoContainer
<1>4. PatchedFirst /\ LookedAtUnused
  BY ImNobody DEF ImagesInit, PatchedFirst, LookedAtUnused, Patching, NotDeleting
<1> QED
  BY <1>1, <1>2, <1>3, <1>4 DEF ImagesIInv

(***************************************************************************)
(* Types are kept; packer.json only ever is a copy of a finished checkout. *)
(***************************************************************************)
LEMMA ImTypeStep == ImagesTypeOK /\ PatchedFirst /\ [ImagesNext]_imageVars => ImagesTypeOK'
<1> SUFFICES ASSUME ImagesTypeOK, PatchedFirst, [ImagesNext]_imageVars PROVE ImagesTypeOK'
  OBVIOUS
<1> USE ImNobody DEF ImagesTypeOK, Go, checkoutVars, rowVars
<1>1. ASSUME NEW j \in Jobs, Clone(j) \/ Cloned(j) \/ Render(j) \/ Stage(j)
      PROVE  ImagesTypeOK'
  BY <1>1 DEF Clone, Cloned, Render, Stage, Deletions, AtWork
<1>2. ASSUME NEW j \in Jobs, Validate(j) \/ Fail(j) PROVE ImagesTypeOK'
  <2>1. CASE Validate(j)
    <3>1. at' \in [Jobs -> AtWork \cup {"idle", "asked", "over"}]
      BY <2>1 DEF Validate, AtWork
    <3>2. rendered' \in {"absent", "upstream", "patched"}
      BY <2>1 DEF Validate, PatchedFirst, Patching
    <3> QED
      BY <2>1, <3>1, <3>2 DEF Validate, Deletions
  <2>2. CASE Fail(j)
    BY <2>2 DEF Fail, Deletions, AtWork
  <2> QED
    BY <1>2, <2>1, <2>2
<1>3. ASSUME NEW b \in Builds, Submit(b) \/ Allocate(b) PROVE ImagesTypeOK'
  BY <1>3 DEF Submit, Allocate, NextVMID, Deletions, AtWork
<1>4. ASSUME NEW b \in Builds, Record(b) PROVE ImagesTypeOK'
  <2>1. deleting' \in Deletions'
    BY <1>4 DEF Record, Deletions
  <2> QED
    BY <1>4, <2>1 DEF Record, AtWork
<1>5. ASSUME NEW b \in Builds, Run(b) PROVE ImagesTypeOK'
  <2>1. container' \in [VMIDs -> ContainerStates]
    BY <1>5, ImStates DEF Run
  <2> QED
    BY <1>5, <2>1 DEF Run, Deletions, AtWork
<1>6. ASSUME NEW b \in Builds, Use(b) \/ Unuse(b) \/ Look(b) PROVE ImagesTypeOK'
  <2>1. deleting' \in Deletions'
    BY <1>6 DEF Use, Unuse, Look, Deletions
  <2> QED
    BY <1>6, <2>1 DEF Use, Unuse, Look
<1>7. ASSUME NEW c \in Checks, SubmitCheck(c) PROVE ImagesTypeOK'
  BY <1>7 DEF SubmitCheck, Jobs, Deletions, AtWork
<1>8. ASSUME NEW v \in VMIDs, SetPassword(v) PROVE ImagesTypeOK'
  <2>1. container[v] # NoContainer
    BY <1>8, ImContainer DEF SetPassword, Phase
  <2>2. PICK p \in {"reset", "ready"} : container' = [container EXCEPT ![v][1] = p]
    BY <1>8 DEF SetPassword, Phase
  <2>3. container' \in [VMIDs -> ContainerStates]
    BY <2>1, <2>2, ImPhase
  <2> QED
    BY <1>8, <2>1, <2>3 DEF SetPassword, Deletions, PatchedFirst
<1>9. ASSUME NEW v \in VMIDs, CreateVM(v) PROVE ImagesTypeOK'
  <2>1. container' \in [VMIDs -> ContainerStates]
    BY <1>9, ImPhase DEF CreateVM, Phase
  <2>2. vm' \in [VMIDs -> VMStates]
    BY <1>9, ImStates, ImContainer DEF CreateVM, Phase
  <2> QED
    BY <1>9, <2>1, <2>2 DEF CreateVM, Deletions
<1>10. ASSUME NEW v \in VMIDs, NEW place \in {"record", "over"},
              container[v] # NoContainer, Ends(v, place)
       PROVE  /\ at' \in [Jobs -> AtWork \cup {"idle", "asked", "over"}]
              /\ container' \in [VMIDs -> ContainerStates]
  BY <1>10, ImStates, ImContainer DEF Ends, AtWork
<1>11. ASSUME NEW b \in Builds, Clean(b) PROVE vm' \in [VMIDs -> VMStates]
  BY <1>11, ImStates DEF Clean
<1>12. ASSUME NEW v \in VMIDs, Finish(v) PROVE ImagesTypeOK'
  <2>1. container[v] # NoContainer /\ container[v][2] \in Builds
    BY <1>12, ImContainer DEF Finish
  <2>2. vm' \in [VMIDs -> VMStates]
    BY <1>12, <2>1, ImStates DEF Finish
  <2> QED
    BY <1>10, <1>12, <2>1, <2>2 DEF Finish, Deletions
<1>13. ASSUME NEW v \in VMIDs, PackerFails(v) PROVE ImagesTypeOK'
  <2>1. container[v] # NoContainer /\ container[v][2] \in Builds
    BY <1>13, ImContainer DEF PackerFails
  <2> QED
    BY <1>10, <1>11, <1>13, <2>1 DEF PackerFails, Deletions
<1>14. ASSUME NEW v \in VMIDs, Appear(v) \/ Vanish(v) PROVE ImagesTypeOK'
  <2>1. vm' \in [VMIDs -> VMStates]
    BY <1>14, ImStates DEF Appear, Vanish
  <2>2. stale' \subseteq Builds
    BY <1>14 DEF Appear, Vanish, Recorded
  <2> QED
    BY <1>14, <2>1, <2>2 DEF Appear, Vanish, Deletions
<1>19. ASSUME NEW b \in Builds, Interrupt(b) PROVE ImagesTypeOK'
  <2>1. CASE Go(b, "over") /\ UNCHANGED <<vm, container>> /\ mishaps' = mishaps + 1
               /\ mishaps < MaxMishaps
    BY <1>19, <2>1, ImagesAssumption DEF Interrupt, Deletions, AtWork
  <2>2. CASE Clean(b) /\ Ends(vmid[b], "over") /\ UNCHANGED mishaps
    <3>1. at' \in [Jobs -> AtWork \cup {"idle", "asked", "over"}]
      BY <2>2 DEF Ends
    <3>2. container' \in [VMIDs -> ContainerStates]
      BY <2>2, ImStates DEF Ends
    <3> QED
      BY <1>11, <1>19, <2>2, <3>1, <3>2 DEF Interrupt, Deletions
  <2> QED
    BY <1>19, <2>1, <2>2 DEF Interrupt
<1>15. CASE Destroy
  <2>1. vm' \in [VMIDs -> VMStates]
    BY <1>15, ImStates DEF Destroy
  <2>2. stale' \subseteq Builds
    BY <1>15 DEF Destroy, Recorded
  <2>3. deleting' \in Deletions'
    BY <1>15, ImDeletion DEF Destroy, Deletions
  <2> QED
    BY <1>15, <2>1, <2>2, <2>3 DEF Destroy
<1>16. CASE RemoveRow
  <2>1. deleting' \in Deletions'
    BY <1>16 DEF RemoveRow, Deletions
  <2> QED
    BY <1>16, <2>1 DEF RemoveRow
<1>17. CASE Crash
  <2>1. deleting' \in Deletions'
    BY <1>17 DEF Crash, Deletions
  <2>2. mishaps' \in 0 .. MaxMishaps
    BY <1>17, ImagesAssumption DEF Crash
  <2>3. at' \in [Jobs -> AtWork \cup {"idle", "asked", "over"}]
    BY <1>17 DEF Crash
  <2> QED
    BY <1>17, <2>1, <2>2, <2>3 DEF Crash
<1>18. CASE UNCHANGED imageVars
  BY <1>18 DEF imageVars, Deletions
<1> QED
  BY <1>1, <1>2, <1>3, <1>4, <1>5, <1>6, <1>7, <1>8, <1>9, <1>12, <1>13,
     <1>14, <1>15, <1>16, <1>17, <1>18, <1>19 DEF ImagesNext, JobStep

-----------------------------------------------------------------------------
(* One lemma for each part of the invariant *)

(***************************************************************************)
(* A container that ends takes on the job that waits for it, and no other. *)
(***************************************************************************)
LEMMA ImEnds ==
  ASSUME ImagesTypeOK, NEW v \in VMIDs, NEW place, container[v] # NoContainer, Ends(v, place)
  PROVE  /\ container[v][2] \in Builds
         /\ container'[v] = NoContainer
         /\ \A w \in VMIDs : w # v => container'[w] = container[w]
         /\ \A j \in Jobs : at'[j] = IF j = container[v][2] /\ at[j] = "running"
                                    THEN place ELSE at[j]
<1>1. container[v][2] \in Builds
  BY ImContainer DEF ImagesTypeOK
<1> QED
  BY <1>1, ImNobody DEF Ends, ImagesTypeOK

(***************************************************************************)
(* One build at a time: a submission looks at the job rows under buildMu.  *)
(***************************************************************************)
LEMMA ImOneStep ==
  ImagesTypeOK /\ OneAtATime /\ [ImagesNext]_imageVars => OneAtATime'
<1> SUFFICES ASSUME ImagesTypeOK, OneAtATime, [ImagesNext]_imageVars PROVE OneAtATime'
  OBVIOUS
<1> USE ImNobody DEF OneAtATime, Go
<1> DEFINE InBuild(b) == at[b] \in AtWork \cup {"asked"}
<1>1. ASSUME \A b \in Builds : InBuild(b)' => InBuild(b) PROVE OneAtATime'
  BY <1>1
<1>2. ASSUME NEW j \in Jobs, Clone(j) \/ Cloned(j) \/ Render(j) \/ Stage(j) \/ Validate(j) \/ Fail(j)
      PROVE  OneAtATime'
  BY <1>1, <1>2 DEF Clone, Cloned, Render, Stage, Validate, Fail, AtWork, ImagesTypeOK
<1>3. ASSUME NEW b \in Builds, Submit(b) PROVE OneAtATime'
  BY <1>3 DEF Submit, Busy, AtWork, ImagesTypeOK
<1>4. ASSUME NEW b \in Builds, Allocate(b) \/ Record(b) \/ Run(b) PROVE OneAtATime'
  BY <1>1, <1>4 DEF Allocate, Record, Run, AtWork, ImagesTypeOK
<1>5. ASSUME NEW c \in Checks, SubmitCheck(c) PROVE OneAtATime'
  BY <1>1, <1>5, ImagesAssumption DEF SubmitCheck, Jobs, ImagesTypeOK
<1>6. ASSUME NEW v \in VMIDs, Finish(v) \/ PackerFails(v) PROVE OneAtATime'
  <2>1. container[v] # NoContainer
    BY <1>6, ImContainer DEF Finish, PackerFails, ImagesTypeOK
  <2>2. PICK place \in {"record", "over"} : Ends(v, place)
    BY <1>6 DEF Finish, PackerFails
  <2> QED
    BY <1>1, <2>1, <2>2, ImEnds DEF AtWork
<1>7. ASSUME NEW b \in Builds, Interrupt(b) PROVE OneAtATime'
  BY <1>1, <1>7 DEF Interrupt, Ends, AtWork, ImagesTypeOK
<1>8. CASE Crash
  BY <1>1, <1>8 DEF Crash, AtWork
<1>9. ASSUME UNCHANGED at PROVE OneAtATime'
  BY <1>1, <1>9
<1>10. ASSUME NEW v \in VMIDs, SetPassword(v) \/ CreateVM(v) \/ Appear(v) \/ Vanish(v)
       PROVE  UNCHANGED at
  BY <1>10 DEF SetPassword, CreateVM, Appear, Vanish
<1>11. ASSUME NEW b \in Builds, Use(b) \/ Unuse(b) \/ Look(b) PROVE UNCHANGED at
  BY <1>11 DEF Use, Unuse, Look
<1>12. ASSUME Destroy \/ RemoveRow \/ UNCHANGED imageVars PROVE UNCHANGED at
  BY <1>12 DEF Destroy, RemoveRow, imageVars
<1> QED
  BY <1>2, <1>3, <1>4, <1>5, <1>6, <1>7, <1>8, <1>9, <1>10, <1>11, <1>12
     DEF ImagesNext, JobStep

(***************************************************************************)
(* What a step does to the place and the id of a build: it is given an id  *)
(* on its way to work and keeps it, and does not come back.                *)
(***************************************************************************)
LEMMA ImMoves ==
  ASSUME ImagesTypeOK, [ImagesNext]_imageVars, NEW b \in Builds
  PROVE  /\ at'[b] \in AtWork => at[b] \in AtWork \/ vmid'[b] \in VMIDs
         /\ at[b] # "asked" => vmid'[b] = vmid[b]
         /\ at[b] \notin {"idle", "asked"} => at'[b] \notin {"idle", "asked"}
         /\ at[b] = "over" => at'[b] = "over"
<1> DEFINE Moves == /\ at'[b] \in AtWork => at[b] \in AtWork \/ vmid'[b] \in VMIDs
                    /\ at[b] # "asked" => vmid'[b] = vmid[b]
                    /\ at[b] \notin {"idle", "asked"} => at'[b] \notin {"idle", "asked"}
                    /\ at[b] = "over" => at'[b] = "over"
<1> USE ImNobody DEF Go, ImagesTypeOK, AtWork
<1>1. ASSUME NEW j \in Jobs, Clone(j) \/ Cloned(j) \/ Render(j) \/ Stage(j) \/ Validate(j) \/ Fail(j)
      PROVE  Moves
  BY <1>1 DEF Clone, Cloned, Render, Stage, Validate, Fail
<1>2. ASSUME NEW o \in Builds, Submit(o) \/ Record(o) \/ Run(o) PROVE Moves
  BY <1>2 DEF Submit, Record, Run
<1>3. ASSUME NEW o \in Builds, Allocate(o) PROVE Moves
  BY <1>3 DEF Allocate, NextVMID
<1>4. ASSUME NEW c \in Checks, SubmitCheck(c) PROVE Moves
  BY <1>4, ImagesAssumption DEF SubmitCheck, Jobs
<1>5. ASSUME NEW v \in VMIDs, Finish(v) \/ PackerFails(v) PROVE Moves
  <2>1. container[v] # NoContainer
    BY <1>5, ImContainer DEF Finish, PackerFails
  <2>2. PICK place \in {"record", "over"} : Ends(v, place)
    BY <1>5 DEF Finish, PackerFails
  <2>3. vmid' = vmid
    BY <1>5 DEF Finish, PackerFails
  <2> QED
    BY <2>1, <2>2, <2>3, ImEnds
<1>6. ASSUME NEW o \in Builds, Interrupt(o) PROVE Moves
  BY <1>6 DEF Interrupt, Ends
<1>7. CASE Crash
  BY <1>7 DEF Crash
<1>8. ASSUME UNCHANGED <<at, vmid>> PROVE Moves
  BY <1>8
<1>9. ASSUME NEW v \in VMIDs, SetPassword(v) \/ CreateVM(v) \/ Appear(v) \/ Vanish(v)
      PROVE  UNCHANGED <<at, vmid>>
  BY <1>9 DEF SetPassword, CreateVM, Appear, Vanish
<1>10. ASSUME NEW o \in Builds, Use(o) \/ Unuse(o) \/ Look(o) PROVE UNCHANGED <<at, vmid>>
  BY <1>10 DEF Use, Unuse, Look
<1>11. ASSUME Destroy \/ RemoveRow \/ UNCHANGED imageVars PROVE UNCHANGED <<at, vmid>>
  BY <1>11 DEF Destroy, RemoveRow, imageVars
<1> QED
  BY <1>1, <1>2, <1>3, <1>4, <1>5, <1>6, <1>7, <1>8, <1>9, <1>10, <1>11
     DEF ImagesNext, JobStep

(***************************************************************************)
(* A container comes to an id only from the build the id is of, and a VM   *)
(* only from the container at the id.                                      *)
(***************************************************************************)
LEMMA ImThings ==
  ASSUME ImagesTypeOK, [ImagesNext]_imageVars, NEW v \in VMIDs, NEW b \in Builds
  PROVE  /\ container'[v][2] = b =>
              container[v][2] = b \/ (at[b] = "build" /\ vmid[b] = v)
         /\ vm'[v][2] = b => b \in {vm[v][2], container[v][2]}
<1> DEFINE Cs == container'[v][2] = b => container[v][2] = b \/ (at[b] = "build" /\ vmid[b] = v)
           Vs == vm'[v][2] = b => b \in {vm[v][2], container[v][2]}
<1> USE ImNobody DEF ImagesTypeOK
<1>0. Free[2] = Nobody /\ NoContainer[2] = Nobody
  BY DEF Free, NoContainer
<1>1. ASSUME UNCHANGED vm PROVE Vs
  BY <1>1
<1>2. ASSUME UNCHANGED container PROVE Cs
  BY <1>2
<1>3. ASSUME NEW j \in Jobs,
             Clone(j) \/ Cloned(j) \/ Render(j) \/ Stage(j) \/ Validate(j) \/ Fail(j)
      PROVE  UNCHANGED <<container, vm>>
  BY <1>3 DEF Clone, Cloned, Render, Stage, Validate, Fail
<1>4. ASSUME NEW o \in Builds,
             Submit(o) \/ Record(o) \/ Allocate(o) \/ Use(o) \/ Unuse(o) \/ Look(o)
      PROVE  UNCHANGED <<container, vm>>
  BY <1>4 DEF Submit, Record, Allocate, Use, Unuse, Look
<1>5. ASSUME (\E c \in Checks : SubmitCheck(c)) \/ RemoveRow \/ Crash \/ UNCHANGED imageVars
      PROVE  UNCHANGED <<container, vm>>
  BY <1>5 DEF SubmitCheck, RemoveRow, Crash, imageVars
<1>6. ASSUME NEW o \in Builds, Run(o) PROVE Cs /\ Vs
  <2>1. container' = [container EXCEPT ![vmid[o]] = <<"started", o>>] /\ at[o] = "build"
    BY <1>6 DEF Run
  <2>2. Cs
    BY <2>1
  <2> QED
    BY <1>1, <1>6, <2>2 DEF Run
<1>7. ASSUME NEW w \in VMIDs, SetPassword(w) PROVE Cs /\ Vs
  <2>1. Vs
    BY <1>1, <1>7 DEF SetPassword
  <2>2. PICK p \in {"reset", "ready"} : container' = [container EXCEPT ![w][1] = p]
    BY <1>7 DEF SetPassword, Phase
  <2>3. container[w][1] \in {"started", "reset"}
    BY <1>7 DEF SetPassword, Phase
  <2> QED
    BY <2>1, <2>2, <2>3, ImPhase
<1>8. ASSUME NEW w \in VMIDs, CreateVM(w) PROVE Cs /\ Vs
  <2>1. container' = [container EXCEPT ![w][1] = "made"] /\ container[w][1] = "ready"
    BY <1>8 DEF CreateVM, Phase
  <2>2. Cs
    BY <2>1, ImPhase
  <2>3. vm' = [vm EXCEPT ![w] = Half(container[w][2])]
    BY <1>8 DEF CreateVM
  <2>4. Vs
    BY <2>3 DEF Half
  <2> QED
    BY <2>2, <2>4
<1>9. ASSUME NEW o \in Builds, Clean(o) PROVE Vs
  BY <1>0, <1>9 DEF Clean
<1>10. ASSUME NEW w \in VMIDs, NEW place, container[w] # NoContainer, Ends(w, place) PROVE Cs
  BY <1>0, <1>10, ImEnds
<1>11. ASSUME NEW w \in VMIDs, Finish(w) PROVE Cs /\ Vs
  <2>1. container[w] # NoContainer
    BY <1>11, ImContainer DEF Finish
  <2>2. Ends(w, "record")
    BY <1>11 DEF Finish
  <2>3. PICK u \in VMIDs : vm[u] = Half(container[w][2])
                             /\ vm' = [vm EXCEPT ![u] = Image(container[w][2])]
    BY <1>11 DEF Finish
  <2>4. Vs
    BY <2>3 DEF Half, Image
  <2> QED
    BY <1>10, <2>1, <2>2, <2>4
<1>12. ASSUME NEW w \in VMIDs, PackerFails(w) PROVE Cs /\ Vs
  <2>1. container[w] # NoContainer /\ container[w][2] \in Builds
    BY <1>12, ImContainer DEF PackerFails
  <2> QED
    BY <1>9, <1>10, <1>12, <2>1 DEF PackerFails
<1>13. ASSUME NEW o \in Builds, Interrupt(o) PROVE Cs /\ Vs
  <2>1. CASE UNCHANGED <<vm, container>>
    BY <1>1, <1>2, <2>1
  <2>2. CASE Clean(o) /\ Ends(vmid[o], "over")
    <3>1. container' = [container EXCEPT ![vmid[o]] = NoContainer]
      BY <2>2 DEF Ends
    <3>2. Cs
      BY <1>0, <3>1
    <3> QED
      BY <1>9, <2>2, <3>2
  <2> QED
    BY <1>13, <2>1, <2>2 DEF Interrupt
<1>14. ASSUME NEW w \in VMIDs, Appear(w) \/ Vanish(w) PROVE Cs /\ Vs
  <2>1. vm' \in {[vm EXCEPT ![w] = Free], [vm EXCEPT ![w] = <<"other", Nobody>>]}
    BY <1>14 DEF Appear, Vanish
  <2>2. Vs
    BY <1>0, <2>1
  <2> QED
    BY <1>2, <1>14, <2>2 DEF Appear, Vanish
<1>15. ASSUME Destroy PROVE Cs /\ Vs
  <2>1. UNCHANGED vm \/ vm' = [vm EXCEPT ![vmid[deleting[2]]] = Free]
    BY <1>15 DEF Destroy
  <2>2. Vs
    BY <1>0, <2>1
  <2> QED
    BY <1>2, <1>15, <2>2 DEF Destroy
<1>16. ASSUME UNCHANGED <<container, vm>> PROVE Cs /\ Vs
  BY <1>1, <1>2, <1>16
<1> HIDE DEF Cs, Vs
<1>17. Cs /\ Vs
  BY <1>3, <1>4, <1>5, <1>6, <1>7, <1>8, <1>11, <1>12, <1>13, <1>14, <1>15, <1>16
     DEF ImagesNext, JobStep
<1> QED
  BY <1>17 DEF Cs, Vs

(***************************************************************************)
(* Ids stay allocated, and what bears a build lies at its id.              *)
(***************************************************************************)
LEMMA ImOwnStep ==
  ImagesTypeOK /\ IdsAllocated /\ OwnContainers /\ OwnVMs /\ [ImagesNext]_imageVars
    => IdsAllocated' /\ OwnContainers' /\ OwnVMs'
<1> SUFFICES ASSUME ImagesTypeOK, IdsAllocated, OwnContainers, OwnVMs, [ImagesNext]_imageVars
             PROVE  IdsAllocated' /\ OwnContainers' /\ OwnVMs'
  OBVIOUS
<1>1. IdsAllocated'
  BY ImMoves DEF IdsAllocated, AtWork
<1>2. OwnContainers'
  <2> SUFFICES ASSUME NEW v \in VMIDs, NEW b \in Builds, container'[v][2] = b
               PROVE  vmid'[b] = v /\ at'[b] \notin {"idle", "asked"}
    BY DEF OwnContainers
  <2>1. vmid[b] = v /\ at[b] \notin {"idle", "asked"}
    BY ImThings DEF OwnContainers
  <2> QED
    BY <2>1, ImMoves
<1>3. OwnVMs'
  <2> SUFFICES ASSUME NEW v \in VMIDs, NEW b \in Builds, vm'[v][2] = b
               PROVE  vmid'[b] = v /\ at'[b] \notin {"idle", "asked"}
    BY DEF OwnVMs
  <2>1. vmid[b] = v /\ at[b] \notin {"idle", "asked"}
    BY ImThings DEF OwnContainers, OwnVMs
  <2> QED
    BY <2>1, ImMoves
<1> QED
  BY <1>1, <1>2, <1>3

(***************************************************************************)
(* A job that waits for Packer has its container; one without a job is     *)
(* due to a mishap.                                                        *)
(***************************************************************************)
LEMMA ImRunStep ==
  ASSUME ImagesTypeOK, OneAtATime, IdsAllocated, OwnContainers, RunningIn, NoOrphans,
         [ImagesNext]_imageVars
  PROVE  RunningIn' /\ NoOrphans'
<1> DEFINE R == RunningIn' /\ NoOrphans'
<1> USE ImNobody DEF ImagesTypeOK
<1>1. ASSUME container' = container \/ (\A v \in VMIDs : container'[v][2] = container[v][2]),
             \A b \in Builds : at'[b] = "running" <=> at[b] = "running",
             mishaps' = mishaps
      PROVE  R
  <2>1. \A b \in Builds : at[b] = "running" => vmid'[b] = vmid[b] /\ vmid[b] \in VMIDs
    BY ImMoves DEF IdsAllocated, AtWork
  <2>2. \A v \in VMIDs : container'[v][2] = container[v][2]
    BY <1>1
  <2>3. RunningIn'
    BY <1>1, <2>1, <2>2 DEF RunningIn
  <2>4. NoOrphans'
    BY <1>1, <2>2 DEF NoOrphans
  <2> QED
    BY <2>3, <2>4
<1>2. ASSUME NEW j \in Jobs, Clone(j) \/ Cloned(j) \/ Render(j) \/ Stage(j) \/ Validate(j) \/ Fail(j)
      PROVE  R
  <2>1. UNCHANGED <<container, mishaps>>
    BY <1>2 DEF Clone, Cloned, Render, Stage, Validate, Fail
  <2>2. \A b \in Builds : at'[b] = "running" <=> at[b] = "running"
    BY <1>2 DEF Clone, Cloned, Render, Stage, Validate, Fail, Go
  <2> QED
    BY <1>1, <2>1, <2>2
<1>3. ASSUME NEW b \in Builds,
             Submit(b) \/ Record(b) \/ Allocate(b) \/ Use(b) \/ Unuse(b) \/ Look(b)
      PROVE  R
  <2>1. UNCHANGED <<container, mishaps>>
    BY <1>3 DEF Submit, Record, Allocate, Use, Unuse, Look
  <2>2. \A o \in Builds : at'[o] = "running" <=> at[o] = "running"
    BY <1>3 DEF Submit, Record, Allocate, Use, Unuse, Look, Go
  <2> QED
    BY <1>1, <2>1, <2>2
<1>4. ASSUME NEW c \in Checks, SubmitCheck(c) PROVE R
  <2>1. UNCHANGED <<container, mishaps>>
    BY <1>4 DEF SubmitCheck
  <2>2. \A o \in Builds : at'[o] = "running" <=> at[o] = "running"
    BY <1>4, ImagesAssumption DEF SubmitCheck, Go, Jobs
  <2> QED
    BY <1>1, <2>1, <2>2
<1>5. ASSUME NEW b \in Builds, Run(b) PROVE R
  <2>1. /\ at[b] = "build" /\ at' = [at EXCEPT ![b] = "running"]
        /\ container' = [container EXCEPT ![vmid[b]] = <<"started", b>>]
        /\ UNCHANGED <<vmid, mishaps>> /\ vmid[b] \in VMIDs
    BY <1>5 DEF Run, Go, IdsAllocated, AtWork
  <2>2. \A o \in Builds : o # b => at[o] # "running" /\ at'[o] # "running"
    BY <2>1 DEF OneAtATime, AtWork
  <2>3. RunningIn'
    BY <2>1, <2>2 DEF RunningIn
  <2>4. NoOrphans'
    BY <2>1, <2>2 DEF NoOrphans
  <2> QED
    BY <2>3, <2>4
<1>6. ASSUME NEW v \in VMIDs, SetPassword(v) PROVE R
  <2>1. PICK p \in {"reset", "ready"} : container' = [container EXCEPT ![v][1] = p]
    BY <1>6 DEF SetPassword, Phase
  <2>2. container[v][1] \in {"started", "reset"} /\ UNCHANGED <<at, mishaps>>
    BY <1>6 DEF SetPassword, Phase
  <2>3. \A w \in VMIDs : container'[w][2] = container[w][2]
    BY <2>1, <2>2, ImPhase
  <2> QED
    BY <1>1, <2>2, <2>3
<1>7. ASSUME NEW v \in VMIDs, CreateVM(v) PROVE R
  <2>1. container' = [container EXCEPT ![v][1] = "made"] /\ container[v][1] = "ready"
        /\ UNCHANGED <<at, mishaps>>
    BY <1>7 DEF CreateVM, Phase
  <2>2. \A w \in VMIDs : container'[w][2] = container[w][2]
    BY <2>1, ImPhase
  <2> QED
    BY <1>1, <2>1, <2>2
<1>8. ASSUME NEW v \in VMIDs, NEW place \in {"record", "over"},
             container[v] # NoContainer, Ends(v, place), mishaps' = mishaps, vmid' = vmid
      PROVE  R
  <2> DEFINE b == container[v][2]
  <2>1. /\ b \in Builds /\ container'[v] = NoContainer
        /\ \A w \in VMIDs : w # v => container'[w] = container[w]
        /\ \A j \in Jobs : at'[j] = IF j = b /\ at[j] = "running" THEN place ELSE at[j]
    BY <1>8, ImEnds
  <2>2. vmid[b] = v /\ container'[v][2] = Nobody
    <3>1. vmid[b] = v
      BY <2>1 DEF OwnContainers
    <3>2. container'[v][2] = Nobody
      BY <2>1 DEF NoContainer
    <3> QED
      BY <3>1, <3>2
  <2>3. \A o \in Builds : at'[o] = "running" => at[o] = "running" /\ o # b
    BY <2>1
  <2>4. RunningIn'
    <3> SUFFICES ASSUME NEW o \in Builds, at'[o] = "running" PROVE container'[vmid[o]][2] = o
      BY <1>8 DEF RunningIn
    <3>1. o # b /\ vmid[o] \in VMIDs /\ container[vmid[o]][2] = o
      BY <2>3 DEF RunningIn, IdsAllocated, AtWork
    <3>2. vmid[o] # v
      BY <3>1
    <3> QED
      BY <2>1, <3>1, <3>2
  <2>5. NoOrphans'
    <3> SUFFICES ASSUME mishaps = 0, NEW w \in VMIDs, NEW o \in Builds, container'[w][2] = o
                 PROVE  at'[o] = "running"
      BY <1>8 DEF NoOrphans
    <3>1. w # v
      BY <2>2
    <3>2. container[w][2] = o
      BY <2>1, <3>1
    <3>3. at[o] = "running" /\ vmid[o] = w
      BY <3>2 DEF NoOrphans, OwnContainers
    <3>4. o # b
      BY <2>2, <3>1, <3>3
    <3> QED
      BY <2>1, <3>3, <3>4
  <2> QED
    BY <2>4, <2>5
<1>9. ASSUME NEW v \in VMIDs, Finish(v) \/ PackerFails(v) PROVE R
  <2>1. container[v] # NoContainer
    BY <1>9, ImContainer DEF Finish, PackerFails
  <2>2. PICK place \in {"record", "over"} : Ends(v, place)
    BY <1>9 DEF Finish, PackerFails
  <2>3. UNCHANGED <<vmid, mishaps>>
    BY <1>9 DEF Finish, PackerFails
  <2> HIDE DEF R
  <2> QED
    BY <1>8, <2>1, <2>2, <2>3
<1>10. ASSUME NEW b \in Builds, Interrupt(b) PROVE R
  <2>1. at[b] = "running" /\ vmid' = vmid /\ vmid[b] \in VMIDs /\ container[vmid[b]][2] = b
    BY <1>10 DEF Interrupt, IdsAllocated, AtWork, RunningIn
  <2>2. container[vmid[b]] # NoContainer
    BY <2>1 DEF NoContainer
  <2>3. CASE Ends(vmid[b], "over") /\ UNCHANGED mishaps
    <3> HIDE DEF R
    <3> QED
      BY <1>8, <2>1, <2>2, <2>3
  <2>4. CASE mishaps' = mishaps + 1 /\ Go(b, "over") /\ container' = container
    <3>1. RunningIn'
      BY <2>1, <2>4 DEF RunningIn, Go
    <3>2. mishaps' # 0
      BY <2>4
    <3> QED
      BY <3>1, <3>2 DEF NoOrphans
  <2> QED
    BY <1>10, <2>3, <2>4 DEF Interrupt
<1>11. ASSUME NEW v \in VMIDs, Appear(v) \/ Vanish(v) PROVE R
  BY <1>1, <1>11 DEF Appear, Vanish
<1>12. ASSUME Destroy \/ RemoveRow \/ UNCHANGED imageVars PROVE R
  BY <1>1, <1>12 DEF Destroy, RemoveRow, imageVars
<1>13. ASSUME Crash PROVE R
  <2>1. mishaps' # 0
    BY <1>13 DEF Crash
  <2>2. \A b \in Builds : at'[b] # "running"
    BY <1>13 DEF Crash
  <2> QED
    BY <2>1, <2>2 DEF RunningIn, NoOrphans
<1> HIDE DEF R, ImagesTypeOK
<1>15. ASSUME NEW j \in Jobs, JobStep(j) PROVE R
  BY <1>2, <1>3, <1>5, <1>10, <1>15 DEF JobStep
<1>16. ASSUME NEW v \in VMIDs, SetPassword(v) \/ CreateVM(v) \/ Finish(v) \/ PackerFails(v)
                                 \/ Appear(v) \/ Vanish(v)
       PROVE  R
  BY <1>6, <1>7, <1>9, <1>11, <1>16
<1>14. R
  BY <1>3, <1>4, <1>12, <1>13, <1>15, <1>16 DEF ImagesNext
<1> QED
  BY <1>14 DEF R

(***************************************************************************)
(* The checkout: one job clones it, and no job gets past the rendering,    *)
(* and no container is there, before its template is patched.              *)
(***************************************************************************)
LEMMA ImPatchStep ==
  ASSUME ImagesTypeOK, PatchedFirst, [ImagesNext]_imageVars
  PROVE  PatchedFirst'
<1> USE ImNobody DEF ImagesTypeOK, PatchedFirst
<1>1. ASSUME \A j \in Jobs : at'[j] = at[j] \/ at'[j] \notin Patching \cup {"cloning"}
                               \/ (at[j] \in Patching /\ at'[j] # "cloning"),
             \A v \in VMIDs : container'[v] # NoContainer =>
                                 container[v] # NoContainer \/ template = "patched",
             template' = template, rendered' \in {rendered, "absent", template},
             rendered' = template => template = "patched" \/ rendered' = rendered
      PROVE  PatchedFirst'
  BY <1>1 DEF Patching
<1>2. ASSUME NEW j \in Jobs, Clone(j) PROVE PatchedFirst'
  <2>1. CASE template = "none"
    <3>1. at' = [at EXCEPT ![j] = "cloning"] /\ template' = "cloning"
            /\ UNCHANGED <<container, rendered>>
      BY <1>2, <2>1 DEF Clone, Go
    <3> QED
      BY <2>1, <3>1 DEF Patching
  <2>2. CASE template # "none"
    BY <1>1, <1>2, <2>2 DEF Clone, Go, Patching
  <2> QED
    BY <2>1, <2>2
<1>3. ASSUME NEW j \in Jobs, Cloned(j) PROVE PatchedFirst'
  <2>1. /\ at[j] = "cloning" /\ template = "cloning" /\ template' = "upstream"
        /\ at' = [at EXCEPT ![j] = "render"] /\ UNCHANGED <<container, rendered>>
    BY <1>3 DEF Cloned, Go
  <2> QED
    BY <2>1 DEF Patching
<1>4. ASSUME NEW j \in Jobs, Render(j) PROVE PatchedFirst'
  <2>1. /\ at[j] = "render" /\ template # "cloning" /\ template' = "patched"
        /\ rendered' = "patched" /\ at' = [at EXCEPT ![j] = "stage"]
    BY <1>4 DEF Render, Go
  <2>2. \A i \in Jobs : at'[i] # "cloning"
    BY <2>1
  <2> QED
    BY <2>1, <2>2 DEF Patching
<1>5. ASSUME NEW j \in Jobs, Stage(j) PROVE PatchedFirst'
  BY <1>1, <1>5 DEF Stage, Go, Patching, checkoutVars
<1>6. ASSUME NEW j \in Jobs, Validate(j) PROVE PatchedFirst'
  <2>1. at[j] \in Patching /\ at'[j] # "cloning" /\ template = "patched"
    BY <1>6 DEF Validate, Go, Patching
  <2>2. \A i \in Jobs : i = j \/ at'[i] = at[i]
    BY <1>6 DEF Validate, Go
  <2>3. UNCHANGED <<container, template>> /\ rendered' \in {rendered, "absent", template}
    BY <1>6 DEF Validate
  <2> QED
    BY <1>1, <2>1, <2>2, <2>3
<1>7. ASSUME NEW j \in Jobs, Fail(j) PROVE PatchedFirst'
  <2>1. at' = [at EXCEPT ![j] = "over"] /\ UNCHANGED <<container, rendered>>
    BY <1>7 DEF Fail, Go
  <2>2. CASE at[j] = "cloning"
    BY <2>1, <2>2 DEF Patching
  <2>3. CASE at[j] # "cloning"
    BY <1>1, <1>7, <2>1, <2>3 DEF Fail, Patching
  <2> QED
    BY <2>2, <2>3
<1>8. ASSUME NEW b \in Builds,
             Submit(b) \/ Record(b) \/ Allocate(b) \/ Use(b) \/ Unuse(b) \/ Look(b)
      PROVE  PatchedFirst'
  <2>1. UNCHANGED <<container, checkoutVars>>
    BY <1>8 DEF Submit, Record, Allocate, Use, Unuse, Look
  <2>2. \A j \in Jobs : at'[j] = at[j] \/ at'[j] \notin Patching \cup {"cloning"}
    BY <1>8 DEF Submit, Record, Allocate, Use, Unuse, Look, Go, Patching
  <2> QED
    BY <1>1, <2>1, <2>2 DEF checkoutVars
<1>9. ASSUME NEW c \in Checks, SubmitCheck(c) PROVE PatchedFirst'
  <2>1. UNCHANGED <<container, checkoutVars>>
    BY <1>9 DEF SubmitCheck
  <2>2. \A j \in Jobs : at'[j] = at[j] \/ at'[j] \notin Patching \cup {"cloning"}
    BY <1>9 DEF SubmitCheck, Go, Patching
  <2> QED
    BY <1>1, <2>1, <2>2 DEF checkoutVars
<1>10. ASSUME NEW b \in Builds, Run(b) PROVE PatchedFirst'
  <2>1. at[b] \in Patching /\ template = "patched" /\ at'[b] # "cloning"
    BY <1>10 DEF Run, Go, Patching
  <2>2. \A i \in Jobs : i = b \/ at'[i] = at[i]
    BY <1>10 DEF Run, Go
  <2> QED
    BY <1>1, <1>10, <2>1, <2>2 DEF Run, checkoutVars
<1>11. ASSUME NEW v \in VMIDs, SetPassword(v) PROVE PatchedFirst'
  <2>1. container[v] # NoContainer
    BY <1>11, ImContainer DEF SetPassword, Phase
  <2>2. template = "patched"
    BY <2>1
  <2>3. UNCHANGED <<at, template>> /\ rendered' \in {"absent", template}
    BY <1>11 DEF SetPassword
  <2> QED
    BY <1>1, <2>2, <2>3
<1>12. ASSUME NEW v \in VMIDs, CreateVM(v) PROVE PatchedFirst'
  <2>1. container[v] # NoContainer
    BY <1>12, ImContainer DEF CreateVM, Phase
  <2>2. template = "patched"
    BY <2>1
  <2> QED
    BY <1>1, <1>12, <2>2 DEF CreateVM, checkoutVars
<1>13. ASSUME NEW v \in VMIDs, Finish(v) \/ PackerFails(v) PROVE PatchedFirst'
  <2>1. container[v] # NoContainer
    BY <1>13, ImContainer DEF Finish, PackerFails
  <2>2. PICK place \in {"record", "over"} : Ends(v, place)
    BY <1>13 DEF Finish, PackerFails
  <2>3. template = "patched" /\ UNCHANGED checkoutVars
    BY <1>13, <2>1 DEF Finish, PackerFails
  <2>4. \A j \in Jobs : at'[j] = at[j] \/ (at[j] \in Patching /\ at'[j] # "cloning")
    BY <2>1, <2>2, ImEnds DEF Patching
  <2> QED
    BY <1>1, <2>3, <2>4 DEF checkoutVars
<1>14. ASSUME NEW b \in Builds, Interrupt(b) PROVE PatchedFirst'
  <2>1. at[b] \in Patching /\ template = "patched"
    BY <1>14 DEF Interrupt, Patching
  <2>2. \A j \in Jobs : at'[j] = at[j] \/ at'[j] = "over"
    BY <1>14 DEF Interrupt, Ends, Go
  <2> QED
    BY <1>1, <1>14, <2>1, <2>2 DEF Interrupt, checkoutVars, Patching
<1>15. CASE Crash
  BY <1>1, <1>15 DEF Crash, checkoutVars, Patching
<1>16. ASSUME NEW v \in VMIDs, Appear(v) \/ Vanish(v) PROVE PatchedFirst'
  BY <1>1, <1>16 DEF Appear, Vanish, checkoutVars
<1>17. ASSUME Destroy \/ RemoveRow \/ UNCHANGED imageVars PROVE PatchedFirst'
  BY <1>1, <1>17 DEF Destroy, RemoveRow, imageVars, checkoutVars
<1> HIDE DEF PatchedFirst, ImagesTypeOK
<1> QED
  BY <1>2, <1>3, <1>4, <1>5, <1>6, <1>7, <1>8, <1>9, <1>10, <1>11, <1>12, <1>13,
     <1>14, <1>15, <1>16, <1>17 DEF ImagesNext, JobStep

(***************************************************************************)
(* The image of a row stays at the row's id, or the row turns stale.       *)
(***************************************************************************)
LEMMA ImRowStep ==
  ASSUME ImagesTypeOK, IdsAllocated, OwnContainers, OwnVMs, RowsOwn, [ImagesNext]_imageVars
  PROVE  RowsOwn'
<1> DEFINE Row(b) == b \in rows \/ at[b] = "record"
           At(b)  == vmid[b] \in VMIDs /\ vm[vmid[b]] = Image(b)
<1> USE ImNobody DEF ImagesTypeOK
<1>0. \A b \in Builds : /\ Image(b)[2] = b /\ Image(b) # Half(b) /\ Image(b) # Free
                        /\ Half(b)[2] = b
                        /\ \A c \in Builds : Image(b) # Half(c)
  BY DEF Image, Half, Free
<1>1. ASSUME \A b \in Builds : Row(b)' => Row(b),
             \A b \in Builds : b \in rows' => b \in rows \/ at'[b] = "over",
             \A b \in Builds : Row(b)' /\ b \notin stale' =>
                                 b \notin stale /\ (At(b) => vm'[vmid[b]] = Image(b))
      PROVE  RowsOwn'
  <2> SUFFICES ASSUME NEW b \in Builds
               PROVE  /\ b \in rows' => at'[b] = "over"
                      /\ Row(b)' => vmid'[b] \in VMIDs
                                      /\ (b \notin stale' => vm'[vmid'[b]] = Image(b))
    BY DEF RowsOwn
  <2>1. Row(b)' => vmid'[b] = vmid[b] /\ vmid[b] \in VMIDs
    BY <1>1, ImMoves DEF RowsOwn
  <2>2. b \in rows' => at'[b] = "over"
    BY <1>1, ImMoves DEF RowsOwn
  <2>3. Row(b)' /\ b \notin stale' => vm'[vmid[b]] = Image(b)
    BY <1>1, <2>1 DEF RowsOwn
  <2> QED
    BY <2>1, <2>2, <2>3
<1>2. ASSUME vm' = vm, stale' = stale,
             \A b \in Builds : Row(b)' => Row(b),
             \A b \in Builds : b \in rows' => b \in rows \/ at'[b] = "over"
      PROVE  RowsOwn'
  BY <1>1, <1>2
<1>3. ASSUME NEW j \in Jobs, Clone(j) \/ Cloned(j) \/ Render(j) \/ Stage(j) \/ Validate(j) \/ Fail(j)
      PROVE  RowsOwn'
  <2>1. UNCHANGED <<vm, stale, rows>>
    BY <1>3 DEF Clone, Cloned, Render, Stage, Validate, Fail, rowVars
  <2>2. \A b \in Builds : at'[b] = "record" => at[b] = "record"
    BY <1>3 DEF Clone, Cloned, Render, Stage, Validate, Fail, Go
  <2> QED
    BY <1>2, <2>1, <2>2
<1>4. ASSUME NEW b \in Builds, Submit(b) \/ Allocate(b) \/ Run(b) \/ Use(b) \/ Unuse(b) \/ Look(b)
      PROVE  RowsOwn'
  <2>1. UNCHANGED <<vm, stale, rows>>
    BY <1>4 DEF Submit, Allocate, Run, Use, Unuse, Look, rowVars
  <2>2. \A o \in Builds : at'[o] = "record" => at[o] = "record"
    BY <1>4 DEF Submit, Allocate, Run, Use, Unuse, Look, Go
  <2> QED
    BY <1>2, <2>1, <2>2
<1>5. ASSUME NEW b \in Builds, Record(b) PROVE RowsOwn'
  <2>1. /\ at[b] = "record" /\ at' = [at EXCEPT ![b] = "over"]
        /\ rows' = rows \cup {b} /\ UNCHANGED <<vm, stale>>
    BY <1>5 DEF Record, Go
  <2> QED
    BY <1>2, <2>1
<1>6. ASSUME NEW c \in Checks, SubmitCheck(c) PROVE RowsOwn'
  <2>1. UNCHANGED <<vm, stale, rows>> /\ at' = [at EXCEPT ![c] = "clone"]
    BY <1>6 DEF SubmitCheck, rowVars, Go
  <2> QED
    BY <1>2, <2>1
<1>7. ASSUME NEW v \in VMIDs, SetPassword(v) PROVE RowsOwn'
  <2>1. UNCHANGED <<vm, stale, rows, at>>
    BY <1>7 DEF SetPassword, rowVars
  <2> QED
    BY <1>2, <2>1
<1>8. ASSUME NEW v \in VMIDs, CreateVM(v) PROVE RowsOwn'
  <2>1. UNCHANGED <<stale, rows, at>> /\ vm[v] = Free
          /\ vm' = [vm EXCEPT ![v] = Half(container[v][2])]
    BY <1>8 DEF CreateVM, rowVars
  <2> HIDE DEF ImagesTypeOK
  <2>2. \A b \in Builds : At(b) => vm'[vmid[b]] = Image(b)
    BY <1>0, <2>1 DEF ImagesTypeOK
  <2> QED
    BY <1>1, <2>1, <2>2
<1>9. ASSUME NEW v \in VMIDs, Finish(v) PROVE RowsOwn'
  <2> DEFINE c == container[v][2]
  <2>1. container[v] # NoContainer /\ Ends(v, "record") /\ UNCHANGED <<stale, rows, vmid>>
    BY <1>9, ImContainer DEF Finish, rowVars
  <2>2. /\ c \in Builds
        /\ \A j \in Jobs : at'[j] = IF j = c /\ at[j] = "running" THEN "record" ELSE at[j]
    BY <2>1, ImEnds
  <2>3. PICK w \in VMIDs : vm[w] = Half(c) /\ vm' = [vm EXCEPT ![w] = Image(c)]
    BY <1>9 DEF Finish
  <2>4. vmid[c] = w /\ vm'[vmid[c]] = Image(c) /\ vmid[c] \in VMIDs
    <3>1. vm[w][2] = c
      BY <1>0, <2>2, <2>3
    <3>2. vmid[c] = w
      BY <2>2, <3>1 DEF OwnVMs
    <3> QED
      BY <2>3, <3>2
  <2>5. \A b \in Builds : At(b) => vm'[vmid[b]] = Image(b)
    BY <1>0, <2>2, <2>3
  <2> SUFFICES ASSUME NEW b \in Builds
               PROVE  /\ b \in rows => at'[b] = "over"
                      /\ Row(b)' => vmid[b] \in VMIDs
                                      /\ (b \notin stale => vm'[vmid[b]] = Image(b))
    BY <2>1 DEF RowsOwn
  <2>6. CASE b = c
    BY <2>2, <2>4, <2>6 DEF RowsOwn
  <2>7. CASE b # c
    BY <2>1, <2>2, <2>5, <2>7 DEF RowsOwn
  <2> QED
    BY <2>6, <2>7
<1>10. ASSUME NEW b \in Builds, Clean(b), NEW o \in Builds, At(o)
       PROVE  vm'[vmid[o]] = Image(o)
  <2>1. vmid[o] \in VMIDs /\ vm[vmid[o]] = Image(o) /\ Image(o) # Half(b)
    BY <1>0, <1>10
  <2>2. CASE UNCHANGED vm
    BY <2>1, <2>2
  <2>3. CASE vm' = [v \in VMIDs |-> IF vm[v] = Half(b) THEN Free ELSE vm[v]]
    BY <2>1, <2>3
  <2> QED
    BY <1>10, <2>2, <2>3 DEF Clean
<1>11. ASSUME NEW v \in VMIDs, PackerFails(v) PROVE RowsOwn'
  <2>1. container[v] # NoContainer /\ Ends(v, "over") /\ UNCHANGED <<stale, rows>>
          /\ Clean(container[v][2])
    BY <1>11 DEF PackerFails, rowVars
  <2>2. \A j \in Jobs : at'[j] \in {at[j], "over"}
    BY <2>1, ImEnds
  <2>3. container[v][2] \in Builds
    BY <2>1, ImContainer
  <2>4. \A o \in Builds : At(o) => vm'[vmid[o]] = Image(o)
    BY <1>10, <2>1, <2>3
  <2> QED
    BY <1>1, <2>1, <2>2, <2>4
<1>12. ASSUME NEW b \in Builds, Interrupt(b) PROVE RowsOwn'
  <2>1. UNCHANGED <<stale, rows>>
    BY <1>12 DEF Interrupt, rowVars
  <2>2. \A j \in Jobs : at'[j] \in {at[j], "over"}
    BY <1>12 DEF Interrupt, Ends, Go
  <2>3. Clean(b)
    BY <1>12 DEF Interrupt, Clean
  <2>4. \A o \in Builds : At(o) => vm'[vmid[o]] = Image(o)
    BY <1>10, <2>3
  <2> QED
    BY <1>1, <2>1, <2>2, <2>4
<1>13. ASSUME NEW v \in VMIDs, Appear(v) PROVE RowsOwn'
  <2>1. UNCHANGED <<stale, rows, at>> /\ vm[v] = Free
          /\ vm' = [vm EXCEPT ![v] = <<"other", Nobody>>]
    BY <1>13 DEF Appear, rowVars
  <2>2. \A b \in Builds : At(b) => vm'[vmid[b]] = Image(b)
    BY <1>0, <2>1
  <2> QED
    BY <1>1, <2>1, <2>2
<1>14. ASSUME NEW v \in VMIDs, vm' = [vm EXCEPT ![v] = Free], stale' = stale \cup Recorded(v),
              UNCHANGED <<rows, at>>
       PROVE  RowsOwn'
  <2>1. \A b \in Builds : Row(b) /\ b \notin stale' => b \notin stale /\ vm[v] # Image(b)
    BY <1>14 DEF Recorded
  <2>2. \A b \in Builds : Row(b) /\ b \notin stale' => (At(b) => vm'[vmid[b]] = Image(b))
    BY <1>14, <2>1
  <2> QED
    BY <1>1, <1>14, <2>1, <2>2
<1>15. ASSUME NEW v \in VMIDs, Vanish(v) PROVE RowsOwn'
  BY <1>14, <1>15 DEF Vanish, rowVars
<1>16. CASE Destroy
  <2>1. UNCHANGED <<rows, at>>
    BY <1>16 DEF Destroy
  <2>2. CASE UNCHANGED <<vm, stale>>
    BY <1>2, <2>1, <2>2
  <2>3. CASE /\ vm' = [vm EXCEPT ![vmid[deleting[2]]] = Free]
             /\ stale' = stale \cup Recorded(vmid[deleting[2]])
    <3>1. deleting[2] \in rows
      BY <1>16, ImDeletion DEF Destroy
    <3>2. vmid[deleting[2]] \in VMIDs
      BY <3>1 DEF RowsOwn
    <3> QED
      BY <1>14, <2>1, <2>3, <3>2
  <2> QED
    BY <1>16, <2>2, <2>3 DEF Destroy
<1>17. CASE RemoveRow
  <2>1. UNCHANGED <<vm, at>>
    BY <1>17 DEF RemoveRow
  <2>2. CASE UNCHANGED <<rows, stale>>
    BY <1>2, <2>1, <2>2
  <2>3. CASE rows' = rows \ {deleting[2]} /\ stale' = stale \ {deleting[2]}
    <3>1. deleting[2] \in rows
      BY <1>17, ImDeletion DEF RemoveRow
    <3>2. at[deleting[2]] = "over"
      BY <3>1 DEF RowsOwn
    <3>3. \A b \in Builds : Row(b)' => Row(b) /\ b # deleting[2]
      BY <2>1, <2>3, <3>2
    <3> QED
      BY <1>1, <2>1, <2>3, <3>3
  <2> QED
    BY <1>17, <2>2, <2>3 DEF RemoveRow
<1>18. CASE Crash
  <2>1. UNCHANGED <<vm, rows, stale>>
    BY <1>18 DEF Crash
  <2>2. \A b \in Builds : at'[b] # "record"
    BY <1>18 DEF Crash
  <2> QED
    BY <1>2, <2>1, <2>2
<1>19. CASE UNCHANGED imageVars
  BY <1>2, <1>19 DEF imageVars, rowVars
<1> HIDE DEF ImagesTypeOK
<1>20. ASSUME NEW j \in Jobs, JobStep(j) PROVE RowsOwn'
  BY <1>3, <1>4, <1>5, <1>12, <1>20 DEF JobStep
<1>21. ASSUME NEW v \in VMIDs, SetPassword(v) \/ CreateVM(v) \/ Finish(v) \/ PackerFails(v)
                                 \/ Appear(v) \/ Vanish(v)
       PROVE  RowsOwn'
  BY <1>7, <1>8, <1>9, <1>11, <1>13, <1>15, <1>21
<1> QED
  BY <1>4, <1>6, <1>16, <1>17, <1>18, <1>19, <1>20, <1>21 DEF ImagesNext

(***************************************************************************)
(* A row that was free of clusters when the deletion looked has one only   *)
(* if it came since.                                                       *)
(***************************************************************************)
LEMMA ImLookStep ==
  ASSUME ImagesTypeOK, LookedAtUnused, [ImagesNext]_imageVars
  PROVE  LookedAtUnused'
<1>1. ASSUME UNCHANGED <<used, deleting, late>> PROVE LookedAtUnused'
  BY <1>1 DEF LookedAtUnused
<1>2. ASSUME NEW j \in Jobs, JobStep(j) PROVE LookedAtUnused'
  <2>1. UNCHANGED <<used, deleting, late>>
    BY <1>2 DEF JobStep, Clone, Cloned, Render, Stage, Validate, Fail, Allocate, Run,
                Interrupt, Record, rowVars
  <2> QED
    BY <1>1, <2>1
<1>3. ASSUME NEW b \in Builds, Submit(b) \/ Use(b) \/ Unuse(b) \/ Look(b) PROVE LookedAtUnused'
  <2>1. CASE Submit(b)
    BY <1>1, <2>1 DEF Submit, rowVars
  <2>2. CASE Use(b)
    BY <2>2 DEF LookedAtUnused, Use
  <2>3. CASE Unuse(b)
    BY <2>3 DEF LookedAtUnused, Unuse
  <2>4. CASE Look(b)
    BY <2>4 DEF LookedAtUnused, Look
  <2> QED
    BY <1>3, <2>1, <2>2, <2>3, <2>4
<1>4. ASSUME NEW v \in VMIDs, SetPassword(v) \/ CreateVM(v) \/ Finish(v) \/ PackerFails(v)
                                \/ Appear(v) \/ Vanish(v)
      PROVE  LookedAtUnused'
  BY <1>1, <1>4 DEF SetPassword, CreateVM, Finish, PackerFails, Appear, Vanish, rowVars
<1>5. ASSUME Destroy \/ RemoveRow \/ Crash PROVE LookedAtUnused'
  BY <1>5 DEF LookedAtUnused, Destroy, RemoveRow, Crash, NotDeleting
<1>6. ASSUME (\E c \in Checks : SubmitCheck(c)) \/ UNCHANGED imageVars PROVE LookedAtUnused'
  BY <1>1, <1>6 DEF SubmitCheck, imageVars, rowVars
<1> QED
  BY <1>2, <1>3, <1>4, <1>5, <1>6 DEF ImagesNext

(***************************************************************************)
(* Every step keeps the invariant.                                         *)
(***************************************************************************)
LEMMA ImStep == ImagesIInv /\ [ImagesNext]_imageVars => ImagesIInv'
BY ImTypeStep, ImOneStep, ImOwnStep, ImRunStep, ImPatchStep, ImRowStep, ImLookStep
   DEF ImagesIInv

-----------------------------------------------------------------------------
(***************************************************************************)
(* The invariant holds whatever the number of builds, checks and ids, and  *)
(* whoever else makes and removes VMs.                                     *)
(***************************************************************************)
THEOREM ImagesInvariance == ImagesSpec => []ImagesIInv
<1>1. ImagesInit => ImagesIInv
  BY ImInit
<1>2. ImagesIInv /\ [ImagesNext]_imageVars => ImagesIInv'
  BY ImStep
<1> QED
  BY <1>1, <1>2, PTL DEF ImagesSpec

(***************************************************************************)
(* Types: checkout, containers, VMs and rows stay what they are.           *)
(***************************************************************************)
THEOREM ImagesTypes == ImagesSpec => []ImagesTypeOK
<1>1. ImagesIInv => ImagesTypeOK
  BY DEF ImagesIInv
<1> QED
  BY <1>1, ImagesInvariance, PTL

(***************************************************************************)
(* At most one build is at work on the checkout, and only a mishap leaves  *)
(* a container without its job (buildMu, templateBuildInProgress).         *)
(***************************************************************************)
THEOREM BuildsTakeTurns == ImagesSpec => []OneBuildAtWork
<1>1. ImagesIInv => OneBuildAtWork
  <2> SUFFICES ASSUME ImagesIInv PROVE OneBuildAtWork
    OBVIOUS
  <2> DEFINE S == {b \in Builds : at[b] \in AtWork \cup {"asked"}}
  <2>1. Cardinality(S) <= 1
    <3>1. CASE S = {}
      BY <3>1, FS_EmptySet
    <3>2. CASE S # {}
      <4>1. PICK b \in S : TRUE
        BY <3>2
      <4>2. S = {b}
        BY <4>1 DEF ImagesIInv, OneAtATime
      <4> QED
        BY <4>2, FS_Singleton
    <3> QED
      BY <3>1, <3>2
  <2> QED
    BY <2>1 DEF ImagesIInv, NoOrphans, OneBuildAtWork
<1> QED
  BY <1>1, ImagesInvariance, PTL

(***************************************************************************)
(* A template row is never of another build's image, although ids are      *)
(* recycled (the id allocated before the build, "Record template").        *)
(***************************************************************************)
THEOREM RowsNameTheirOwn == ImagesSpec => []RowsNameTheirImages
<1>1. ImagesIInv => RowsNameTheirImages
  BY DEF ImagesIInv, ImagesTypeOK, RowsOwn, RowsNameTheirImages
<1> QED
  BY <1>1, ImagesInvariance, PTL

(***************************************************************************)
(* A deletion destroys the image under no cluster that was there when it   *)
(* looked (clustersUsingTemplate).                                         *)
(***************************************************************************)
THEOREM DeletionSparesUsed == ImagesSpec => UsedImagesKept
<1>1. ImagesIInv /\ [ImagesNext]_imageVars =>
        [deleting[1] = "looked" /\ deleting'[1] = "destroyed" /\ deleting[2] \in used
           => late]_imageVars
  BY DEF ImagesIInv, LookedAtUnused
<1> QED
  BY <1>1, ImagesInvariance, PTL DEF ImagesSpec, UsedImagesKept

(***************************************************************************)
(* Packer makes a VM only from a packer.json that waits for the reboot     *)
(* (patchRebootWait), in every container.                                  *)
(***************************************************************************)
THEOREM PackerWaits == ImagesSpec => BuildWaitsForReboot
<1> DEFINE Waits == \A v \in VMIDs : container[v][1] = "ready" /\ container'[v][1] = "made"
                                       => rendered = "patched"
<1>1. ImagesIInv /\ [ImagesNext]_imageVars => [Waits]_imageVars
  <2> SUFFICES ASSUME ImagesIInv, ImagesNext, NEW v \in VMIDs,
                      container[v][1] = "ready", container'[v][1] = "made"
               PROVE  rendered = "patched"
    OBVIOUS
  <2> USE ImNobody DEF ImagesIInv
  <2>0. container \in [VMIDs -> ContainerStates] /\ rendered \in {"absent", "upstream", "patched"}
    BY DEF ImagesTypeOK
  <2>1. ASSUME NEW w \in VMIDs, CreateVM(w) PROVE rendered = "patched"
    BY <2>0, <2>1 DEF CreateVM, PatchedFirst
  <2>2. ASSUME UNCHANGED container PROVE FALSE
    BY <2>2
  <2>3. ASSUME NEW w \in VMIDs, SetPassword(w) PROVE FALSE
    <3>1. PICK p \in {"reset", "ready"} : container' = [container EXCEPT ![w][1] = p]
      BY <2>3 DEF SetPassword, Phase
    <3>2. container[w][1] \in {"started", "reset"}
      BY <2>3 DEF SetPassword, Phase
    <3> QED
      BY <2>0, <3>1, <3>2, ImPhase
  <2>4. ASSUME NEW w \in VMIDs, Finish(w) \/ PackerFails(w) PROVE FALSE
    BY <2>0, <2>4 DEF Finish, PackerFails, Ends, NoContainer
  <2>5. ASSUME NEW b \in Builds, Interrupt(b) \/ Run(b) PROVE FALSE
    BY <2>0, <2>5 DEF Interrupt, Run, Ends, NoContainer
  <2>6. ASSUME NEW j \in Jobs, Clone(j) \/ Cloned(j) \/ Render(j) \/ Stage(j) \/ Validate(j) \/ Fail(j)
        PROVE  UNCHANGED container
    BY <2>6 DEF Clone, Cloned, Render, Stage, Validate, Fail
  <2>7. ASSUME NEW b \in Builds, Submit(b) \/ Allocate(b) \/ Record(b) \/ Use(b) \/ Unuse(b) \/ Look(b)
        PROVE  UNCHANGED container
    BY <2>7 DEF Submit, Allocate, Record, Use, Unuse, Look
  <2>8. ASSUME (\E w \in VMIDs : Appear(w) \/ Vanish(w)) \/ (\E c \in Checks : SubmitCheck(c))
               \/ Destroy \/ RemoveRow \/ Crash
        PROVE  UNCHANGED container
    BY <2>8 DEF Appear, Vanish, SubmitCheck, Destroy, RemoveRow, Crash
  <2> HIDE DEF ImagesIInv
  <2> QED
    BY <2>1, <2>2, <2>3, <2>4, <2>5, <2>6, <2>7, <2>8 DEF ImagesNext, JobStep
<1> QED
  BY <1>1, ImagesInvariance, PTL DEF ImagesSpec, BuildWaitsForReboot
=============================================================================
