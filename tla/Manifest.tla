------------------------------- MODULE Manifest -------------------------------
(***************************************************************************)
(* What Generate makes of the manifest that clusterctl renders: passes     *)
(* that add files, commands and settings to the documents of some kinds.   *)
(* A document is a record; a manifest has at most one of a kind, since the *)
(* passes treat documents of one kind alike.  A file is where it goes      *)
(* (directory, name, extension), what it holds, and whether the entry      *)
(* states its permissions.                                                 *)
(***************************************************************************)
EXTENDS ClusterForm

Bootstraps == {"KubeadmControlPlane", "KubeadmConfigTemplate"}
Kinds      == Bootstraps \cup {"ProxmoxCluster", "ProxmoxMachineTemplate"}

\* Directories.  Flatcar's /usr is read-only.
UsrTrust == "/usr/local/share/ca-certificates"
EtcTrust == "/etc/ssl/certs"
Usr      == {UsrTrust, "/usr/local/bin"}

File(dir, name, ext, holds) ==
  [dir |-> dir, name |-> name, ext |-> ext, holds |-> holds, permissions |-> TRUE]

Script(name) == File("/etc/pvekube", name, "sh", "script")
CAFile(dir, name, which) == File(dir, name, "crt", which)

IsFile(x) ==
  x = [dir |-> x.dir, name |-> x.name, ext |-> x.ext, holds |-> x.holds,
       permissions |-> x.permissions]

\* What clusterctl renders: the commands of its template before ours, and no
\* OIDC flag that would need a file.
IsRenderedDoc(k, d) ==
  IF k \in Bootstraps
  THEN /\ d = [files |-> d.files, before |-> <<"upstream">>, after |-> d.after,
               flags |-> d.flags, format |-> d.format]
       /\ \A x \in d.files : IsFile(x)
       /\ "ca-file" \notin d.flags
  ELSE IF k = "ProxmoxCluster" THEN d = [credentials |-> d.credentials]
  ELSE d = [skipCloudInit |-> d.skipCloudInit, full |-> d.full, disk |-> d.disk]

IsRendered(m) ==
  /\ DOMAIN m \subseteq Kinds /\ m = [k \in DOMAIN m |-> m[k]]
  /\ \A k \in DOMAIN m : IsRenderedDoc(k, m[k])

Flatcar(f) == f.os = "flatcar"

\* Ubuntu and Flatcar have update-ca-certificates; Rocky Linux, the third of
\* Flavors, does not, nor does it look where that one does.
UpdatesCAs(f) == f.os # "rocky"

\* Adding to every document of some kinds leaves the others alone.
Inject(m, kinds, Change(_)) == [k \in DOMAIN m |-> IF k \in kinds THEN Change(m[k]) ELSE m[k]]

-----------------------------------------------------------------------------
\* RegistryConfig.files; the CA once for containerd, once for the system.
RegistryFiles(f) ==
  {Script("configure-registry"), File("/etc/containerd/certs.d", "hosts", "toml", "hosts")}
    \cup IF f.registry.ca = "" THEN {}
         ELSE {CAFile("/etc/containerd/certs.d", "ca", "registry CA"),
               CAFile(UsrTrust, "registry", "registry CA")}

InternalCAFiles ==
  {CAFile(UsrTrust, "internal-ca", "internal CA"), Script("install-internal-ca")}

\* injectBootstrapFiles: the files, and the script among them as a command.
WithFiles(doc, files, script) ==
  [doc EXCEPT !.files = @ \cup files, !.before = Append(@, script)]

InjectRegistryTrust(f, m) ==
  IF RegistryEnabled(f)
  THEN Inject(m, Bootstraps, LAMBDA d : WithFiles(d, RegistryFiles(f), "configure-registry"))
  ELSE m

InjectInternalCATrust(f, m) ==
  IF f.internalCA # ""
  THEN Inject(m, Bootstraps, LAMBDA d : WithFiles(d, InternalCAFiles, "install-internal-ca"))
  ELSE m

\* The API server runs on the control plane only.
InjectOIDCAuth(f, m) ==
  LET withCA == f.oidc.ca # ""
      flags  == {"issuer-url", "client-id", "username-claim", "groups-claim"}
                  \cup IF withCA THEN {"ca-file"} ELSE {}
      files  == IF withCA THEN {File("/etc/kubernetes/pki", "oidc-ca", "pem", "OIDC CA")} ELSE {}
  IN  IF OIDCEnabled(f)
      THEN Inject(m, {"KubeadmControlPlane"},
             LAMBDA d : [d EXCEPT !.flags = @ \cup flags, !.files = @ \cup files])
      ELSE m

\* Never a no-op: each cluster uses the Secret of its connection.
InjectCredentialsRef(f, m) ==
  Inject(m, {"ProxmoxCluster"}, LAMBDA d : [d EXCEPT !.credentials = f.connection])

-----------------------------------------------------------------------------
(* InjectIgnitionFormat *)

\* dropUsrFiles: a CA goes where Flatcar's update-ca-certificates looks for
\* *.pem, anything else under /usr is left out.
Rehomed(files) ==
  {IF x.dir = UsrTrust THEN [x EXCEPT !.dir = EtcTrust, !.ext = "pem"] ELSE x :
     x \in {y \in files : y.dir \in Usr => y.dir = UsrTrust}}

UntaintFiles == {Script("untaint"), File("/etc/systemd/system", "untaint", "service", "unit")}

\* injectUntaintWorkaround and defaultFilePermissions come after dropUsrFiles.
Ignition(doc) ==
  [doc EXCEPT
     !.format = "ignition",
     !.files  = {[x EXCEPT !.permissions = TRUE] : x \in Rehomed(@) \cup UntaintFiles},
     !.after  = Append(@, "untaint")]

InjectIgnitionFormat(f, m) ==
  IF Flatcar(f)
  THEN Inject(Inject(m, Bootstraps, Ignition), {"ProxmoxMachineTemplate"},
              LAMBDA d : [d EXCEPT !.skipCloudInit = TRUE])
  ELSE m

-----------------------------------------------------------------------------
\* Generate fails when clusterctl does, and when a pass finds no document.
CanGenerate(f, m) ==
  /\ "ProxmoxCluster" \in DOMAIN m
  /\ RegistryEnabled(f) \/ f.internalCA # "" => DOMAIN m \cap Bootstraps # {}
  /\ OIDCEnabled(f) => "KubeadmControlPlane" \in DOMAIN m
  /\ Flatcar(f) => DOMAIN m \ {"ProxmoxCluster"} # {}

\* Linked clones, for which the webhook refuses a disk format.
LinkClones(m) ==
  Inject(m, {"ProxmoxMachineTemplate"},
         LAMBDA d : [d EXCEPT !.full = FALSE, !.disk = IF @ = "qcow2" THEN "" ELSE @])

\* Mutant of Generate: the internal CA is added after the Flatcar pass.
GenerateCALast(f, m) ==
  InjectInternalCATrust(f, InjectIgnitionFormat(f, InjectCredentialsRef(f,
    InjectOIDCAuth(f, InjectRegistryTrust(f, LinkClones(m))))))

Generate(f, m) ==
  InjectIgnitionFormat(f, InjectInternalCATrust(f, InjectCredentialsRef(f,
    InjectOIDCAuth(f, InjectRegistryTrust(f, LinkClones(m))))))

-----------------------------------------------------------------------------
\* The CAs a node's system has to trust.
TrustedCAs(f) ==
  (IF RegistryEnabled(f) /\ f.registry.ca # "" THEN {"registry CA"} ELSE {})
    \cup IF f.internalCA # "" THEN {"internal CA"} ELSE {}

\* Where the image's update-ca-certificates finds a CA.
Anchored(f, x) ==
  /\ UpdatesCAs(f)
  /\ IF Flatcar(f) THEN x.dir = EtcTrust /\ x.ext = "pem" ELSE x.dir = UsrTrust /\ x.ext = "crt"

\* A script that is there runs to its end.  configure-registry goes on when
\* it cannot update the system's CAs, install-internal-ca fails.
ScriptRuns(f, doc, name) ==
  /\ Script(name) \in doc.files
  /\ name = "install-internal-ca" => UpdatesCAs(f)

\* A node of this bootstrap document comes as far as kubeadm, and the API
\* server has what its flags name.  The template's own commands come first.
NodeBoots(f, doc) ==
  /\ Flatcar(f) => /\ doc.format = "ignition"
                   /\ \A x \in doc.files : x.dir \notin Usr /\ x.permissions
  /\ doc.before[1] = "upstream"
  /\ \A n \in 2 .. Len(doc.before) : ScriptRuns(f, doc, doc.before[n])
  /\ "ca-file" \in doc.flags => \E x \in doc.files : x.holds = "OIDC CA"

\* containerd looks for the registry where hosts.toml and its CA lie.
NodePulls(f, doc) ==
  RegistryEnabled(f) =>
    /\ \E n \in 2 .. Len(doc.before) : doc.before[n] = "configure-registry"
    /\ RegistryFiles(f) \ {CAFile(UsrTrust, "registry", "registry CA")} \subseteq doc.files

\* The system's store gets the CAs: either script updates it.
NodeTrusts(f, doc) ==
  /\ \A ca \in TrustedCAs(f) : \E x \in doc.files : x.holds = ca /\ Anchored(f, x)
  /\ TrustedCAs(f) # {} => Len(doc.before) > 1

ManifestBoots(f, m) ==
  /\ \A k \in Bootstraps \cap DOMAIN m :
       /\ NodePulls(f, m[k])
       /\ UpdatesCAs(f) \/ f.internalCA = "" => NodeBoots(f, m[k])
       /\ UpdatesCAs(f) => NodeTrusts(f, m[k])
  /\ m["ProxmoxCluster"].credentials = f.connection
  /\ Flatcar(f) /\ "ProxmoxMachineTemplate" \in DOMAIN m
       => m["ProxmoxMachineTemplate"].skipCloudInit
=============================================================================
