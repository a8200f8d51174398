---------------------------- MODULE SkillInstall -----------------------------
(***************************************************************************)
(* Installing skills: what an approved request does to the skills directory *)
(* (internal/clawhub/commit.go), what the daemon then sees of it            *)
(* (internal/skills/loader.go, registry.go), uninstalling                   *)
(* (internal/daemon/skill_routes.go) and the embedded system skills that    *)
(* every start of the daemon installs (internal/skills/bundled.go).         *)
(*                                                                         *)
(* A commit runs in the goroutine of whoever decided, under no lock: each   *)
(* command, each file removed or copied, and each read and write of a file  *)
(* is a step, and the daemon may die between any two, or in the middle of   *)
(* a write.  A request is also the version of the files it brings: two,     *)
(* and a _meta.json of its own if the bundle holds one, which nothing       *)
(* refuses.  A directory is scanned in one step.                            *)
(***************************************************************************)
EXTENDS Naturals, Sequences, FiniteSets

CONSTANTS
  Bundles,       \* staged installation requests
  Slugs,         \* names of skill directories
  SystemSlugs,   \* those embedded in the daemon
  SlugOf,        \* the slug a request installs
  Carriers,      \* those whose bundle holds a _meta.json
  Proposed,      \* how many commands its card proposes
  Removers,      \* goroutines in handleSkillsUninstall
  MaxFaults,     \* bound: failing system calls and commands
  MaxDeaths      \* bound: daemon crashes

Absent == "absent"
System == "system"
Torn == "torn"     \* a file cut short so early that it does not parse

ASSUME SkillInstallAssumption ==
  /\ SystemSlugs \subseteq Slugs /\ Carriers \subseteq Bundles
  /\ SlugOf \in [Bundles -> Slugs] /\ Proposed \in [Bundles -> Nat]
  /\ MaxFaults \in Nat /\ MaxDeaths \in Nat
  /\ {Absent, System, Torn} \cap Bundles = {} /\ Bundles \cap Removers = {}

VARIABLES
  staged,     \* requests whose staging directory exists
  decided,    \* decision of each request, "" while it waits
  commit,     \* progress of Commit and of the refresh after it
  ran,        \* commands of each request that ran and succeeded
  dir,        \* contents of each skill directory
  brought,    \* slugs whose _meta.json came with a bundle
  shared,     \* slugs that two goroutines changed at the same time
  lock,       \* _lock.json: version recorded for each slug
  registry,   \* snapshot that List serves: version by slug
  remover,    \* progress of each uninstall
  boot,       \* progress of the daemon's start
  faults, deaths

skillVars == <<staged, decided, commit, ran, dir, brought, shared, lock, registry,
               remover, boot, faults, deaths>>

-----------------------------------------------------------------------------
(* A skill directory. *)

Files == <<"SKILL.md", "tools.md">>
FilesOf(r) == IF r \in Carriers THEN <<"SKILL.md", "_meta.json", "tools.md">> ELSE Files
Entries == {"SKILL.md", "tools.md", "_meta.json"}
NoDir == [made |-> FALSE, has |-> [e \in Entries |-> Absent]]
NoCommit == [pc |-> "none", at |-> 0, saw |-> <<>>]
NoRemoval == [pc |-> "none", at |-> Absent, saw |-> <<>>]
Starting == [pc |-> "system", left |-> SystemSlugs, slug |-> Absent, at |-> 0]

(* loadOne: a directory counts as a skill when both of these files parse. *)
LoadOne(s) == \A e \in {"SKILL.md", "_meta.json"} : dir[s].has[e] \notin {Absent, Torn}

(* LoadAll: the permissions a skill gets are those its metadata records,
   whoever wrote it. *)
LoadAll == [s \in Slugs |-> IF LoadOne(s) THEN dir[s].has["_meta.json"] ELSE Absent]

Put(s, e, v) == dir' = [dir EXCEPT ![s].made = TRUE, ![s].has[e] = v]

(* A file of a bundle is copied, and a _meta.json is written. *)
Copy(s, e, v) ==
  Put(s, e, v) /\ brought' = IF e = "_meta.json" THEN brought \union {s} ELSE brought
Describe(s, v) == Put(s, "_meta.json", v) /\ brought' = brought \ {s}

Fail == faults < MaxFaults /\ faults' = faults + 1

SkillInit ==
  /\ staged = {} /\ decided = [r \in Bundles |-> ""]
  /\ commit = [r \in Bundles |-> NoCommit] /\ ran = [r \in Bundles |-> 0]
  /\ dir = [s \in Slugs |-> NoDir] /\ brought = {} /\ shared = {}
  /\ lock = [s \in Slugs |-> Absent] /\ registry = [s \in Slugs |-> Absent]
  /\ remover = [u \in Removers |-> NoRemoval]
  /\ boot = Starting
  /\ faults = 0 /\ deaths = 0

(* Goroutines that are between their first and last change of directory s. *)
Changing(s) ==
  {r \in Bundles : SlugOf[r] = s /\ commit[r].pc \in {"remove", "copy", "fingerprint", "meta"}}
    \union {u \in Removers : remover[u].pc = "remove" /\ remover[u].at = s}

Sharing(s) == shared' = IF Changing(s) # {} THEN shared \union {s} ELSE shared

Goto(r, pc) == commit' = [commit EXCEPT ![r].pc = pc]
-----------------------------------------------------------------------------
(* Deciding a staged request. *)

(* Stage: a bundle that does not unpack leaves no staging directory. *)
StageBundle(r) ==
  /\ boot.pc = "up" /\ commit[r].pc = "none"
  /\ staged' = staged \union {r} /\ Goto(r, "staged")
  /\ UNCHANGED <<decided, ran, dir, brought, shared, lock, registry, remover, boot, faults, deaths>>

(* Fault: a denied request falls through to the installation. *)
DecideRequestDenyThrough(r, d) ==
  /\ commit[r].pc = "staged"
  /\ decided' = [decided EXCEPT ![r] = d]
  /\ staged' = IF d = "deny" THEN staged \ {r} ELSE staged
  /\ Goto(r, IF d = "approve" THEN "command" ELSE "clear")
  /\ UNCHANGED <<ran, dir, brought, shared, lock, registry, remover, boot, faults, deaths>>

(* The head of Commit: deny removes the staged files, skip_binary skips the
   commands.  Approvals lets each request come here once. *)
DecideRequest(r, d) ==
  /\ commit[r].pc = "staged"
  /\ decided' = [decided EXCEPT ![r] = d]
  /\ staged' = IF d = "deny" THEN staged \ {r} ELSE staged
  /\ Goto(r, CASE d = "approve" -> "command"
               [] d = "skip_binary" -> "clear"
               [] OTHER -> "done")
  /\ UNCHANGED <<ran, dir, brought, shared, lock, registry, remover, boot, faults, deaths>>

(* Fault: the loop over the commands runs once too often. *)
RunCommandPast(r) ==
  /\ commit[r].pc = "command"
  /\ IF commit[r].at > Proposed[r]
       THEN Goto(r, "clear") /\ UNCHANGED <<ran, faults>>
       ELSE /\ commit' = [commit EXCEPT ![r].at = @ + 1]
            /\ ran' = [ran EXCEPT ![r] = @ + 1] /\ UNCHANGED faults
  /\ UNCHANGED <<staged, decided, dir, brought, shared, lock, registry, remover, boot, deaths>>

(* The commands run in the order of the card; the first that fails ends the
   installation, with the staged files left behind. *)
RunCommand(r) ==
  /\ commit[r].pc = "command"
  /\ IF commit[r].at = Proposed[r]
       THEN Goto(r, "clear") /\ UNCHANGED <<ran, faults>>
       ELSE \/ /\ commit' = [commit EXCEPT ![r].at = @ + 1]
               /\ ran' = [ran EXCEPT ![r] = @ + 1] /\ UNCHANGED faults
            \/ Fail /\ Goto(r, "failed") /\ UNCHANGED ran
  /\ UNCHANGED <<staged, decided, dir, brought, shared, lock, registry, remover, boot, deaths>>

-----------------------------------------------------------------------------
(* Replacing the directory. *)

(* One step of os.RemoveAll(s): an entry goes, in whatever order the directory
   lists them, and the directory itself last. *)
RemoveOne(s) ==
  \E e \in Entries : dir[s].has[e] # Absent /\ dir' = [dir EXCEPT ![s].has[e] = Absent]
Emptied(s) == \A e \in Entries : dir[s].has[e] = Absent

(* Fault: the new files are copied over the old ones. *)
ClearTargetNot(r) ==
  /\ commit[r].pc = "clear" /\ Goto(r, "copy") /\ Sharing(SlugOf[r])
  /\ UNCHANGED <<staged, decided, ran, dir, brought, lock, registry, remover, boot, faults, deaths>>

ClearTarget(r) ==
  /\ commit[r].pc = "clear" /\ Goto(r, "remove") /\ Sharing(SlugOf[r])
  /\ UNCHANGED <<staged, decided, ran, dir, brought, lock, registry, remover, boot, faults, deaths>>

RemoveTarget(r) ==
  /\ commit[r].pc = "remove"
  /\ \/ RemoveOne(SlugOf[r]) /\ UNCHANGED <<commit, faults>>
     \/ /\ Emptied(SlugOf[r])
        /\ dir' = [dir EXCEPT ![SlugOf[r]] = NoDir]
        /\ commit' = [commit EXCEPT ![r].pc = "copy", ![r].at = 0]
        /\ UNCHANGED faults
     \/ Fail /\ Goto(r, "failed") /\ UNCHANGED dir
  /\ UNCHANGED <<staged, decided, ran, brought, shared, lock, registry, remover, boot, deaths>>

(* copyDir: the directory and then the files of the bundle in lexical order.
   A write that fails leaves nothing, a file that does not parse, or one that
   does, cut short later or not at all. *)
CopyOne(r) ==
  LET s == SlugOf[r]
      k == commit[r].at
      files == FilesOf(r)
      mayWrite == k \in DOMAIN files /\ dir[s].made
  IN /\ commit[r].pc = "copy"
     /\ \/ /\ k = 0
           /\ dir' = [dir EXCEPT ![s].made = TRUE]
           /\ commit' = [commit EXCEPT ![r].at = 1] /\ UNCHANGED <<brought, faults>>
        \/ /\ mayWrite /\ Copy(s, files[k], r)
           /\ commit' = [commit EXCEPT ![r].at = k + 1] /\ UNCHANGED faults
        \/ /\ k \in DOMAIN files /\ ~dir[s].made
           /\ Goto(r, "failed") /\ UNCHANGED <<dir, brought, faults>>
        \/ k > Len(files) /\ Goto(r, "fingerprint") /\ UNCHANGED <<dir, brought, faults>>
        \/ /\ Fail /\ Goto(r, "failed")
           /\ \/ UNCHANGED <<dir, brought>>
              \/ mayWrite /\ \E v \in {r, Torn} : Copy(s, files[k], v)
     /\ UNCHANGED <<staged, decided, ran, shared, lock, registry, remover, boot, deaths>>

(* fingerprintDir reads the directory, not the staged bundle. *)
FingerprintDir(r) ==
  /\ commit[r].pc = "fingerprint"
  /\ \/ Goto(r, IF dir[SlugOf[r]].made THEN "meta" ELSE "failed") /\ UNCHANGED faults
     \/ Fail /\ Goto(r, "failed")
  /\ UNCHANGED <<staged, decided, ran, dir, brought, shared, lock, registry, remover, boot, deaths>>

(* The metadata is written last, by atomicfs: an error may come after its
   rename. *)
WriteMeta(r) ==
  LET written == dir[SlugOf[r]].made /\ Describe(SlugOf[r], r)
      unwritten == UNCHANGED <<dir, brought>>
  IN /\ commit[r].pc = "meta"
     /\ \/ written /\ Goto(r, "lock") /\ UNCHANGED faults
        \/ ~dir[SlugOf[r]].made /\ unwritten /\ Goto(r, "failed") /\ UNCHANGED faults
        \/ Fail /\ Goto(r, "failed") /\ (written \/ unwritten)
     /\ UNCHANGED <<staged, decided, ran, shared, lock, registry, remover, boot, deaths>>

(* updateLock reads the file, sets one entry and writes it back. *)
ReadLock(r) ==
  /\ commit[r].pc = "lock"
  /\ commit' = [commit EXCEPT ![r].pc = "unlock", ![r].saw = lock]
  /\ UNCHANGED <<staged, decided, ran, dir, brought, shared, lock, registry, remover, boot, faults, deaths>>

WriteLock(r) ==
  /\ commit[r].pc = "unlock"
  /\ \/ /\ commit' = [commit EXCEPT ![r].pc = "cleanup", ![r].saw = <<>>] /\ UNCHANGED faults
        /\ lock' = [commit[r].saw EXCEPT ![SlugOf[r]] = r]
     \/ /\ Fail /\ commit' = [commit EXCEPT ![r].pc = "failed", ![r].saw = <<>>]
        /\ lock' \in {lock, [commit[r].saw EXCEPT ![SlugOf[r]] = r]}
  /\ UNCHANGED <<staged, decided, ran, dir, brought, shared, registry, remover, boot, deaths>>

DropStaging(r) ==
  /\ commit[r].pc = "cleanup" /\ Goto(r, "refresh")
  /\ staged' = staged \ {r}
  /\ UNCHANGED <<decided, ran, dir, brought, shared, lock, registry, remover, boot, faults, deaths>>

-----------------------------------------------------------------------------
(* The registry: Refresh scans the directory and only then takes the mutex. *)

ScanAfterCommit(r) ==
  /\ commit[r].pc = "refresh"
  /\ commit' = [commit EXCEPT ![r].pc = "publish", ![r].saw = LoadAll]
  /\ UNCHANGED <<staged, decided, ran, dir, brought, shared, lock, registry, remover, boot, faults, deaths>>

PublishAfterCommit(r) ==
  /\ commit[r].pc = "publish"
  /\ registry' = commit[r].saw
  /\ commit' = [commit EXCEPT ![r].pc = "done", ![r].saw = <<>>]
  /\ UNCHANGED <<staged, decided, ran, dir, brought, shared, lock, remover, boot, faults, deaths>>

(* handleSkillsUninstall: the directory goes, the lock entry stays. *)
Uninstall(u, s) ==
  /\ boot.pc = "up" /\ remover[u].pc = "none"
  /\ remover' = [remover EXCEPT ![u] = [NoRemoval EXCEPT !.pc = "remove", !.at = s]]
  /\ Sharing(s)
  /\ UNCHANGED <<staged, decided, commit, ran, dir, brought, lock, registry, boot, faults, deaths>>

UninstallStep(u) ==
  /\ \/ /\ remover[u].pc = "remove"
        /\ \/ RemoveOne(remover[u].at) /\ UNCHANGED remover
           \/ /\ Emptied(remover[u].at)
              /\ dir' = [dir EXCEPT ![remover[u].at] = NoDir]
              /\ remover' = [remover EXCEPT ![u].pc = "refresh"]
        /\ UNCHANGED <<faults, registry>>
     \/ /\ remover[u].pc = "remove" /\ Fail
        /\ remover' = [remover EXCEPT ![u].pc = "done"]
        /\ UNCHANGED <<dir, registry>>
     \/ /\ remover[u].pc = "refresh"
        /\ remover' = [remover EXCEPT ![u].pc = "publish", ![u].saw = LoadAll]
        /\ UNCHANGED <<dir, faults, registry>>
     \/ /\ remover[u].pc = "publish"
        /\ registry' = remover[u].saw
        /\ remover' = [remover EXCEPT ![u].pc = "done", ![u].saw = <<>>]
        /\ UNCHANGED <<dir, faults>>
  /\ UNCHANGED <<staged, decided, commit, ran, brought, shared, lock, boot, deaths>>

-----------------------------------------------------------------------------
(* The start of the daemon: system skills, then a first Refresh. *)

(* installOneSystemSkill: a directory that exists is left alone, whatever is
   in it; the metadata is written last.  An error ends the installation of all
   system skills, and the daemon starts without the rest. *)
InstallOneSystemSkill(s) ==
  LET k == boot.at
      next == [boot EXCEPT !.at = 0, !.left = @ \ {s}]
  IN /\ boot.pc = "system"
     /\ \/ /\ k = 0 /\ s \in boot.left
           /\ \/ /\ boot' = IF dir[s].made THEN next ELSE [next EXCEPT !.at = 1, !.slug = s]
                 /\ dir' = [dir EXCEPT ![s].made = TRUE] /\ UNCHANGED faults
              \/ Fail /\ boot' = [boot EXCEPT !.left = {}] /\ UNCHANGED dir
           /\ UNCHANGED brought
        \/ /\ k > 0 /\ s = boot.slug
           /\ \/ /\ IF k \in DOMAIN Files
                      THEN Put(s, Files[k], System) /\ boot' = [boot EXCEPT !.at = k + 1]
                      ELSE Put(s, "_meta.json", System) /\ boot' = next
                 /\ UNCHANGED faults
              \/ /\ Fail /\ boot' = [boot EXCEPT !.at = 0, !.left = {}]
                 /\ \/ UNCHANGED dir
                    \/ k \in DOMAIN Files /\ \E v \in {System, Torn} : Put(s, Files[k], v)
                    \/ k \notin DOMAIN Files /\ Put(s, "_meta.json", System)
           /\ brought' = brought \ {s}
     /\ UNCHANGED <<staged, decided, commit, ran, shared, lock, registry, remover, deaths>>

InstallSystemSkills ==
  /\ boot.pc = "system" /\ boot.left = {} /\ boot.at = 0
  /\ boot' = [boot EXCEPT !.pc = "up"]
  /\ registry' = LoadAll
  /\ UNCHANGED <<staged, decided, commit, ran, dir, brought, shared, lock, remover, faults, deaths>>

(* The write of a bundle's or of a system skill's file that is under way. *)
Writing(s, e) ==
  \/ boot.pc = "system" /\ boot.slug = s /\ boot.at \in DOMAIN Files /\ Files[boot.at] = e
  \/ \E r \in Bundles : /\ SlugOf[r] = s /\ commit[r].pc = "copy" /\ dir[s].made
                       /\ commit[r].at \in DOMAIN FilesOf(r) /\ FilesOf(r)[commit[r].at] = e

(* Everything in memory is lost; a request that was decided is not decided
   again (its approval file is gone) and its staging directory stays.  Of two
   files that are being written at most one is torn here. *)
DaemonDies ==
  /\ deaths < MaxDeaths /\ deaths' = deaths + 1
  /\ commit' = [r \in Bundles |->
       IF commit[r].pc \in {"none", "staged", "done"} THEN commit[r]
       ELSE [NoCommit EXCEPT !.pc = "failed"]]
  /\ remover' = [u \in Removers |->
       IF remover[u].pc = "none" THEN NoRemoval ELSE [NoRemoval EXCEPT !.pc = "done"]]
  /\ registry' = [s \in Slugs |-> Absent]
  /\ boot' = Starting
  /\ \/ UNCHANGED dir
     \/ \E s \in Slugs, e \in Entries : Writing(s, e) /\ Put(s, e, Torn)
  /\ UNCHANGED <<staged, decided, ran, brought, shared, lock, faults>>

CommitStep(r) ==
  \/ StageBundle(r)
  \/ \E d \in {"approve", "skip_binary", "deny"} : boot.pc = "up" /\ DecideRequest(r, d)
  \/ RunCommand(r) \/ ClearTarget(r) \/ RemoveTarget(r) \/ CopyOne(r)
  \/ FingerprintDir(r) \/ WriteMeta(r) \/ ReadLock(r) \/ WriteLock(r) \/ DropStaging(r)
  \/ ScanAfterCommit(r) \/ PublishAfterCommit(r)

SkillNext ==
  \/ \E r \in Bundles : CommitStep(r)
  \/ \E u \in Removers : UninstallStep(u) \/ \E s \in Slugs : Uninstall(u, s)
  \/ \E s \in Slugs : InstallOneSystemSkill(s)
  \/ InstallSystemSkills
  \/ DaemonDies

SkillSpec == SkillInit /\ [][SkillNext]_skillVars

-----------------------------------------------------------------------------
(* Correctness. *)

Versions == Bundles \union {System}
Snapshot == [Slugs -> Versions \union {Absent}]

CommitPcs == {"none", "staged", "command", "clear", "remove", "copy", "fingerprint", "meta", "lock",
              "unlock", "cleanup", "refresh", "publish", "done", "failed"}
Commits == [pc: CommitPcs, at: Nat, saw: Snapshot \union {<<>>}]
Removals == [pc: {"none", "remove", "refresh", "publish", "done"}, at: Slugs \union {Absent},
             saw: Snapshot \union {<<>>}]
Directory == [made: BOOLEAN, has: [Entries -> Versions \union {Absent, Torn}]]
Boot == [pc: {"system", "up"}, left: SUBSET SystemSlugs, slug: Slugs \union {Absent}, at: Nat]

(* Every variable keeps to its domain, and a directory that does not exist
   holds no file. *)
SkillTypeOK ==
  /\ staged \subseteq Bundles /\ shared \subseteq Slugs /\ brought \subseteq Slugs
  /\ decided \in [Bundles -> {"", "approve", "skip_binary", "deny"}]
  /\ commit \in [Bundles -> Commits] /\ remover \in [Removers -> Removals]
  /\ boot \in Boot /\ (boot.at > 0 => boot.slug \in Slugs)
  /\ ran \in [Bundles -> Nat] /\ \A r \in Bundles : ran[r] <= Proposed[r]
  /\ dir \in [Slugs -> Directory] /\ \A s \in Slugs : dir[s].made \/ dir[s] = NoDir
  /\ \A r \in Bundles : commit[r].pc \in {"unlock", "publish"} => commit[r].saw \in Snapshot
  /\ \A u \in Removers : /\ remover[u].pc = "remove" => remover[u].at \in Slugs
                         /\ remover[u].pc = "publish" => remover[u].saw \in Snapshot
  /\ lock \in Snapshot /\ registry \in Snapshot
  /\ faults \in 0 .. MaxFaults /\ deaths \in 0 .. MaxDeaths

(* A file of a request reaches a skill directory, and its version reaches the
   registry, only after someone approved that request, and with every command
   of the card having succeeded first unless the operator skipped them.  This
   is what the approval card promises (commit.go, the steps of Commit). *)
InstalledAsApproved ==
  \A r \in Bundles, s \in Slugs :
    (registry[s] = r \/ \E e \in Entries : dir[s].has[e] = r) =>
      \/ decided[r] = "skip_binary" /\ ran[r] = 0
      \/ decided[r] = "approve" /\ ran[r] = Proposed[r]

(* The inductive invariant behind it: only an approved request gets past its
   commands, and whatever is in a directory or in a scan of them, published or
   about to be, is of such a request. *)
Approved(r) ==
  \/ decided[r] = "skip_binary" /\ ran[r] = 0
  \/ decided[r] = "approve" /\ ran[r] = Proposed[r]

CommitInv(r) ==
  /\ commit[r].pc \in {"none", "staged"} => decided[r] = "" /\ ran[r] = 0 /\ commit[r].at = 0
  /\ commit[r].pc = "command" => decided[r] = "approve" /\ ran[r] = commit[r].at
  /\ commit[r].pc \notin {"none", "staged", "command", "done", "failed"} => Approved(r)

ApprovedInv ==
  \A r \in Bundles :
    /\ CommitInv(r)
    /\ \A s \in Slugs : registry[s] = r \/ (\E e \in Entries : dir[s].has[e] = r) => Approved(r)
    /\ \A q \in Bundles, s \in Slugs : commit[q].pc = "publish" /\ commit[q].saw[s] = r => Approved(r)
    /\ \A u \in Removers, s \in Slugs : remover[u].pc = "publish" /\ remover[u].saw[s] = r => Approved(r)

(* A directory that loads as a skill never mixes versions, and its metadata,
   from which the permissions of the skill are taken, is the one that was
   written when that version was approved, over whole files.  The exception is
   a bundle that brings a _meta.json: its own is in force, over files that may
   be missing or torn, while its installation has not got to the metadata - and
   for good if it failed or the daemon died before.  Through every failure and
   crash, as long as the same slug is not changed by two goroutines at once,
   which nothing in the code prevents (commit.go, Commit and copyDir). *)
LoadedIsOneVersion ==
  \A s \in Slugs \ shared : LoadOne(s) =>
    LET v == dir[s].has["_meta.json"]
    IN IF s \in brought
         THEN /\ v \in Carriers /\ commit[v].pc \in {"copy", "fingerprint", "meta", "failed"}
              /\ \A e \in Entries : dir[s].has[e] \in {v, Absent, Torn}
         ELSE \A e \in Entries : dir[s].has[e] \in {v, Absent}

(* The inductive invariant behind it: a directory that is not shared has one
   goroutine that changes it at most, none while the daemon starts, and holds
   files of one version only, those of the request that is being copied or of
   the daemon if the start is installing it; nothing is torn while either goes
   on, and no metadata is there yet but one that the bundle brought. *)
OneChanger(s) == \A a, b \in Changing(s) : a = b
Holds(s, v) == \A e \in Entries : dir[s].has[e] \in {v, Absent, Torn}
Whole(s) == \A e \in Entries : dir[s].has[e] # Torn
Described(s) == dir[s].has["_meta.json"] \notin {Absent, Torn}
Copying == {"copy", "fingerprint", "meta"}
Unfinished(s) ==
  \E r \in Carriers : /\ dir[s].has["_meta.json"] = r /\ SlugOf[r] = s
                      /\ commit[r].pc \in Copying \union {"failed"}

DirInv(s) ==
  /\ OneChanger(s)
  /\ \E v \in Versions : Holds(s, v)
  /\ \A r \in Bundles : SlugOf[r] = s /\ commit[r].pc \in Copying =>
       Holds(s, r) /\ Whole(s) /\ (Described(s) => s \in brought)
  /\ boot.pc = "system" /\ boot.at > 0 /\ boot.slug = s =>
       Holds(s, System) /\ Whole(s) /\ ~Described(s)
  /\ Described(s) => IF s \in brought THEN Unfinished(s) ELSE Whole(s)

VersionInv ==
  /\ boot.pc = "system" =>
       /\ \A r \in Bundles : commit[r].pc \in {"none", "staged", "done", "failed"}
       /\ \A u \in Removers : remover[u].pc \in {"none", "done"}
  /\ \A s \in Slugs \ shared : DirInv(s)
=============================================================================
