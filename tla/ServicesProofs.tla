--------------------------- MODULE ServicesProofs ----------------------------
(***************************************************************************)
(* Theorems about the parts that MCServices checks together: only approved  *)
(* skills are installed and none is loaded half (SkillInstall), what a      *)
(* gmail or gcal command reports is true (GoogleAccess), and each result is *)
(* pushed once (ResultStream) - for all requests, slugs, calls, tasks,      *)
(* results and connections, and any number of faults, crashes and retries.  *)
(***************************************************************************)
EXTENDS MCServices, FiniteSetTheorems, TLAPS

-----------------------------------------------------------------------------
(* What the steps do to a commit and to a directory *)

LEMMA SkillNames ==
  /\ Absent \notin Bundles /\ System \notin Bundles /\ System \in Versions /\ Bundles \subseteq Versions
  /\ DOMAIN Files = {1, 2} /\ Len(Files) = 2 /\ Absent # System
  /\ \A k \in {1, 2} : Files[k] \in Entries /\ Files[k] # "_meta.json"
  /\ \A r \in Bundles : SlugOf[r] \in Slugs /\ Proposed[r] \in Nat
  /\ SystemSlugs \subseteq Slugs /\ "_meta.json" \in Entries
  /\ Torn \notin Versions /\ Torn # Absent /\ Torn \notin Bundles
BY SkillInstallAssumption DEF Files, Entries, Versions, Absent, System, Torn

(* What a bundle holds. *)
LEMMA FilesKnown ==
  ASSUME NEW r \in Bundles, NEW k \in DOMAIN FilesOf(r)
  PROVE  k \in Nat /\ FilesOf(r)[k] \in Entries /\ (FilesOf(r)[k] = "_meta.json" => r \in Carriers)
BY DEF FilesOf, Files, Entries

MovesTo(r, pc, at, saw) ==
  /\ commit' \in [Bundles -> Commits]
  /\ commit'[r].pc = pc /\ commit'[r].at = at /\ commit'[r].saw = saw
  /\ \A q \in Bundles : q # r => commit'[q] = commit[q]

LEMMA CommitMoves ==
  ASSUME SkillTypeOK, NEW r \in Bundles,
         NEW pc \in CommitPcs, NEW at \in Nat, NEW saw \in Snapshot \union {<<>>},
         \/ /\ commit' = [commit EXCEPT ![r].pc = pc]
            /\ at = commit[r].at /\ saw = commit[r].saw
         \/ /\ commit' = [commit EXCEPT ![r].at = at]
            /\ pc = commit[r].pc /\ saw = commit[r].saw
         \/ /\ commit' = [commit EXCEPT ![r].pc = pc, ![r].at = at]
            /\ saw = commit[r].saw
         \/ /\ commit' = [commit EXCEPT ![r].pc = pc, ![r].saw = saw]
            /\ at = commit[r].at
  PROVE  MovesTo(r, pc, at, saw)
<1> DEFINE new == [pc |-> pc, at |-> at, saw |-> saw]
<1>1. commit \in [Bundles -> Commits] /\ commit[r] \in Commits
  BY DEF SkillTypeOK
<1>2. commit[r] = [pc |-> commit[r].pc, at |-> commit[r].at, saw |-> commit[r].saw]
  BY <1>1 DEF Commits
<1>3. new \in Commits /\ new.pc = pc /\ new.at = at /\ new.saw = saw
  BY DEF Commits
<1>4. commit' = [commit EXCEPT ![r] = new]
  BY <1>1, <1>2
<1> HIDE DEF new
<1> QED
  BY <1>1, <1>3, <1>4 DEF MovesTo

LEMMA GotoMoves ==
  ASSUME SkillTypeOK, NEW r \in Bundles, NEW pc \in CommitPcs, Goto(r, pc)
  PROVE  MovesTo(r, pc, commit[r].at, commit[r].saw)
<1>1. commit[r].at \in Nat /\ commit[r].saw \in Snapshot \union {<<>>}
  BY DEF SkillTypeOK, Commits
<1> QED
  BY <1>1, CommitMoves DEF Goto

(* One directory changes, and stays one. *)
Directories == dir' \in [Slugs -> Directory] /\ \A s \in Slugs : dir'[s].made \/ dir'[s] = NoDir

LEMMA DirectoryMoves ==
  ASSUME SkillTypeOK, NEW s \in Slugs, NEW made \in BOOLEAN, NEW has \in [Entries -> Versions \union {Absent, Torn}],
         dir' = [dir EXCEPT ![s] = [made |-> made, has |-> has]],
         made \/ has = [e \in Entries |-> Absent]
  PROVE  /\ Directories /\ dir'[s].made = made /\ dir'[s].has = has
         /\ \A t \in Slugs : t # s => dir'[t] = dir[t]
<1> DEFINE new == [made |-> made, has |-> has]
<1>1. new \in Directory /\ (new.made \/ new = NoDir) /\ new.made = made /\ new.has = has
  BY DEF Directory, NoDir
<1> HIDE DEF new
<1>2. dir' = [dir EXCEPT ![s] = new] /\ dir \in [Slugs -> Directory]
  BY DEF SkillTypeOK, new
<1> QED
  BY <1>1, <1>2 DEF SkillTypeOK, Directories

LEMMA DirectoryTyped ==
  ASSUME SkillTypeOK, NEW s \in Slugs
  PROVE  /\ dir[s] = [made |-> dir[s].made, has |-> dir[s].has]
         /\ dir[s].made \in BOOLEAN /\ dir[s].has \in [Entries -> Versions \union {Absent, Torn}]
BY DEF SkillTypeOK, Directory

LEMMA DirectoryUpdates ==
  ASSUME NEW d \in Directory, NEW t \in BOOLEAN, NEW has
  PROVE  /\ [d EXCEPT !.made = t] = [made |-> t, has |-> d.has]
         /\ [d EXCEPT !.has = has] = [made |-> d.made, has |-> has]
         /\ [d EXCEPT !.made = t, !.has = has] = [made |-> t, has |-> has]
<1>1. PICK a, b : d = [made |-> a, has |-> b]
  BY DEF Directory
<1>2. [d EXCEPT !.made = t] = [made |-> t, has |-> d.has]
  BY <1>1
<1>3. [d EXCEPT !.has = has] = [made |-> d.made, has |-> has]
  BY <1>1
<1> DEFINE new == [d EXCEPT !.made = t, !.has = has]
<1>a. new \in [made: {t}, has: {has}]
  BY <1>1
<1>4. new = [made |-> t, has |-> has]
  <2> HIDE DEF new
  <2> QED
    BY <1>a
<1> QED
  BY <1>2, <1>3, <1>4

LEMMA PutMoves ==
  ASSUME SkillTypeOK, NEW s \in Slugs, NEW e \in Entries, NEW v \in Versions \union {Torn}, Put(s, e, v)
  PROVE  /\ Directories /\ dir'[s].made
         /\ \A f \in Entries : dir'[s].has[f] = IF f = e THEN v ELSE dir[s].has[f]
         /\ \A t \in Slugs : t # s => dir'[t] = dir[t]
<1> DEFINE has == [dir[s].has EXCEPT ![e] = v]
<1>1. has \in [Entries -> Versions \union {Absent, Torn}] /\ \A f \in Entries : has[f] = IF f = e THEN v ELSE dir[s].has[f]
  BY DirectoryTyped
<1> DEFINE new == [dir[s] EXCEPT !.made = TRUE, !.has[e] = v]
<1>a. new = [made |-> TRUE, has |-> has]
  <2>1. dir[s] \in Directory /\ "_meta.json" \in Entries
    BY SkillNames DEF SkillTypeOK
  <2> QED
    BY <2>1, DirectoryUpdates, ZenonT(40)
<1>b. dir' = [dir EXCEPT ![s] = new]
  BY DEF Put, SkillTypeOK
<1>2. dir' = [dir EXCEPT ![s] = [made |-> TRUE, has |-> has]]
  BY <1>a, <1>b, Zenon
<1> HIDE DEF has
<1> QED
  BY <1>1, <1>2, DirectoryMoves, ZenonT(40)

LEMMA RemoveMoves ==
  ASSUME SkillTypeOK, NEW s \in Slugs, RemoveOne(s)
  PROVE  /\ Directories
         /\ \A f \in Entries : dir'[s].has[f] \in {dir[s].has[f], Absent}
         /\ \A t \in Slugs : t # s => dir'[t] = dir[t]
<1>1. PICK e \in Entries : dir[s].has[e] # Absent /\ dir' = [dir EXCEPT ![s].has[e] = Absent]
  BY DEF RemoveOne
<1>2. dir[s].made
  <2>1. dir[s] # NoDir
    BY <1>1 DEF NoDir
  <2> QED
    BY <2>1 DEF SkillTypeOK
<1> DEFINE has == [dir[s].has EXCEPT ![e] = Absent]
<1>3. has \in [Entries -> Versions \union {Absent, Torn}] /\ \A f \in Entries : has[f] \in {dir[s].has[f], Absent}
  BY DirectoryTyped
<1> DEFINE new == [dir[s] EXCEPT !.has[e] = Absent]
<1>a. new = [made |-> dir[s].made, has |-> has]
  <2>1. dir[s] \in Directory /\ "_meta.json" \in Entries
    BY SkillNames DEF SkillTypeOK
  <2> QED
    BY <2>1, DirectoryUpdates
<1>b. dir' = [dir EXCEPT ![s] = new]
  BY <1>1 DEF SkillTypeOK
<1>4. dir' = [dir EXCEPT ![s] = [made |-> dir[s].made, has |-> has]]
  BY <1>a, <1>b, Zenon
<1> HIDE DEF has
<1>5. dir[s].made \in BOOLEAN
  BY DirectoryTyped
<1>6. Directories /\ dir'[s].has = has /\ \A t \in Slugs : t # s => dir'[t] = dir[t]
  BY <1>2, <1>3, <1>4, <1>5, DirectoryMoves
<1> QED
  BY <1>3, <1>6

LEMMA ClearMoves ==
  ASSUME SkillTypeOK, NEW s \in Slugs, dir' = [dir EXCEPT ![s] = NoDir]
  PROVE  /\ Directories /\ \A f \in Entries : dir'[s].has[f] = Absent
         /\ \A t \in Slugs : t # s => dir'[t] = dir[t]
<1> DEFINE has == [e \in Entries |-> Absent]
<1>1. has \in [Entries -> Versions \union {Absent, Torn}] /\ \A f \in Entries : has[f] = Absent
  OBVIOUS
<1>2. dir' = [dir EXCEPT ![s] = [made |-> FALSE, has |-> has]]
  BY DEF NoDir
<1> QED
  BY <1>1, <1>2, DirectoryMoves

LEMMA MakeMoves ==
  ASSUME SkillTypeOK, NEW s \in Slugs, dir' = [dir EXCEPT ![s].made = TRUE]
  PROVE  /\ Directories /\ dir'[s].made /\ dir'[s].has = dir[s].has
         /\ \A t \in Slugs : t # s => dir'[t] = dir[t]
<1> DEFINE new == [dir[s] EXCEPT !.made = TRUE]
<1>a. new = [made |-> TRUE, has |-> dir[s].has]
  <2>1. dir[s] \in Directory /\ "_meta.json" \in Entries
    BY SkillNames DEF SkillTypeOK
  <2> QED
    BY <2>1, DirectoryUpdates
<1>b. dir' = [dir EXCEPT ![s] = new]
  BY DEF SkillTypeOK
<1>1. dir' = [dir EXCEPT ![s] = [made |-> TRUE, has |-> dir[s].has]]
  BY <1>a, <1>b, Zenon
<1> QED
  BY <1>1, DirectoryTyped, DirectoryMoves

(* What a scan of the directories shows is in their metadata. *)
LEMMA LoadAllTyped ==
  ASSUME SkillTypeOK
  PROVE  /\ LoadAll \in Snapshot
         /\ \A s \in Slugs, r \in Bundles : LoadAll[s] = r => dir[s].has["_meta.json"] = r
<1>1. \A s \in Slugs : dir[s].has["_meta.json"] \in Versions \union {Absent, Torn}
  BY SkillNames, DirectoryTyped
<1>2. \A s \in Slugs : (IF LoadOne(s) THEN dir[s].has["_meta.json"] ELSE Absent) \in Versions \union {Absent}
  BY <1>1 DEF LoadOne
<1>3. LoadAll \in Snapshot
  BY <1>2 DEF LoadAll, Snapshot
<1>4. ASSUME NEW s \in Slugs, NEW r \in Bundles, LoadAll[s] = r PROVE dir[s].has["_meta.json"] = r
  BY <1>4, SkillNames DEF LoadAll
<1> QED
  BY <1>3, <1>4

CommitsOK ==
  /\ commit \in [Bundles -> Commits]
  /\ \A r \in Bundles : commit[r].pc \in {"unlock", "publish"} => commit[r].saw \in Snapshot

LEMMA MovesTyped ==
  ASSUME SkillTypeOK, NEW r \in Bundles, NEW pc, NEW at, NEW saw, MovesTo(r, pc, at, saw),
         pc \in {"unlock", "publish"} => saw \in Snapshot
  PROVE  CommitsOK'
BY DEF SkillTypeOK, MovesTo, CommitsOK

LEMMA GotoTyped ==
  ASSUME SkillTypeOK, NEW r \in Bundles, NEW pc \in CommitPcs \ {"unlock", "publish"}, Goto(r, pc)
  PROVE  CommitsOK'
BY GotoMoves, MovesTyped

(* A step that keeps to the domains of what a commit changes. *)
LEMMA SkillTypeKept ==
  ASSUME SkillTypeOK, CommitsOK', brought' = brought \/ brought' \subseteq Slugs,
         dir' = dir \/ Directories,
         decided' = decided \/ decided' \in [Bundles -> {"", "approve", "skip_binary", "deny"}],
         staged' \subseteq Bundles, shared' \subseteq Slugs,
         ran' \in [Bundles -> Nat], \A r \in Bundles : ran'[r] <= Proposed[r],
         lock' \in Snapshot, registry' \in Snapshot, faults' \in 0 .. MaxFaults,
         UNCHANGED <<remover, boot, deaths>>
  PROVE  SkillTypeOK'
BY DEF SkillTypeOK, CommitsOK, Directories

LEMMA FailTyped ==
  ASSUME SkillTypeOK, Fail \/ UNCHANGED faults PROVE faults' \in 0 .. MaxFaults
<1>1. faults \in 0 .. MaxFaults /\ MaxFaults \in Nat
  BY SkillInstallAssumption DEF SkillTypeOK
<1>2. CASE Fail
  BY <1>1, <1>2 DEF Fail
<1>3. CASE UNCHANGED faults
  BY <1>1, <1>3
<1> QED
  BY <1>2, <1>3

(* Copying one file of a bundle. *)
LEMMA CopyMoves ==
  ASSUME SkillTypeOK, NEW r \in Bundles, NEW k \in DOMAIN FilesOf(r), NEW v \in {r, Torn},
         Copy(SlugOf[r], FilesOf(r)[k], v)
  PROVE  /\ Directories /\ \A t \in Slugs : t # SlugOf[r] => dir'[t] = dir[t]
         /\ \A e \in Entries : dir'[SlugOf[r]].has[e] \in {dir[SlugOf[r]].has[e], v}
         /\ brought \subseteq brought' /\ brought' \subseteq brought \union {SlugOf[r]}
         /\ dir'[SlugOf[r]].has["_meta.json"] # dir[SlugOf[r]].has["_meta.json"]
              => SlugOf[r] \in brought' /\ r \in Carriers
<1>1. SlugOf[r] \in Slugs /\ v \in Versions \union {Torn}
  BY SkillNames
<1>2. PICK e \in Entries : e = FilesOf(r)[k]
  BY FilesKnown
<1>3. Put(SlugOf[r], e, v) /\ brought' = IF e = "_meta.json" THEN brought \union {SlugOf[r]} ELSE brought
  BY <1>2 DEF Copy
<1>4. e = "_meta.json" => r \in Carriers
  BY <1>2, FilesKnown
<1>5. /\ Directories /\ \A t \in Slugs : t # SlugOf[r] => dir'[t] = dir[t]
      /\ \A f \in Entries : dir'[SlugOf[r]].has[f] = IF f = e THEN v ELSE dir[SlugOf[r]].has[f]
  BY <1>1, <1>3, PutMoves
<1> QED
  BY <1>3, <1>4, <1>5, SkillNames

LEMMA CopyOutcome ==
  ASSUME SkillTypeOK, NEW r \in Bundles, CopyOne(r)
  PROVE  /\ \E pc \in {"copy", "fingerprint", "failed"}, at \in Nat : MovesTo(r, pc, at, commit[r].saw)
         /\ (dir' = dir \/ Directories) /\ \A t \in Slugs : t # SlugOf[r] => dir'[t] = dir[t]
         /\ \A e \in Entries : dir'[SlugOf[r]].has[e] \in {dir[SlugOf[r]].has[e], r, Torn}
         /\ commit'[r].pc # "failed" =>
              \A e \in Entries : dir'[SlugOf[r]].has[e] \in {dir[SlugOf[r]].has[e], r}
         /\ brought \subseteq brought' /\ brought' \subseteq brought \union {SlugOf[r]} /\ brought' \subseteq Slugs
         /\ dir'[SlugOf[r]].has["_meta.json"] # dir[SlugOf[r]].has["_meta.json"]
              => SlugOf[r] \in brought' /\ r \in Carriers
         /\ Fail \/ UNCHANGED faults
<1>t. /\ commit[r].pc = "copy" /\ commit[r].at \in Nat /\ commit[r].saw \in Snapshot \union {<<>>}
      /\ SlugOf[r] \in Slugs /\ brought \subseteq Slugs
  BY SkillNames DEF CopyOne, SkillTypeOK, Commits
<1>p. "copy" \in CommitPcs /\ "fingerprint" \in CommitPcs /\ "failed" \in CommitPcs
  BY DEF CommitPcs
<1>1. CASE dir' = [dir EXCEPT ![SlugOf[r]].made = TRUE] /\ commit' = [commit EXCEPT ![r].at = 1] /\ UNCHANGED <<brought, faults>>
  <2>1. MovesTo(r, "copy", 1, commit[r].saw)
    BY <1>t, <1>p, <1>1, CommitMoves
  <2>2. /\ Directories /\ dir'[SlugOf[r]].has = dir[SlugOf[r]].has
        /\ \A t \in Slugs : t # SlugOf[r] => dir'[t] = dir[t]
    BY <1>t, <1>1, MakeMoves
  <2> QED
    BY <1>t, <1>1, <2>1, <2>2
<1>2. CASE /\ commit[r].at \in DOMAIN FilesOf(r) /\ Copy(SlugOf[r], FilesOf(r)[commit[r].at], r)
           /\ commit' = [commit EXCEPT ![r].at = commit[r].at + 1] /\ UNCHANGED faults
  <2>1. commit[r].at + 1 \in Nat
    <3>1. commit[r].at \in Nat
      BY <1>t
    <3> QED
      BY <3>1
  <2>2. MovesTo(r, "copy", commit[r].at + 1, commit[r].saw)
    BY <1>t, <1>p, <1>2, <2>1, CommitMoves
  <2> QED
    BY <1>t, <1>2, <2>1, <2>2, CopyMoves
<1>3. CASE \E pc \in {"fingerprint", "failed"} : Goto(r, pc) /\ UNCHANGED <<dir, brought>> /\ (Fail \/ UNCHANGED faults)
  <2>1. PICK pc \in {"fingerprint", "failed"} : Goto(r, pc) /\ UNCHANGED <<dir, brought>> /\ (Fail \/ UNCHANGED faults)
    BY <1>3
  <2>2. MovesTo(r, pc, commit[r].at, commit[r].saw)
    BY <1>p, <2>1, GotoMoves
  <2> QED
    BY <1>t, <2>1, <2>2
<1>4. CASE /\ Fail /\ Goto(r, "failed") /\ commit[r].at \in DOMAIN FilesOf(r)
           /\ \E v \in {r, Torn} : Copy(SlugOf[r], FilesOf(r)[commit[r].at], v)
  <2>1. PICK v \in {r, Torn} : Copy(SlugOf[r], FilesOf(r)[commit[r].at], v)
    BY <1>4
  <2>2. MovesTo(r, "failed", commit[r].at, commit[r].saw)
    BY <1>p, <1>4, GotoMoves
  <2>3. commit'[r].pc = "failed"
    BY <2>2 DEF MovesTo
  <2> QED
    BY <1>t, <1>4, <2>1, <2>2, <2>3, CopyMoves
<1> QED
  BY <1>1, <1>2, <1>3, <1>4 DEF CopyOne

(* Writing the metadata: nothing, or the file is whole and the bundle's own gone. *)
LEMMA MetaOutcome ==
  ASSUME SkillTypeOK, NEW r \in Bundles, WriteMeta(r)
  PROVE  /\ \E pc \in {"lock", "failed"} : MovesTo(r, pc, commit[r].at, commit[r].saw)
         /\ \/ UNCHANGED <<dir, brought>> /\ commit'[r].pc = "failed"
            \/ /\ Directories /\ \A t \in Slugs : t # SlugOf[r] => dir'[t] = dir[t]
               /\ \A e \in Entries : dir'[SlugOf[r]].has[e] = IF e = "_meta.json" THEN r ELSE dir[SlugOf[r]].has[e]
               /\ brought' = brought \ {SlugOf[r]}
         /\ brought' \subseteq Slugs /\ (Fail \/ UNCHANGED faults)
<1>t. SlugOf[r] \in Slugs /\ brought \subseteq Slugs /\ r \in Versions /\ "_meta.json" \in Entries
  BY SkillNames DEF SkillTypeOK
<1>1. PICK pc \in {"lock", "failed"} :
        /\ Goto(r, pc) /\ (Fail \/ UNCHANGED faults)
        /\ Describe(SlugOf[r], r) \/ (UNCHANGED <<dir, brought>> /\ pc = "failed")
  BY DEF WriteMeta
<1>2. MovesTo(r, pc, commit[r].at, commit[r].saw)
  BY <1>1, GotoMoves DEF CommitPcs
<1>3. CASE Describe(SlugOf[r], r)
  <2>1. Put(SlugOf[r], "_meta.json", r) /\ brought' = brought \ {SlugOf[r]}
    BY <1>3 DEF Describe
  <2>2. /\ Directories /\ \A t \in Slugs : t # SlugOf[r] => dir'[t] = dir[t]
        /\ \A e \in Entries : dir'[SlugOf[r]].has[e] = IF e = "_meta.json" THEN r ELSE dir[SlugOf[r]].has[e]
    BY <1>t, <2>1, PutMoves
  <2> QED
    BY <1>t, <1>1, <1>2, <2>1, <2>2
<1>4. CASE UNCHANGED <<dir, brought>> /\ pc = "failed"
  BY <1>t, <1>1, <1>2, <1>4 DEF MovesTo
<1> QED
  BY <1>1, <1>3, <1>4

LEMMA CommitTypeStep ==
  ASSUME SkillTypeOK, NEW r \in Bundles, CommitInv(r), CommitStep(r)
  PROVE  SkillTypeOK'
<1> USE SkillNames
<1>t. /\ commit[r].pc \in CommitPcs /\ commit[r].at \in Nat /\ commit[r].saw \in Snapshot \union {<<>>}
      /\ commit[r].pc \in {"unlock", "publish"} => commit[r].saw \in Snapshot
      /\ ran \in [Bundles -> Nat] /\ lock \in Snapshot /\ registry \in Snapshot
      /\ staged \subseteq Bundles /\ shared \subseteq Slugs
      /\ \A q \in Bundles : ran[q] <= Proposed[q]
  BY DEF SkillTypeOK, Commits
<1>s. Sharing(SlugOf[r]) => shared' \subseteq Slugs
  BY <1>t DEF Sharing
<1>1. CASE StageBundle(r)
  <2>1. CommitsOK'
    BY <1>1, GotoTyped DEF StageBundle, CommitPcs
  <2> QED
    BY <1>1, <1>t, <2>1, FailTyped, SkillTypeKept DEF StageBundle
<1>2. ASSUME NEW d \in {"approve", "skip_binary", "deny"}, DecideRequest(r, d) PROVE SkillTypeOK'
  <2>1. PICK pc \in {"command", "clear", "done"} : Goto(r, pc)
    BY <1>2 DEF DecideRequest
  <2>2. CommitsOK'
    BY <2>1, GotoTyped DEF CommitPcs
  <2>3. decided' \in [Bundles -> {"", "approve", "skip_binary", "deny"}]
    BY <1>2 DEF DecideRequest, SkillTypeOK
  <2> QED
    BY <1>2, <1>t, <2>2, <2>3, FailTyped, SkillTypeKept DEF DecideRequest
<1>3. CASE RunCommand(r)
  <2>1. CASE Goto(r, "clear") /\ UNCHANGED <<ran, faults>>
    <3>1. CommitsOK'
      BY <2>1, GotoTyped DEF CommitPcs
    <3> QED
      BY <1>3, <1>t, <2>1, <3>1, FailTyped, SkillTypeKept DEF RunCommand
  <2>2. CASE /\ commit[r].at # Proposed[r] /\ commit' = [commit EXCEPT ![r].at = @ + 1]
             /\ ran' = [ran EXCEPT ![r] = @ + 1] /\ UNCHANGED faults
    <3>a. commit[r].at \in Nat
      BY <1>t
    <3>1. commit' = [commit EXCEPT ![r].at = commit[r].at + 1] /\ commit[r].at + 1 \in Nat
      BY <2>2, <3>a
    <3>2. MovesTo(r, commit[r].pc, commit[r].at + 1, commit[r].saw)
      BY <1>t, <3>1, CommitMoves
    <3>3. CommitsOK'
      BY <1>t, <3>2, MovesTyped
    <3>4. ran' \in [Bundles -> Nat] /\ \A q \in Bundles : ran'[q] <= Proposed[q]
      <4>1. ran[r] + 1 <= Proposed[r] /\ ran[r] \in Nat
        BY <1>t, <1>3, <2>2 DEF RunCommand, CommitInv
      <4>2. \A q \in Bundles : ran'[q] = IF q = r THEN ran[r] + 1 ELSE ran[q]
        BY <1>t, <2>2
      <4>3. ran' \in [Bundles -> Nat]
        BY <1>t, <2>2
      <4> QED
        BY <1>t, <4>1, <4>2, <4>3
    <3> QED
      BY <1>3, <1>t, <2>2, <3>3, <3>4, FailTyped, SkillTypeKept DEF RunCommand
  <2>3. CASE Fail /\ Goto(r, "failed") /\ UNCHANGED ran
    <3>1. CommitsOK'
      BY <2>3, GotoTyped DEF CommitPcs
    <3> QED
      BY <1>3, <1>t, <2>3, <3>1, FailTyped, SkillTypeKept DEF RunCommand
  <2> QED
    BY <1>3, <2>1, <2>2, <2>3 DEF RunCommand
<1>4. CASE ClearTarget(r)
  <2>1. CommitsOK'
    BY <1>4, GotoTyped DEF ClearTarget, CommitPcs
  <2> QED
    BY <1>4, <1>t, <1>s, <2>1, FailTyped, SkillTypeKept DEF ClearTarget
<1>5. CASE RemoveTarget(r)
  <2>u. UNCHANGED <<staged, decided, ran, brought, shared, lock, registry, remover, boot, deaths>>
    BY <1>5 DEF RemoveTarget
  <2>1. CASE RemoveOne(SlugOf[r]) /\ UNCHANGED <<commit, faults>>
    <3>1. CommitsOK' /\ Directories
      BY <2>1, RemoveMoves DEF SkillTypeOK, CommitsOK
    <3> QED
      BY <1>t, <2>u, <2>1, <3>1, FailTyped, SkillTypeKept
  <2>2. CASE /\ dir' = [dir EXCEPT ![SlugOf[r]] = NoDir]
             /\ commit' = [commit EXCEPT ![r].pc = "copy", ![r].at = 0] /\ UNCHANGED faults
    <3>1. "copy" \in CommitPcs /\ 0 \in Nat
      BY DEF CommitPcs
    <3>2. MovesTo(r, "copy", 0, commit[r].saw)
      BY <1>t, <2>2, <3>1, CommitMoves
    <3>3. CommitsOK' /\ Directories
      BY <2>2, <3>2, MovesTyped, ClearMoves
    <3> QED
      BY <1>t, <2>u, <2>2, <3>3, FailTyped, SkillTypeKept
  <2>3. CASE Fail /\ Goto(r, "failed") /\ UNCHANGED dir
    <3>1. CommitsOK'
      BY <2>3, GotoTyped DEF CommitPcs
    <3> QED
      BY <1>t, <2>u, <2>3, <3>1, FailTyped, SkillTypeKept
  <2> QED
    BY <1>5, <2>1, <2>2, <2>3 DEF RemoveTarget
<1>6. CASE CopyOne(r)
  <2>1. UNCHANGED <<staged, decided, ran, shared, lock, registry, remover, boot, deaths>>
    BY <1>6 DEF CopyOne
  <2>2. PICK pc \in {"copy", "fingerprint", "failed"}, at \in Nat : MovesTo(r, pc, at, commit[r].saw)
    BY <1>6, CopyOutcome
  <2>3. CommitsOK'
    BY <2>2, MovesTyped
  <2>4. (dir' = dir \/ Directories) /\ brought' \subseteq Slugs /\ (Fail \/ UNCHANGED faults)
    BY <1>6, CopyOutcome
  <2> QED
    BY <1>t, <2>1, <2>3, <2>4, FailTyped, SkillTypeKept
<1>7. CASE FingerprintDir(r)
  <2>1. PICK pc \in {"meta", "failed"} : Goto(r, pc) /\ (Fail \/ UNCHANGED faults)
    BY <1>7 DEF FingerprintDir
  <2>2. CommitsOK'
    BY <2>1, GotoTyped DEF CommitPcs
  <2> QED
    BY <1>7, <1>t, <2>1, <2>2, FailTyped, SkillTypeKept DEF FingerprintDir
<1>8. CASE WriteMeta(r)
  <2>1. UNCHANGED <<staged, decided, ran, shared, lock, registry, remover, boot, deaths>>
    BY <1>8 DEF WriteMeta
  <2>2. PICK pc \in {"lock", "failed"} : MovesTo(r, pc, commit[r].at, commit[r].saw)
    BY <1>8, MetaOutcome
  <2>3. CommitsOK'
    BY <2>2, MovesTyped
  <2>4. (dir' = dir \/ Directories) /\ brought' \subseteq Slugs /\ (Fail \/ UNCHANGED faults)
    BY <1>8, MetaOutcome
  <2> QED
    BY <1>t, <2>1, <2>3, <2>4, FailTyped, SkillTypeKept
<1>9. CASE ReadLock(r)
  <2>1. MovesTo(r, "unlock", commit[r].at, lock)
    BY <1>9, <1>t, CommitMoves DEF ReadLock, CommitPcs
  <2>2. CommitsOK'
    BY <1>t, <2>1, MovesTyped
  <2> QED
    BY <1>9, <1>t, <2>2, FailTyped, SkillTypeKept DEF ReadLock
<1>10. CASE WriteLock(r)
  <2>1. PICK pc \in {"cleanup", "failed"} :
          /\ commit' = [commit EXCEPT ![r].pc = pc, ![r].saw = <<>>] /\ (Fail \/ UNCHANGED faults)
          /\ lock' \in {lock, [commit[r].saw EXCEPT ![SlugOf[r]] = r]}
    BY <1>10 DEF WriteLock
  <2>2. MovesTo(r, pc, commit[r].at, <<>>)
    <3>1. <<>> \in Snapshot \union {<<>>} /\ pc \in CommitPcs
      BY DEF CommitPcs
    <3> QED
      BY <1>t, <2>1, <3>1, CommitMoves
  <2>3. CommitsOK'
    BY <2>2, MovesTyped
  <2>4. lock' \in Snapshot
    BY <1>10, <1>t, <2>1 DEF WriteLock, Snapshot
  <2> QED
    BY <1>10, <1>t, <2>1, <2>3, <2>4, FailTyped, SkillTypeKept DEF WriteLock
<1>11. CASE DropStaging(r)
  <2>1. CommitsOK'
    BY <1>11, GotoTyped DEF DropStaging, CommitPcs
  <2> QED
    BY <1>11, <1>t, <2>1, FailTyped, SkillTypeKept DEF DropStaging
<1>12. CASE ScanAfterCommit(r)
  <2>1. MovesTo(r, "publish", commit[r].at, LoadAll)
    BY <1>12, <1>t, CommitMoves, LoadAllTyped DEF ScanAfterCommit, CommitPcs
  <2>2. CommitsOK'
    BY <2>1, MovesTyped, LoadAllTyped
  <2> QED
    BY <1>12, <1>t, <2>2, FailTyped, SkillTypeKept DEF ScanAfterCommit
<1>13. CASE PublishAfterCommit(r)
  <2>1. MovesTo(r, "done", commit[r].at, <<>>)
    <3>1. <<>> \in Snapshot \union {<<>>} /\ "done" \in CommitPcs
      BY DEF CommitPcs
    <3> QED
      BY <1>13, <1>t, <3>1, CommitMoves DEF PublishAfterCommit
  <2>2. CommitsOK'
    BY <2>1, MovesTyped
  <2> QED
    BY <1>13, <1>t, <2>2, FailTyped, SkillTypeKept DEF PublishAfterCommit
<1> QED
  BY <1>1, <1>2, <1>3, <1>4, <1>5, <1>6, <1>7, <1>8, <1>9, <1>10, <1>11, <1>12, <1>13 DEF CommitStep

(* The steps that are no commit's. *)
LEMMA OtherTypesKept ==
  ASSUME SkillTypeOK, CommitsOK', dir' = dir \/ Directories, brought' = brought \/ brought' \subseteq Slugs,
         shared' \subseteq Slugs, registry' \in Snapshot, faults' \in 0 .. MaxFaults, deaths' \in 0 .. MaxDeaths,
         remover' \in [Removers -> Removals],
         \A u \in Removers : /\ remover'[u].pc = "remove" => remover'[u].at \in Slugs
                             /\ remover'[u].pc = "publish" => remover'[u].saw \in Snapshot,
         boot' \in Boot, boot'.at > 0 => boot'.slug \in Slugs,
         UNCHANGED <<staged, decided, ran, lock>>
  PROVE  SkillTypeOK'
BY DEF SkillTypeOK, CommitsOK, Directories

(* What a step makes of an uninstallation. *)
RemovesTo(u, pc, at, saw) ==
  /\ remover' \in [Removers -> Removals]
  /\ remover'[u].pc = pc /\ remover'[u].at = at /\ remover'[u].saw = saw
  /\ \A v \in Removers : v # u => remover'[v] = remover[v]

LEMMA RemoverMoves ==
  ASSUME SkillTypeOK, NEW u \in Removers,
         NEW pc \in {"none", "remove", "refresh", "publish", "done"},
         NEW at \in Slugs \union {Absent}, NEW saw \in Snapshot \union {<<>>},
         \/ remover' = [remover EXCEPT ![u] = [NoRemoval EXCEPT !.pc = pc, !.at = at]] /\ saw = <<>>
         \/ /\ remover' = [remover EXCEPT ![u].pc = pc]
            /\ at = remover[u].at /\ saw = remover[u].saw
         \/ /\ remover' = [remover EXCEPT ![u].pc = pc, ![u].saw = saw]
            /\ at = remover[u].at
  PROVE  RemovesTo(u, pc, at, saw)
<1> DEFINE new == [pc |-> pc, at |-> at, saw |-> saw]
<1>1. remover \in [Removers -> Removals] /\ remover[u] \in Removals
  BY DEF SkillTypeOK
<1>2. remover[u] = [pc |-> remover[u].pc, at |-> remover[u].at, saw |-> remover[u].saw]
  BY <1>1 DEF Removals
<1>3. new \in Removals /\ new.pc = pc /\ new.at = at /\ new.saw = saw
  BY DEF Removals
<1>4. remover' = [remover EXCEPT ![u] = new]
  BY <1>1, <1>2 DEF NoRemoval
<1> HIDE DEF new
<1> QED
  BY <1>1, <1>3, <1>4 DEF RemovesTo

(* What a step of the start makes of it. *)
LEMMA InstallMoves ==
  ASSUME SkillTypeOK, NEW s \in Slugs, InstallOneSystemSkill(s)
  PROVE  /\ boot' \in Boot /\ boot.pc = "system" /\ boot'.pc = "system"
         /\ boot'.at > 0 => boot'.slug = s
         /\ dir' = dir \/ Directories
         /\ \A t \in Slugs : t # s => dir'[t] = dir[t]
         /\ Fail \/ UNCHANGED faults
         /\ \/ /\ boot.at = 0 /\ dir'[s].has = dir[s].has /\ (boot'.at > 0 => ~dir[s].made)
               /\ brought' = brought
            \/ /\ boot.at > 0 /\ boot.slug = s /\ brought' = brought \ {s}
               /\ \/ /\ \A e \in Entries : dir'[s].has[e] \in {System, dir[s].has[e]}
                     /\ dir'[s].has["_meta.json"] = dir[s].has["_meta.json"] \/ boot'.at = 0
                  \/ /\ \A e \in Entries : dir'[s].has[e] \in {Torn, dir[s].has[e]}
                     /\ dir'[s].has["_meta.json"] = dir[s].has["_meta.json"] /\ boot'.at = 0
<1> USE SkillNames
<1> DEFINE next == [boot EXCEPT !.at = 0, !.left = boot.left \ {s}]
           ended == [boot EXCEPT !.at = 0, !.left = {}]
           stopped == [boot EXCEPT !.left = {}]
<1>1. /\ boot.pc = "system" /\ boot \in Boot
      /\ boot.at \in Nat /\ boot.left \subseteq SystemSlugs /\ boot.slug \in Slugs \union {Absent}
  BY DEF InstallOneSystemSkill, SkillTypeOK, Boot
<1>2. ASSUME NEW left \in SUBSET SystemSlugs
      PROVE  [boot EXCEPT !.at = 0, !.left = left] \in Boot
             /\ [boot EXCEPT !.at = 0, !.left = left].pc = "system"
             /\ [boot EXCEPT !.at = 0, !.left = left].at = 0
             /\ [boot EXCEPT !.left = left] \in Boot
             /\ [boot EXCEPT !.left = left].pc = "system"
             /\ [boot EXCEPT !.left = left].at = boot.at
  BY <1>1 DEF Boot
<1>n. next \in Boot /\ next.pc = "system" /\ next.at = 0
  <2>1. boot.left \ {s} \in SUBSET SystemSlugs
    BY <1>1
  <2> DEFINE left == boot.left \ {s}
  <2> HIDE DEF left
  <2> QED
    BY <1>2, <2>1 DEF left
<1>e. /\ ended \in Boot /\ ended.pc = "system" /\ ended.at = 0
      /\ stopped \in Boot /\ stopped.pc = "system" /\ stopped.at = boot.at
  BY <1>2
<1>b. boot.at = 0 \/ boot.at > 0
  BY <1>1
<1> HIDE DEF next, ended, stopped
<1>3. CASE boot.at = 0 /\ s \in boot.left
  <2>u. brought' = brought
    BY <1>3 DEF InstallOneSystemSkill
  <2>1. CASE /\ boot' = IF dir[s].made THEN next ELSE [next EXCEPT !.at = 1, !.slug = s]
             /\ dir' = [dir EXCEPT ![s].made = TRUE] /\ UNCHANGED faults
    <3> DEFINE b == [next EXCEPT !.at = 1, !.slug = s]
    <3>2. b \in Boot /\ b.pc = "system" /\ b.at = 1 /\ b.slug = s
      BY <1>n DEF Boot
    <3> HIDE DEF b
    <3>3. boot' \in Boot /\ boot'.pc = "system" /\ (boot'.at > 0 => boot'.slug = s /\ ~dir[s].made)
      BY <1>n, <2>1, <3>2 DEF b
    <3>4. Directories /\ dir'[s].has = dir[s].has /\ \A t \in Slugs : t # s => dir'[t] = dir[t]
      BY <2>1, MakeMoves
    <3> QED
      BY <1>1, <1>3, <2>u, <2>1, <3>3, <3>4
  <2>2. CASE Fail /\ boot' = stopped /\ UNCHANGED dir
    <3>1. boot'.at = 0 /\ ~(boot'.at > 0)
      BY <1>e, <1>3, <2>2
    <3> QED
      BY <1>1, <1>3, <1>e, <2>u, <2>2, <3>1
  <2> QED
    BY <1>1, <1>3, <2>1, <2>2 DEF InstallOneSystemSkill, next, stopped
<1>4. CASE boot.at > 0 /\ s = boot.slug
  <2>u. brought' = brought \ {s}
    BY <1>1, <1>4 DEF InstallOneSystemSkill
  <2>a. ASSUME NEW e \in Entries, NEW v \in {System, Torn}, Put(s, e, v)
        PROVE  Directories /\ (\A t \in Slugs : t # s => dir'[t] = dir[t])
               /\ \A f \in Entries : dir'[s].has[f] = IF f = e THEN v ELSE dir[s].has[f]
    BY <2>a, PutMoves
  <2>f. \A k \in DOMAIN Files : Files[k] \in Entries /\ Files[k] # "_meta.json"
    BY SkillNames
  <2>1. CASE /\ boot.at \in DOMAIN Files /\ Put(s, Files[boot.at], System)
             /\ boot' = [boot EXCEPT !.at = boot.at + 1] /\ UNCHANGED faults
    <3>1. PICK e \in Entries : e = Files[boot.at] /\ e # "_meta.json"
      BY <2>f, <2>1
    <3>2. PICK k \in Nat : k = boot.at + 1
      BY <1>1
    <3>3. boot' = [boot EXCEPT !.at = k]
      BY <2>1, <3>2
    <3>4. boot' \in Boot /\ boot'.pc = "system" /\ boot'.slug = s
      BY <1>1, <1>4, <3>3 DEF Boot
    <3>5. Put(s, e, System)
      BY <2>1, <3>1
    <3> QED
      BY <1>1, <1>4, <2>u, <2>a, <2>1, <3>1, <3>4, <3>5
  <2>2. CASE Put(s, "_meta.json", System) /\ ((boot' = next /\ UNCHANGED faults) \/ (boot' = ended /\ Fail))
    <3>1. boot' \in Boot /\ boot'.pc = "system" /\ boot'.at = 0 /\ ~(boot'.at > 0)
      BY <1>n, <1>e, <2>2
    <3> QED
      BY <1>1, <1>4, <2>u, <2>a, <2>2, <3>1
  <2>3. CASE UNCHANGED dir /\ boot' = ended /\ Fail
    <3>1. boot' \in Boot /\ boot'.pc = "system" /\ boot'.at = 0 /\ ~(boot'.at > 0)
      BY <1>e, <2>3
    <3> QED
      BY <1>1, <1>4, <2>u, <2>3, <3>1
  <2>4. CASE /\ boot.at \in DOMAIN Files /\ boot' = ended /\ Fail
             /\ \E v \in {System, Torn} : Put(s, Files[boot.at], v)
    <3>1. PICK e \in Entries : e = Files[boot.at] /\ e # "_meta.json"
      BY <2>f, <2>4
    <3>2. PICK v \in {System, Torn} : Put(s, e, v)
      BY <2>4, <3>1
    <3>3. boot' \in Boot /\ boot'.pc = "system" /\ boot'.at = 0 /\ ~(boot'.at > 0)
      BY <1>e, <2>4
    <3>4. CASE v = System
      BY <1>1, <1>4, <2>u, <2>a, <2>4, <3>1, <3>2, <3>3, <3>4
    <3>5. CASE v = Torn
      BY <1>1, <1>4, <2>u, <2>a, <2>4, <3>1, <3>2, <3>3, <3>5
    <3> QED
      BY <3>4, <3>5
  <2>5. ~(boot.at = 0 /\ s \in boot.left)
    BY <1>4
  <2>6. \/ /\ \/ boot.at \in DOMAIN Files /\ Put(s, Files[boot.at], System) /\ boot' = [boot EXCEPT !.at = boot.at + 1]
              \/ Put(s, "_meta.json", System) /\ boot' = next
           /\ UNCHANGED faults
        \/ /\ Fail /\ boot' = ended
           /\ \/ UNCHANGED dir
              \/ boot.at \in DOMAIN Files /\ \E v \in {System, Torn} : Put(s, Files[boot.at], v)
              \/ Put(s, "_meta.json", System)
    BY <2>5 DEF InstallOneSystemSkill, next, ended
  <2> QED
    BY <2>1, <2>2, <2>3, <2>4, <2>6
<1> QED
  BY <1>1, <1>3, <1>4 DEF InstallOneSystemSkill

(* A crash leaves commits and uninstallations that did not end where they are. *)
LEMMA DeathMoves ==
  ASSUME SkillTypeOK, DaemonDies
  PROVE  /\ commit' \in [Bundles -> Commits]
         /\ \A r \in Bundles : \/ commit'[r] = commit[r] /\ commit[r].pc \in {"none", "staged", "done"}
                               \/ /\ commit[r].pc \notin {"none", "staged", "done"}
                                  /\ commit'[r].pc = "failed"
         /\ remover' \in [Removers -> Removals]
         /\ \A u \in Removers : remover'[u].pc \in {"none", "done"}
         /\ boot' \in Boot /\ boot'.at = 0 /\ boot'.pc = "system"
         /\ \/ UNCHANGED dir
            \/ \E s \in Slugs, f \in Entries :
                 /\ Directories /\ Writing(s, f)
                 /\ \A e \in Entries : dir'[s].has[e] = IF e = f THEN Torn ELSE dir[s].has[e]
                 /\ \A t \in Slugs : t # s => dir'[t] = dir[t]
<1>1. NoCommit \in Commits /\ [NoCommit EXCEPT !.pc = "failed"] \in Commits /\ [NoCommit EXCEPT !.pc = "failed"].pc = "failed"
  BY DEF NoCommit, Commits, CommitPcs
<1>2. commit' = [r \in Bundles |-> IF commit[r].pc \in {"none", "staged", "done"} THEN commit[r]
                                   ELSE [NoCommit EXCEPT !.pc = "failed"]]
  BY DEF DaemonDies
<1>3. /\ NoRemoval \in Removals /\ NoRemoval.pc = "none"
      /\ [NoRemoval EXCEPT !.pc = "done"] \in Removals /\ [NoRemoval EXCEPT !.pc = "done"].pc = "done"
  BY DEF NoRemoval, Removals
<1>4. remover' = [u \in Removers |-> IF remover[u].pc = "none" THEN NoRemoval ELSE [NoRemoval EXCEPT !.pc = "done"]]
  BY DEF DaemonDies
<1>5. boot' \in Boot /\ boot'.at = 0 /\ boot'.pc = "system"
  BY DEF DaemonDies, Starting, Boot
<1> DEFINE failed == [NoCommit EXCEPT !.pc = "failed"]
           gone == [NoRemoval EXCEPT !.pc = "done"]
<1>6. /\ commit' = [r \in Bundles |-> IF commit[r].pc \in {"none", "staged", "done"} THEN commit[r] ELSE failed]
      /\ failed \in Commits /\ failed.pc = "failed"
      /\ remover' = [u \in Removers |-> IF remover[u].pc = "none" THEN NoRemoval ELSE gone]
      /\ gone \in Removals /\ gone.pc = "done"
  BY <1>1, <1>2, <1>3, <1>4, Zenon
<1> HIDE DEF failed, gone
<1>7. \A r \in Bundles : commit[r] \in Commits
  BY DEF SkillTypeOK
<1>8. \/ UNCHANGED dir
      \/ \E s \in Slugs, f \in Entries :
           /\ Directories /\ Writing(s, f)
           /\ \A e \in Entries : dir'[s].has[e] = IF e = f THEN Torn ELSE dir[s].has[e]
           /\ \A t \in Slugs : t # s => dir'[t] = dir[t]
  <2> SUFFICES ASSUME NEW s \in Slugs, NEW f \in Entries, Writing(s, f), Put(s, f, Torn)
               PROVE  /\ Directories
                      /\ \A e \in Entries : dir'[s].has[e] = IF e = f THEN Torn ELSE dir[s].has[e]
                      /\ \A t \in Slugs : t # s => dir'[t] = dir[t]
    BY DEF DaemonDies
  <2> QED
    BY PutMoves
<1> QED
  BY <1>3, <1>5, <1>6, <1>7, <1>8

LEMMA SkillTypeStep ==
  SkillTypeOK /\ ApprovedInv /\ [SkillNext]_skillVars => SkillTypeOK'
<1> SUFFICES ASSUME SkillTypeOK, ApprovedInv, [SkillNext]_skillVars PROVE SkillTypeOK'
  OBVIOUS
<1> USE SkillNames
<1>t. /\ commit \in [Bundles -> Commits] /\ remover \in [Removers -> Removals] /\ boot \in Boot
      /\ shared \subseteq Slugs /\ registry \in Snapshot /\ faults \in 0 .. MaxFaults /\ deaths \in 0 .. MaxDeaths
      /\ boot.at > 0 => boot.slug \in Slugs
      /\ \A u \in Removers : /\ remover[u].pc = "remove" => remover[u].at \in Slugs
                             /\ remover[u].pc = "publish" => remover[u].saw \in Snapshot
                             /\ remover[u].at \in Slugs \union {Absent} /\ remover[u].saw \in Snapshot \union {<<>>}
  BY DEF SkillTypeOK, Removals
<1>c. UNCHANGED commit => CommitsOK'
  BY DEF SkillTypeOK, CommitsOK
<1>1. ASSUME NEW r \in Bundles, CommitStep(r) PROVE SkillTypeOK'
  BY <1>1, CommitTypeStep DEF ApprovedInv
<1>2. ASSUME NEW u \in Removers, NEW s \in Slugs, Uninstall(u, s) PROVE SkillTypeOK'
  <2>1. RemovesTo(u, "remove", s, <<>>)
    BY <1>2, RemoverMoves DEF Uninstall
  <2>2. shared' \subseteq Slugs
    BY <1>2, <1>t DEF Uninstall, Sharing
  <2> QED
    BY <1>2, <1>t, <1>c, <2>1, <2>2, OtherTypesKept DEF Uninstall, RemovesTo
<1>3. ASSUME NEW u \in Removers, UninstallStep(u) PROVE SkillTypeOK'
  <2>u. UNCHANGED <<staged, decided, commit, ran, brought, shared, lock, boot, deaths>>
    BY <1>3 DEF UninstallStep
  <2>t. remover[u].at \in Slugs \union {Absent} /\ remover[u].saw \in Snapshot \union {<<>>}
    BY <1>t
  <2>1. ASSUME NEW pc \in {"refresh", "done"}, remover' = [remover EXCEPT ![u].pc = pc],
               dir' = dir \/ Directories, Fail \/ UNCHANGED faults, UNCHANGED registry
        PROVE  SkillTypeOK'
    <3>1. RemovesTo(u, pc, remover[u].at, remover[u].saw)
      <4>1. pc \in {"none", "remove", "refresh", "publish", "done"}
        OBVIOUS
      <4>2. remover' = [remover EXCEPT ![u].pc = pc]
        BY <2>1
      <4> QED
        BY <2>t, <4>1, <4>2, RemoverMoves
    <3> QED
      BY <1>t, <1>c, <2>u, <2>1, <3>1, FailTyped, OtherTypesKept DEF RemovesTo
  <2>2. CASE remover[u].pc = "remove" /\ RemoveOne(remover[u].at) /\ UNCHANGED <<remover, faults, registry>>
    <3>1. Directories
      BY <1>t, <2>2, RemoveMoves
    <3> QED
      BY <1>t, <1>c, <2>u, <2>2, <3>1, OtherTypesKept
  <2>3. CASE /\ remover[u].pc = "remove" /\ dir' = [dir EXCEPT ![remover[u].at] = NoDir]
             /\ remover' = [remover EXCEPT ![u].pc = "refresh"] /\ UNCHANGED <<faults, registry>>
    <3>1. Directories
      BY <1>t, <2>3, ClearMoves
    <3> QED
      BY <2>1, <2>3, <3>1
  <2>4. CASE remover' = [remover EXCEPT ![u].pc = "done"] /\ Fail /\ UNCHANGED <<dir, registry>>
    BY <2>1, <2>4
  <2>5. CASE remover' = [remover EXCEPT ![u].pc = "publish", ![u].saw = LoadAll] /\ UNCHANGED <<dir, faults, registry>>
    <3>1. RemovesTo(u, "publish", remover[u].at, LoadAll)
      BY <2>t, <2>5, RemoverMoves, LoadAllTyped
    <3> QED
      BY <1>t, <1>c, <2>u, <2>5, <3>1, LoadAllTyped, OtherTypesKept DEF RemovesTo
  <2>6. CASE /\ remover[u].pc = "publish" /\ registry' = remover[u].saw
             /\ remover' = [remover EXCEPT ![u].pc = "done", ![u].saw = <<>>] /\ UNCHANGED <<dir, faults>>
    <3>1. RemovesTo(u, "done", remover[u].at, <<>>)
      <4>1. <<>> \in Snapshot \union {<<>>}
        OBVIOUS
      <4> QED
        BY <2>t, <2>6, <4>1, RemoverMoves
    <3> QED
      BY <1>t, <1>c, <2>u, <2>6, <3>1, OtherTypesKept DEF RemovesTo
  <2> QED
    BY <1>3, <2>2, <2>3, <2>4, <2>5, <2>6 DEF UninstallStep
<1>4. ASSUME NEW s \in Slugs, InstallOneSystemSkill(s) PROVE SkillTypeOK'
  <2>1. UNCHANGED <<staged, decided, commit, ran, shared, lock, registry, remover, deaths>>
    BY <1>4 DEF InstallOneSystemSkill
  <2>2. faults' \in 0 .. MaxFaults
    BY <1>4, InstallMoves, FailTyped
  <2>3. brought' \subseteq Slugs
    BY <1>4, InstallMoves DEF SkillTypeOK
  <2> QED
    BY <1>4, <1>t, <1>c, <2>1, <2>2, <2>3, InstallMoves, OtherTypesKept
<1>5. CASE InstallSystemSkills
  <2>1. boot' \in Boot /\ boot'.at = 0
    <3>1. boot' = [boot EXCEPT !.pc = "up"] /\ boot.at = 0
      BY <1>5 DEF InstallSystemSkills
    <3> QED
      BY <1>t, <3>1 DEF Boot
  <2> QED
    BY <1>5, <1>t, <1>c, <2>1, LoadAllTyped, OtherTypesKept DEF InstallSystemSkills
<1>6. CASE DaemonDies
  <2>1. CommitsOK'
    BY <1>6, DeathMoves DEF CommitsOK
  <2>2. registry' \in Snapshot /\ deaths' \in 0 .. MaxDeaths /\ UNCHANGED <<staged, decided, ran, brought, shared, lock, faults>>
    BY <1>6, <1>t, SkillInstallAssumption DEF DaemonDies, Snapshot
  <2>3. (\A u \in Removers : remover'[u].pc \in {"none", "done"}) /\ (dir' = dir \/ Directories)
    BY <1>6, DeathMoves
  <2> QED
    BY <1>6, <1>t, <2>1, <2>2, <2>3, DeathMoves, OtherTypesKept
<1>7. CASE UNCHANGED skillVars
  BY <1>7 DEF skillVars, SkillTypeOK
<1> QED
  BY <1>1, <1>2, <1>3, <1>4, <1>5, <1>6, <1>7 DEF SkillNext

-----------------------------------------------------------------------------
(* Installed as approved *)

(* What is shown of a skill after a step was shown before, or is approved. *)
LEMMA ApprovedKept ==
  ASSUME ApprovedInv,
         \A r \in Bundles : Approved(r) => Approved(r)',
         \A r \in Bundles : CommitInv(r)',
         \A r \in Bundles, s \in Slugs : registry'[s] = r => registry[s] = r \/ Approved(r),
         \A r \in Bundles, s \in Slugs, e \in Entries :
           dir'[s].has[e] = r => dir[s].has[e] = r \/ Approved(r),
         \A q, r \in Bundles, s \in Slugs :
           commit'[q].pc = "publish" /\ commit'[q].saw[s] = r
             => (commit[q].pc = "publish" /\ commit[q].saw[s] = r) \/ Approved(r),
         \A u \in Removers, r \in Bundles, s \in Slugs :
           remover'[u].pc = "publish" /\ remover'[u].saw[s] = r
             => (remover[u].pc = "publish" /\ remover[u].saw[s] = r) \/ Approved(r)
  PROVE  ApprovedInv'
BY DEF ApprovedInv

LEMMA ScanApproved ==
  ASSUME SkillTypeOK, ApprovedInv, NEW s \in Slugs, NEW r \in Bundles, LoadAll[s] = r
  PROVE  Approved(r)
BY LoadAllTyped, SkillNames DEF ApprovedInv

(* Steps of one commit: its decision and its count of commands stay as they
   were, or it is not yet approved; the others' do not change. *)
LEMMA CommitApprovedStep ==
  ASSUME SkillTypeOK, ApprovedInv, NEW r \in Bundles, CommitStep(r)
  PROVE  ApprovedInv'
<1> USE SkillNames
<1>t. /\ commit[r].pc \in CommitPcs /\ commit[r].at \in Nat /\ commit[r].saw \in Snapshot \union {<<>>}
      /\ ran \in [Bundles -> Nat] /\ decided \in [Bundles -> {"", "approve", "skip_binary", "deny"}]
      /\ commit \in [Bundles -> Commits] /\ CommitInv(r)
      /\ \A s \in Slugs : dir[s].has \in [Entries -> Versions \union {Absent, Torn}]
  BY DirectoryTyped DEF SkillTypeOK, Commits, ApprovedInv
<1>n. \A q \in Bundles : CommitInv(q)
  BY DEF ApprovedInv
(* A step that moves the commit on and shows no more than an approved request. *)
<1>0. ASSUME NEW pc \in CommitPcs, NEW at, NEW saw, MovesTo(r, pc, at, saw), CommitInv(r)',
             Approved(r) => Approved(r)',
             \A q \in Bundles : q # r => decided'[q] = decided[q] /\ ran'[q] = ran[q],
             \A s \in Slugs, q \in Bundles : registry'[s] = q => registry[s] = q \/ Approved(q),
             \A q \in Bundles, s \in Slugs, e \in Entries : dir'[s].has[e] = q => dir[s].has[e] = q \/ Approved(q),
             pc = "publish" => \A q \in Bundles, s \in Slugs : saw[s] = q => Approved(q),
             remover' = remover
      PROVE  ApprovedInv'
  <2>1. \A q \in Bundles : q # r => commit'[q] = commit[q] /\ (Approved(q) <=> Approved(q)')
    BY <1>0 DEF MovesTo, Approved
  <2>2. \A q \in Bundles : CommitInv(q)'
    BY <1>0, <1>n, <2>1, ZenonT(40) DEF CommitInv
  <2>3. \A q, p \in Bundles, s \in Slugs :
           commit'[q].pc = "publish" /\ commit'[q].saw[s] = p
             => (commit[q].pc = "publish" /\ commit[q].saw[s] = p) \/ Approved(p)
    BY <1>0, <2>1 DEF MovesTo
  <2>4. \A q \in Bundles : Approved(q) => Approved(q)'
    BY <1>0, <2>1
  <2> QED
    BY <1>0, <2>2, <2>3, <2>4, ApprovedKept
(* The same while the request itself is not decided or counted again. *)
<1>00. ASSUME NEW pc \in CommitPcs, NEW at, NEW saw, MovesTo(r, pc, at, saw), UNCHANGED <<decided, ran, remover>>,
             \/ pc = "staged" /\ commit[r].pc = "none" /\ at = commit[r].at
             \/ pc \notin {"none", "staged", "command"} /\ (Approved(r) \/ pc \in {"done", "failed"}),
             \A s \in Slugs, q \in Bundles : registry'[s] = q => registry[s] = q \/ Approved(q),
             \A q \in Bundles, s \in Slugs, e \in Entries : dir'[s].has[e] = q => dir[s].has[e] = q \/ Approved(q),
             pc = "publish" => \A q \in Bundles, s \in Slugs : saw[s] = q => Approved(q)
      PROVE  ApprovedInv'
  <2>1. Approved(r) <=> Approved(r)'
    BY <1>00 DEF Approved
  <2>2. CommitInv(r)'
    BY <1>t, <1>00, <2>1 DEF CommitInv, MovesTo
  <2> QED
    BY <1>0, <1>00, <2>1, <2>2
<1>1. CASE StageBundle(r)
  <2>1. MovesTo(r, "staged", commit[r].at, commit[r].saw) /\ "staged" \in CommitPcs
    BY <1>1, GotoMoves DEF StageBundle, CommitPcs
  <2> QED
    BY <1>1, <1>00, <2>1 DEF StageBundle
<1>2. ASSUME NEW d \in {"approve", "skip_binary", "deny"}, DecideRequest(r, d) PROVE ApprovedInv'
  <2>1. PICK pc \in {"command", "clear", "done"} :
          Goto(r, pc) /\ (pc = "command" => d = "approve") /\ (pc = "clear" => d = "skip_binary")
    BY <1>2 DEF DecideRequest
  <2>2. pc \in CommitPcs /\ MovesTo(r, pc, commit[r].at, commit[r].saw)
    BY <2>1, GotoMoves DEF CommitPcs
  <2>3. /\ commit[r].pc = "staged" /\ decided' = [decided EXCEPT ![r] = d]
        /\ UNCHANGED <<ran, dir, registry, remover>>
    BY <1>2 DEF DecideRequest
  <2>4. ran'[r] = 0 /\ decided'[r] = d /\ decided[r] = "" /\ \A q \in Bundles : q # r => decided'[q] = decided[q]
    BY <1>t, <2>3 DEF CommitInv
  <2>5. ~Approved(r)
    BY <2>4 DEF Approved
  <2>6. CommitInv(r)'
    <3>1. CASE pc = "command"
      <4>1. commit'[r].at = 0
        BY <1>t, <2>2, <2>3 DEF MovesTo, CommitInv
      <4> QED
        BY <2>1, <2>2, <2>4, <3>1, <4>1 DEF CommitInv, MovesTo
    <3>2. CASE pc = "clear"
      BY <2>1, <2>2, <2>4, <3>2 DEF CommitInv, MovesTo, Approved
    <3>3. CASE pc = "done"
      BY <2>2, <3>3 DEF CommitInv, MovesTo
    <3> QED
      BY <3>1, <3>2, <3>3
  <2> QED
    BY <1>0, <2>1, <2>2, <2>3, <2>4, <2>5, <2>6
<1>3. CASE RunCommand(r)
  <2>u. commit[r].pc = "command" /\ decided[r] = "approve" /\ ran[r] = commit[r].at
        /\ UNCHANGED <<decided, dir, registry, remover>>
    BY <1>3, <1>t DEF RunCommand, CommitInv
  <2>1. CASE commit[r].at = Proposed[r] /\ Goto(r, "clear") /\ UNCHANGED ran
    <3>1. MovesTo(r, "clear", commit[r].at, commit[r].saw) /\ "clear" \in CommitPcs
      BY <2>1, GotoMoves DEF CommitPcs
    <3>2. Approved(r)
      BY <2>u, <2>1 DEF Approved
    <3> QED
      BY <1>00, <2>u, <2>1, <3>1, <3>2
  <2>2. CASE /\ commit[r].at # Proposed[r] /\ commit' = [commit EXCEPT ![r].at = @ + 1]
             /\ ran' = [ran EXCEPT ![r] = @ + 1]
    <3>a. commit[r].at \in Nat
      BY <1>t
    <3>1. commit' = [commit EXCEPT ![r].at = commit[r].at + 1] /\ commit[r].at + 1 \in Nat
      BY <2>2, <3>a
    <3>2. MovesTo(r, commit[r].pc, commit[r].at + 1, commit[r].saw)
      BY <1>t, <3>1, CommitMoves
    <3>3. ran'[r] = ran[r] + 1 /\ \A q \in Bundles : q # r => ran'[q] = ran[q]
      BY <1>t, <2>2
    <3>4. ~Approved(r)
      BY <2>u, <2>2 DEF Approved
    <3>5. CommitInv(r)'
      BY <2>u, <3>2, <3>3 DEF CommitInv, MovesTo
    <3> QED
      BY <1>0, <1>t, <2>u, <3>2, <3>3, <3>4, <3>5
  <2>3. CASE Goto(r, "failed") /\ UNCHANGED ran
    <3>1. MovesTo(r, "failed", commit[r].at, commit[r].saw) /\ "failed" \in CommitPcs
      BY <2>3, GotoMoves DEF CommitPcs
    <3> QED
      BY <1>00, <2>u, <2>3, <3>1
  <2> QED
    BY <1>3, <2>1, <2>2, <2>3 DEF RunCommand
<1>4. CASE ClearTarget(r)
  <2>1. MovesTo(r, "remove", commit[r].at, commit[r].saw) /\ "remove" \in CommitPcs
    BY <1>4, GotoMoves DEF ClearTarget, CommitPcs
  <2>2. Approved(r)
    BY <1>4, <1>t DEF ClearTarget, CommitInv
  <2> QED
    BY <1>4, <1>00, <2>1, <2>2 DEF ClearTarget
(* While its directory is replaced, the request is approved. *)
<1>5. ASSUME NEW pc \in CommitPcs \ {"none", "staged", "command", "publish"}, NEW at, NEW saw, MovesTo(r, pc, at, saw),
             commit[r].pc \notin {"none", "staged", "command", "done", "failed"},
             UNCHANGED <<decided, ran, registry, remover>>,
             \A t \in Slugs, e \in Entries : dir'[t].has[e] \in {dir[t].has[e], Absent, Torn, r}
      PROVE  ApprovedInv'
  <2>1. Approved(r)
    BY <1>5, <1>t DEF CommitInv
  <2>2. \A q \in Bundles, t \in Slugs, e \in Entries : dir'[t].has[e] = q => dir[t].has[e] = q \/ Approved(q)
    BY <1>5, <2>1
  <2> QED
    BY <1>00, <1>5, <2>1, <2>2
<1>6. CASE RemoveTarget(r)
  <2>u. commit[r].pc = "remove" /\ UNCHANGED <<decided, ran, registry, remover>> /\ SlugOf[r] \in Slugs
    BY <1>6 DEF RemoveTarget
  <2>1. CASE RemoveOne(SlugOf[r]) /\ UNCHANGED commit
    <3>1. \A t \in Slugs, e \in Entries : dir'[t].has[e] \in {dir[t].has[e], Absent, Torn, r}
      BY <2>u, <2>1, RemoveMoves
    <3>2. MovesTo(r, commit[r].pc, commit[r].at, commit[r].saw)
      BY <1>t, <2>1 DEF MovesTo
    <3> QED
      BY <1>5, <1>t, <2>u, <3>1, <3>2
  <2>2. CASE /\ dir' = [dir EXCEPT ![SlugOf[r]] = NoDir]
             /\ commit' = [commit EXCEPT ![r].pc = "copy", ![r].at = 0]
    <3>1. "copy" \in CommitPcs /\ 0 \in Nat
      BY DEF CommitPcs
    <3>2. MovesTo(r, "copy", 0, commit[r].saw)
      BY <1>t, <2>2, <3>1, CommitMoves
    <3>3. \A t \in Slugs, e \in Entries : dir'[t].has[e] \in {dir[t].has[e], Absent, Torn, r}
      <4>1. /\ \A e \in Entries : dir'[SlugOf[r]].has[e] = Absent
            /\ \A t \in Slugs : t # SlugOf[r] => dir'[t] = dir[t]
        BY <2>u, <2>2, ClearMoves
      <4> QED
        BY <4>1
    <3> QED
      BY <1>5, <2>u, <3>1, <3>2, <3>3
  <2>3. CASE Goto(r, "failed") /\ UNCHANGED dir
    <3>1. MovesTo(r, "failed", commit[r].at, commit[r].saw) /\ "failed" \in CommitPcs
      BY <2>3, GotoMoves DEF CommitPcs
    <3> QED
      BY <1>5, <2>u, <2>3, <3>1
  <2> QED
    BY <1>6, <2>1, <2>2, <2>3 DEF RemoveTarget
<1>7. CASE CopyOne(r)
  <2>1. commit[r].pc = "copy" /\ UNCHANGED <<decided, ran, registry, remover>> /\ SlugOf[r] \in Slugs
    BY <1>7 DEF CopyOne
  <2>2. PICK pc \in {"copy", "fingerprint", "failed"}, at \in Nat : MovesTo(r, pc, at, commit[r].saw)
    BY <1>7, CopyOutcome
  <2>3. pc \in CommitPcs /\ pc \notin {"none", "staged", "command", "publish"}
    BY DEF CommitPcs
  <2>4. \A t \in Slugs, e \in Entries : dir'[t].has[e] \in {dir[t].has[e], Absent, Torn, r}
    BY <1>7, CopyOutcome
  <2> QED
    BY <1>5, <2>1, <2>2, <2>3, <2>4
<1>8. CASE FingerprintDir(r)
  <2>1. PICK pc \in {"meta", "failed"} : Goto(r, pc)
    BY <1>8 DEF FingerprintDir
  <2>2. pc \in CommitPcs /\ pc \notin {"none", "staged", "command", "publish"}
    BY DEF CommitPcs
  <2>3. MovesTo(r, pc, commit[r].at, commit[r].saw)
    BY <2>1, <2>2, GotoMoves
  <2>4. commit[r].pc = "fingerprint" /\ UNCHANGED <<decided, ran, dir, registry, remover>>
    BY <1>8 DEF FingerprintDir
  <2> QED
    BY <1>5, <2>2, <2>3, <2>4
<1>9. CASE WriteMeta(r)
  <2>1. commit[r].pc = "meta" /\ UNCHANGED <<decided, ran, registry, remover>> /\ SlugOf[r] \in Slugs
    BY <1>9 DEF WriteMeta
  <2>2. PICK pc \in {"lock", "failed"} : MovesTo(r, pc, commit[r].at, commit[r].saw)
    BY <1>9, MetaOutcome
  <2>3. pc \in CommitPcs /\ pc \notin {"none", "staged", "command", "publish"}
    BY DEF CommitPcs
  <2>4. \A t \in Slugs, e \in Entries : dir'[t].has[e] \in {dir[t].has[e], Absent, Torn, r}
    BY <1>9, MetaOutcome
  <2> QED
    BY <1>5, <2>1, <2>2, <2>3, <2>4
<1>10. CASE ReadLock(r)
  <2>1. "unlock" \in CommitPcs /\ lock \in Snapshot
    BY DEF CommitPcs, SkillTypeOK
  <2>2. MovesTo(r, "unlock", commit[r].at, lock)
    BY <1>10, <1>t, <2>1, CommitMoves DEF ReadLock
  <2>3. commit[r].pc = "lock" /\ UNCHANGED <<decided, ran, dir, registry, remover>>
    BY <1>10 DEF ReadLock
  <2> QED
    BY <1>5, <2>1, <2>2, <2>3
<1>11. CASE WriteLock(r)
  <2>1. PICK pc \in {"cleanup", "failed"} : commit' = [commit EXCEPT ![r].pc = pc, ![r].saw = <<>>]
    BY <1>11 DEF WriteLock
  <2>2. <<>> \in Snapshot \union {<<>>} /\ pc \in CommitPcs /\ pc \notin {"none", "staged", "command", "publish"}
    BY DEF CommitPcs
  <2>3. MovesTo(r, pc, commit[r].at, <<>>)
    BY <1>t, <2>1, <2>2, CommitMoves
  <2>4. commit[r].pc = "unlock" /\ UNCHANGED <<decided, ran, dir, registry, remover>>
    BY <1>11 DEF WriteLock
  <2> QED
    BY <1>5, <2>2, <2>3, <2>4
<1>12. CASE DropStaging(r)
  <2>1. MovesTo(r, "refresh", commit[r].at, commit[r].saw) /\ "refresh" \in CommitPcs
    BY <1>12, GotoMoves DEF DropStaging, CommitPcs
  <2>2. commit[r].pc = "cleanup" /\ UNCHANGED <<decided, ran, dir, registry, remover>>
    BY <1>12 DEF DropStaging
  <2> QED
    BY <1>5, <2>1, <2>2
<1>13. CASE ScanAfterCommit(r)
  <2>1. "publish" \in CommitPcs /\ LoadAll \in Snapshot
    BY LoadAllTyped DEF CommitPcs
  <2>2. MovesTo(r, "publish", commit[r].at, LoadAll)
    BY <1>13, <1>t, <2>1, CommitMoves DEF ScanAfterCommit
  <2>3. commit[r].pc = "refresh" /\ UNCHANGED <<decided, ran, dir, registry, remover>>
    BY <1>13 DEF ScanAfterCommit
  <2>4. Approved(r)
    BY <1>t, <2>3 DEF CommitInv
  <2>5. \A q \in Bundles, s \in Slugs : LoadAll[s] = q => Approved(q)
    BY ScanApproved
  <2> QED
    BY <1>00, <2>1, <2>2, <2>3, <2>4, <2>5
<1>14. CASE PublishAfterCommit(r)
  <2>1. <<>> \in Snapshot \union {<<>>} /\ "done" \in CommitPcs
    BY DEF CommitPcs
  <2>2. MovesTo(r, "done", commit[r].at, <<>>)
    BY <1>14, <1>t, <2>1, CommitMoves DEF PublishAfterCommit
  <2>3. commit[r].pc = "publish" /\ registry' = commit[r].saw /\ UNCHANGED <<decided, ran, dir, remover>>
    BY <1>14 DEF PublishAfterCommit
  <2>4. \A q \in Bundles, s \in Slugs : registry'[s] = q => Approved(q)
    BY <2>3 DEF ApprovedInv
  <2> QED
    BY <1>00, <2>1, <2>2, <2>3, <2>4
<1> QED
  BY <1>1, <1>2, <1>3, <1>4, <1>6, <1>7, <1>8, <1>9, <1>10, <1>11, <1>12, <1>13, <1>14 DEF CommitStep

LEMMA ApprovedStep ==
  SkillTypeOK /\ ApprovedInv /\ [SkillNext]_skillVars => ApprovedInv'
<1> SUFFICES ASSUME SkillTypeOK, ApprovedInv, [SkillNext]_skillVars PROVE ApprovedInv'
  OBVIOUS
<1> USE SkillNames
(* No commit moves. *)
<1>0. ASSUME UNCHANGED <<decided, commit, ran>>,
             \A r \in Bundles, s \in Slugs : registry'[s] = r => registry[s] = r \/ Approved(r),
             \A r \in Bundles, s \in Slugs, e \in Entries : dir'[s].has[e] = r => dir[s].has[e] = r,
             \A u \in Removers, r \in Bundles, s \in Slugs :
               remover'[u].pc = "publish" /\ remover'[u].saw[s] = r
                 => (remover[u].pc = "publish" /\ remover[u].saw[s] = r) \/ Approved(r)
      PROVE  ApprovedInv'
  <2>1. \A r \in Bundles : (Approved(r) <=> Approved(r)') /\ CommitInv(r)'
    BY <1>0 DEF ApprovedInv, CommitInv, Approved
  <2> QED
    BY <1>0, <2>1, ApprovedKept
<1>t. \A u \in Removers :
        /\ remover[u].at \in Slugs \union {Absent} /\ remover[u].saw \in Snapshot \union {<<>>}
        /\ remover[u].pc = "remove" => remover[u].at \in Slugs
  BY DEF SkillTypeOK, Removals
<1>1. ASSUME NEW r \in Bundles, CommitStep(r) PROVE ApprovedInv'
  BY <1>1, CommitApprovedStep
<1>2. ASSUME NEW u \in Removers, NEW s \in Slugs, Uninstall(u, s) PROVE ApprovedInv'
  <2>1. RemovesTo(u, "remove", s, <<>>)
    BY <1>2, RemoverMoves DEF Uninstall
  <2>2. UNCHANGED <<decided, commit, ran, dir, registry>>
    BY <1>2 DEF Uninstall
  <2> QED
    BY <1>0, <2>1, <2>2 DEF RemovesTo
<1>3. ASSUME NEW u \in Removers, UninstallStep(u) PROVE ApprovedInv'
  <2>u. UNCHANGED <<decided, commit, ran>>
    BY <1>3 DEF UninstallStep
  <2>t. remover[u].at \in Slugs \union {Absent} /\ remover[u].saw \in Snapshot \union {<<>>}
    BY <1>t
  <2>1. ASSUME NEW pc \in {"none", "remove", "refresh", "publish", "done"}, pc # "publish",
               remover' = [remover EXCEPT ![u].pc = pc],
               \A r \in Bundles, s \in Slugs, e \in Entries : dir'[s].has[e] = r => dir[s].has[e] = r,
               UNCHANGED registry
        PROVE  ApprovedInv'
    <3>1. RemovesTo(u, pc, remover[u].at, remover[u].saw)
      <4>1. pc \in {"none", "remove", "refresh", "publish", "done"} /\ remover' = [remover EXCEPT ![u].pc = pc]
        BY <2>1
      <4> QED
        BY <2>t, <4>1, RemoverMoves
    <3> QED
      BY <1>0, <2>u, <2>1, <3>1 DEF RemovesTo
  <2>2. CASE remover[u].pc = "remove" /\ RemoveOne(remover[u].at) /\ UNCHANGED <<remover, registry>>
    <3>1. \A r \in Bundles, s \in Slugs, e \in Entries : dir'[s].has[e] = r => dir[s].has[e] = r
      BY <1>t, <2>2, RemoveMoves
    <3> QED
      BY <1>0, <2>u, <2>2, <3>1
  <2>3. CASE /\ remover[u].pc = "remove" /\ dir' = [dir EXCEPT ![remover[u].at] = NoDir]
             /\ remover' = [remover EXCEPT ![u].pc = "refresh"] /\ UNCHANGED registry
    <3>1. \A r \in Bundles, s \in Slugs, e \in Entries : dir'[s].has[e] = r => dir[s].has[e] = r
      BY <1>t, <2>3, ClearMoves, ZenonT(40)
    <3> QED
      BY <2>1, <2>3, <3>1
  <2>4. CASE remover' = [remover EXCEPT ![u].pc = "done"] /\ UNCHANGED <<dir, registry>>
    BY <2>1, <2>4
  <2>5. CASE remover' = [remover EXCEPT ![u].pc = "publish", ![u].saw = LoadAll] /\ UNCHANGED <<dir, registry>>
    <3>1. RemovesTo(u, "publish", remover[u].at, LoadAll)
      BY <2>t, <2>5, RemoverMoves, LoadAllTyped
    <3>2. \A r \in Bundles, s \in Slugs : LoadAll[s] = r => Approved(r)
      BY ScanApproved
    <3> QED
      BY <1>0, <2>u, <2>5, <3>1, <3>2 DEF RemovesTo
  <2>6. CASE /\ remover[u].pc = "publish" /\ registry' = remover[u].saw
             /\ remover' = [remover EXCEPT ![u].pc = "done", ![u].saw = <<>>] /\ UNCHANGED dir
    <3>1. RemovesTo(u, "done", remover[u].at, <<>>)
      <4>1. <<>> \in Snapshot \union {<<>>}
        OBVIOUS
      <4> QED
        BY <2>t, <2>6, <4>1, RemoverMoves
    <3>2. \A r \in Bundles, s \in Slugs : registry'[s] = r => Approved(r)
      BY <2>6 DEF ApprovedInv
    <3> QED
      BY <1>0, <2>u, <2>6, <3>1, <3>2 DEF RemovesTo
  <2> QED
    BY <1>3, <2>2, <2>3, <2>4, <2>5, <2>6 DEF UninstallStep
<1>4. ASSUME NEW s \in Slugs, InstallOneSystemSkill(s) PROVE ApprovedInv'
  <2>1. UNCHANGED <<decided, commit, ran, registry, remover>>
    BY <1>4 DEF InstallOneSystemSkill
  <2>2. \A r \in Bundles, t \in Slugs, e \in Entries : dir'[t].has[e] = r => dir[t].has[e] = r
    BY <1>4, InstallMoves
  <2> QED
    BY <1>0, <2>1, <2>2
<1>5. CASE InstallSystemSkills
  <2>1. UNCHANGED <<decided, commit, ran, dir, remover>> /\ registry' = LoadAll
    BY <1>5 DEF InstallSystemSkills
  <2>2. \A r \in Bundles, s \in Slugs : LoadAll[s] = r => Approved(r)
    BY ScanApproved
  <2> QED
    BY <1>0, <2>1, <2>2
<1>6. CASE DaemonDies
  <2>1. UNCHANGED <<decided, ran>> /\ \A s \in Slugs : registry'[s] = Absent
    BY <1>6 DEF DaemonDies
  <2>d. \A r \in Bundles, s \in Slugs, e \in Entries : dir'[s].has[e] = r => dir[s].has[e] = r
    BY <1>6, DeathMoves
  <2>2. \A r \in Bundles : Approved(r) <=> Approved(r)'
    BY <2>1 DEF Approved
  <2>3. \A r \in Bundles :
          (commit'[r] = commit[r] \/ commit'[r].pc = "failed") /\ commit'[r].pc # "publish"
    BY <1>6, DeathMoves
  <2>4. \A r \in Bundles : CommitInv(r)'
    BY <2>1, <2>2, <2>3 DEF CommitInv, ApprovedInv
  <2>5. \A u \in Removers : remover'[u].pc # "publish"
    BY <1>6, DeathMoves
  <2> QED
    BY <2>1, <2>2, <2>3, <2>4, <2>5, <2>d, ApprovedKept
<1>7. CASE UNCHANGED skillVars
  BY <1>0, <1>7 DEF skillVars
<1> QED
  BY <1>1, <1>2, <1>3, <1>4, <1>5, <1>6, <1>7 DEF SkillNext

LEMMA ApprovedSound == ApprovedInv => InstalledAsApproved
BY DEF ApprovedInv, InstalledAsApproved, Approved

-----------------------------------------------------------------------------
(* One version in a directory *)

Idle == {"none", "staged", "done", "failed"}
Busy == {"remove", "copy", "fingerprint", "meta"}

(* What the steps of a commit do to its directory: nothing, or remove entries,
   or put its own files there. *)
Emptying(r) ==
  \/ dir' = dir /\ shared' = shared /\ commit[r].pc \notin Copying /\ commit'[r].pc \notin Busy
  \/ dir' = dir /\ Sharing(SlugOf[r]) /\ commit[r].pc = "clear" /\ commit'[r].pc = "remove"
  \/ /\ shared' = shared /\ commit[r].pc = "remove" /\ commit'[r].pc = "remove"
     /\ \A e \in Entries : dir'[SlugOf[r]].has[e] \in {dir[SlugOf[r]].has[e], Absent}
  \/ /\ shared' = shared /\ commit[r].pc = "remove" /\ commit'[r].pc = "copy"
     /\ \A e \in Entries : dir'[SlugOf[r]].has[e] = Absent

Filling(r) ==
  /\ commit[r].pc \in Copying /\ commit'[r].pc \in Copying \union {"failed"}
  /\ \A e \in Entries : dir'[SlugOf[r]].has[e] \in {dir[SlugOf[r]].has[e], r, Torn}
  /\ commit'[r].pc # "failed" =>
       \A e \in Entries : dir'[SlugOf[r]].has[e] \in {dir[SlugOf[r]].has[e], r}
  /\ brought \subseteq brought' /\ brought' \subseteq brought \union {SlugOf[r]}
  /\ dir'[SlugOf[r]].has["_meta.json"] # dir[SlugOf[r]].has["_meta.json"]
       => SlugOf[r] \in brought' /\ r \in Carriers

Describing(r) ==
  /\ commit[r].pc \in Copying /\ commit'[r].pc \notin Busy
  /\ \A e \in Entries : dir'[SlugOf[r]].has[e] = IF e = "_meta.json" THEN r ELSE dir[SlugOf[r]].has[e]
  /\ brought' = brought \ {SlugOf[r]}

LEMMA CommitSummary ==
  ASSUME SkillTypeOK, NEW r \in Bundles, CommitStep(r)
  PROVE  /\ \A q \in Bundles : q # r => commit'[q] = commit[q]
         /\ \A t \in Slugs : t # SlugOf[r] => dir'[t] = dir[t]
         /\ boot.pc # "system" \/ commit[r].pc \notin Idle
         /\ commit[r].pc # "failed" /\ UNCHANGED <<remover, boot>>
         /\ \/ brought' = brought /\ Emptying(r)
            \/ shared' = shared /\ (Filling(r) \/ Describing(r))
<1> USE SkillNames DEF Idle, Busy, Copying
<1>t. /\ commit[r].pc \in CommitPcs /\ commit[r].at \in Nat /\ commit[r].saw \in Snapshot \union {<<>>}
      /\ commit \in [Bundles -> Commits]
  BY DEF SkillTypeOK, Commits
<1>g. ASSUME NEW pc \in CommitPcs, Goto(r, pc)
      PROVE  commit'[r].pc = pc /\ \A q \in Bundles : q # r => commit'[q] = commit[q]
  BY <1>g, GotoMoves DEF MovesTo
<1>p. /\ "staged" \in CommitPcs /\ "command" \in CommitPcs /\ "clear" \in CommitPcs /\ "done" \in CommitPcs
      /\ "failed" \in CommitPcs /\ "remove" \in CommitPcs /\ "fingerprint" \in CommitPcs /\ "meta" \in CommitPcs
      /\ "lock" \in CommitPcs /\ "refresh" \in CommitPcs /\ "copy" \in CommitPcs
  BY DEF CommitPcs
<1>1. CASE StageBundle(r)
  BY <1>1, <1>g, <1>p DEF StageBundle, Emptying
<1>2. ASSUME NEW d \in {"approve", "skip_binary", "deny"}, boot.pc = "up", DecideRequest(r, d)
      PROVE  /\ \A q \in Bundles : q # r => commit'[q] = commit[q]
             /\ commit[r].pc = "staged" /\ UNCHANGED <<dir, brought, remover, boot>> /\ Emptying(r)
  <2>1. PICK pc \in {"command", "clear", "done"} : Goto(r, pc)
    BY <1>2 DEF DecideRequest
  <2> QED
    BY <1>2, <1>g, <1>p, <2>1 DEF DecideRequest, Emptying
<1>3. CASE RunCommand(r)
  <2>1. commit[r].pc = "command" /\ UNCHANGED <<dir, brought, shared, remover, boot>>
    BY <1>3 DEF RunCommand
  <2>2. CASE \E pc \in {"clear", "failed"} : Goto(r, pc)
    BY <1>g, <1>p, <2>1, <2>2 DEF Emptying
  <2>3. CASE commit' = [commit EXCEPT ![r].at = @ + 1]
    <3>a. commit[r].at \in Nat
      BY <1>t
    <3>1. commit' = [commit EXCEPT ![r].at = commit[r].at + 1] /\ commit[r].at + 1 \in Nat
      BY <2>3, <3>a
    <3>2. MovesTo(r, commit[r].pc, commit[r].at + 1, commit[r].saw)
      BY <1>t, <3>1, CommitMoves
    <3> QED
      BY <2>1, <3>2 DEF MovesTo, Emptying
  <2> QED
    BY <1>3, <2>2, <2>3 DEF RunCommand
<1>4. CASE ClearTarget(r)
  BY <1>4, <1>g, <1>p DEF ClearTarget, Emptying
<1>5. CASE RemoveTarget(r)
  <2>u. commit[r].pc = "remove" /\ UNCHANGED <<brought, shared, remover, boot>> /\ SlugOf[r] \in Slugs
    BY <1>5 DEF RemoveTarget
  <2>1. CASE RemoveOne(SlugOf[r]) /\ UNCHANGED commit
    BY <2>u, <2>1, RemoveMoves DEF Emptying
  <2>2. CASE /\ dir' = [dir EXCEPT ![SlugOf[r]] = NoDir]
             /\ commit' = [commit EXCEPT ![r].pc = "copy", ![r].at = 0]
    <3>2. MovesTo(r, "copy", 0, commit[r].saw)
      BY <1>t, <1>p, <2>2, CommitMoves
    <3>3. /\ \A e \in Entries : dir'[SlugOf[r]].has[e] = Absent
          /\ \A t \in Slugs : t # SlugOf[r] => dir'[t] = dir[t]
      BY <2>u, <2>2, ClearMoves
    <3> QED
      BY <2>u, <3>2, <3>3 DEF MovesTo, Emptying
  <2>3. CASE Goto(r, "failed") /\ UNCHANGED dir
    BY <1>g, <1>p, <2>u, <2>3 DEF Emptying
  <2> QED
    BY <1>5, <2>1, <2>2, <2>3 DEF RemoveTarget
<1>6. CASE CopyOne(r)
  <2>1. commit[r].pc = "copy" /\ UNCHANGED <<shared, remover, boot>>
    BY <1>6 DEF CopyOne
  <2>2. commit'[r].pc \in Copying \union {"failed"} /\ \A q \in Bundles : q # r => commit'[q] = commit[q]
    BY <1>6, CopyOutcome DEF MovesTo
  <2>3. Filling(r) /\ \A t \in Slugs : t # SlugOf[r] => dir'[t] = dir[t]
    BY <1>6, <2>1, <2>2, CopyOutcome DEF Filling
  <2> QED
    BY <2>1, <2>2, <2>3
<1>7. CASE FingerprintDir(r)
  <2>1. PICK pc \in {"meta", "failed"} : Goto(r, pc)
    BY <1>7 DEF FingerprintDir
  <2>2. commit[r].pc = "fingerprint" /\ UNCHANGED <<dir, brought, shared, remover, boot>>
    BY <1>7 DEF FingerprintDir
  <2> QED
    BY <1>g, <1>p, <2>1, <2>2 DEF Filling
<1>8. CASE WriteMeta(r)
  <2>1. commit[r].pc = "meta" /\ UNCHANGED <<shared, remover, boot>>
    BY <1>8 DEF WriteMeta
  <2>2. commit'[r].pc \in {"lock", "failed"} /\ \A q \in Bundles : q # r => commit'[q] = commit[q]
    BY <1>8, MetaOutcome DEF MovesTo
  <2>3. (Filling(r) \/ Describing(r)) /\ \A t \in Slugs : t # SlugOf[r] => dir'[t] = dir[t]
    <3>1. CASE UNCHANGED <<dir, brought>> /\ commit'[r].pc = "failed"
      BY <2>1, <3>1 DEF Filling
    <3>2. CASE ~(UNCHANGED <<dir, brought>> /\ commit'[r].pc = "failed")
      BY <1>8, <2>1, <2>2, <3>2, MetaOutcome DEF Describing
    <3> QED
      BY <3>1, <3>2
  <2> QED
    BY <2>1, <2>2, <2>3
<1>9. CASE ReadLock(r)
  <2>1. "unlock" \in CommitPcs /\ lock \in Snapshot
    BY DEF CommitPcs, SkillTypeOK
  <2>2. MovesTo(r, "unlock", commit[r].at, lock)
    BY <1>9, <1>t, <2>1, CommitMoves DEF ReadLock
  <2> QED
    BY <1>9, <2>2 DEF ReadLock, MovesTo, Emptying
<1>10. CASE WriteLock(r)
  <2>1. PICK pc \in {"cleanup", "failed"} : commit' = [commit EXCEPT ![r].pc = pc, ![r].saw = <<>>]
    BY <1>10 DEF WriteLock
  <2>2. <<>> \in Snapshot \union {<<>>} /\ pc \in CommitPcs
    BY DEF CommitPcs
  <2>3. MovesTo(r, pc, commit[r].at, <<>>)
    BY <1>t, <2>1, <2>2, CommitMoves
  <2> QED
    BY <1>10, <2>3 DEF WriteLock, MovesTo, Emptying
<1>11. CASE DropStaging(r)
  BY <1>11, <1>g, <1>p DEF DropStaging, Emptying
<1>12. CASE ScanAfterCommit(r)
  <2>1. "publish" \in CommitPcs /\ LoadAll \in Snapshot
    BY LoadAllTyped DEF CommitPcs
  <2>2. MovesTo(r, "publish", commit[r].at, LoadAll)
    BY <1>12, <1>t, <2>1, CommitMoves DEF ScanAfterCommit
  <2> QED
    BY <1>12, <2>2 DEF ScanAfterCommit, MovesTo, Emptying
<1>13. CASE PublishAfterCommit(r)
  <2>1. <<>> \in Snapshot \union {<<>>}
    OBVIOUS
  <2>2. MovesTo(r, "done", commit[r].at, <<>>)
    BY <1>13, <1>t, <1>p, <2>1, CommitMoves DEF PublishAfterCommit
  <2> QED
    BY <1>13, <2>2 DEF PublishAfterCommit, MovesTo, Emptying
<1> QED
  BY <1>1, <1>2, <1>3, <1>4, <1>5, <1>6, <1>7, <1>8, <1>9, <1>10, <1>11, <1>12, <1>13 DEF CommitStep

(* Who changes a directory, and when nobody else does. *)
LEMMA ChangingIs ==
  /\ \A s, x : x \in Changing(s) <=> \/ x \in Bundles /\ SlugOf[x] = s /\ commit[x].pc \in Busy
                                     \/ x \in Removers /\ remover[x].pc = "remove" /\ remover[x].at = s
  /\ Bundles \cap Removers = {}
BY SkillInstallAssumption DEF Changing, Busy

LEMMA ChangingPrimed ==
  \A s, x : x \in Changing(s)' <=> \/ x \in Bundles /\ SlugOf[x] = s /\ commit'[x].pc \in Busy
                                   \/ x \in Removers /\ remover'[x].pc = "remove" /\ remover'[x].at = s
BY DEF Changing, Busy

(* A directory that keeps its files and gets no new goroutine. *)
LEMMA DirKept ==
  ASSUME NEW s \in Slugs, DirInv(s),
         \A e \in Entries : dir'[s].has[e] = dir[s].has[e],
         s \in brought' <=> s \in brought,
         Changing(s)' \subseteq Changing(s),
         \A r \in Bundles : SlugOf[r] = s /\ commit'[r].pc \in Copying => commit[r].pc \in Copying,
         \A r \in Bundles : SlugOf[r] = s /\ commit[r].pc \in Copying \union {"failed"}
                              => commit'[r].pc \in Copying \union {"failed"},
         boot'.pc = "system" /\ boot'.at > 0 /\ boot'.slug = s => Holds(s, System) /\ Whole(s) /\ ~Described(s)
  PROVE  DirInv(s)'
<1>1. \A v : Holds(s, v) => Holds(s, v)'
  BY DEF Holds
<1>2. OneChanger(s)'
  BY DEF DirInv, OneChanger
<1>3. (Whole(s) => Whole(s)') /\ (Described(s)' <=> Described(s))
  BY SkillNames DEF Whole, Described
<1>4. Unfinished(s) => Unfinished(s)'
  BY SkillNames, SkillInstallAssumption DEF Unfinished
<1> QED
  BY <1>1, <1>2, <1>3, <1>4 DEF DirInv

LEMMA VersionCommitStep ==
  ASSUME SkillTypeOK, VersionInv, NEW r \in Bundles, CommitStep(r)
  PROVE  VersionInv'
<1> USE SkillNames
<1> DEFINE own == SlugOf[r]
<1>1. /\ \A q \in Bundles : q # r => commit'[q] = commit[q]
      /\ \A t \in Slugs : t # own => dir'[t] = dir[t]
      /\ UNCHANGED <<remover, boot>> /\ boot.pc # "system"
  BY CommitSummary DEF VersionInv, Idle
<1>s. shared \subseteq shared'
  BY CommitSummary DEF Sharing, Emptying
<1>c. \A t : r \notin Changing(t)' => Changing(t)' \subseteq Changing(t)
  <2> SUFFICES ASSUME NEW t, NEW x \in Changing(t)', r \notin Changing(t)' PROVE x \in Changing(t)
    OBVIOUS
  <2>1. x # r
    OBVIOUS
  <2> QED
    BY <1>1, <2>1, ChangingIs, ChangingPrimed
<1>f. commit[r].pc # "failed"
  BY CommitSummary
<1>b. brought' = brought \/ (brought \ {own} \subseteq brought' /\ brought' \subseteq brought \union {own})
  BY CommitSummary DEF Filling, Describing
<1>2. ASSUME NEW t \in Slugs \ shared', t # own PROVE DirInv(t)'
  <2>1. DirInv(t)
    BY <1>s DEF VersionInv
  <2>2. r \notin Changing(t)'
    BY <1>2, ChangingIs, ChangingPrimed
  <2>3. dir'[t] = dir[t] /\ (t \in brought' <=> t \in brought)
    BY <1>1, <1>2, <1>b
  <2>4. \A q \in Bundles : SlugOf[q] = t => commit'[q] = commit[q]
    BY <1>1, <1>2
  <2> HIDE DEF own
  <2> QED
    BY <1>1, <1>c, <2>1, <2>2, <2>3, <2>4, DirKept
<1>3. ASSUME own \notin shared' PROVE DirInv(own)'
  <2>1. DirInv(own) /\ own \in Slugs
    BY <1>3, <1>s DEF VersionInv
  (* Whoever left the metadata that is in force is not this commit. *)
  <2>m. ASSUME commit[r].pc \notin Copying, dir'[own].has["_meta.json"] = dir[own].has["_meta.json"], Unfinished(own)
        PROVE  Unfinished(own)'
    <3>1. PICK q \in Carriers : /\ dir[own].has["_meta.json"] = q /\ SlugOf[q] = own
                                /\ commit[q].pc \in Copying \union {"failed"}
      BY <2>m DEF Unfinished
    <3>2. q \in Bundles /\ q # r
      BY <1>f, <2>m, <3>1, SkillInstallAssumption
    <3>3. commit'[q] = commit[q]
      BY <1>1, <3>2
    <3> QED
      BY <2>m, <3>1, <3>3 DEF Unfinished
  <2>2. CASE dir' = dir /\ brought' = brought /\ commit[r].pc \notin Copying /\ commit'[r].pc \notin Busy
    <3>1. r \notin Changing(own)'
      BY <2>2, ChangingIs, ChangingPrimed
    <3>2. \A q \in Bundles : SlugOf[q] = own /\ commit'[q].pc \in Copying => commit[q].pc \in Copying
      BY <1>1, <2>2 DEF Busy, Copying
    <3>3. \A q \in Bundles : SlugOf[q] = own /\ commit[q].pc \in Copying \union {"failed"}
                               => commit'[q].pc \in Copying \union {"failed"}
      BY <1>1, <1>f, <2>2
    <3> HIDE DEF own
    <3> QED
      BY <1>1, <1>c, <2>1, <2>2, <3>1, <3>2, <3>3, DirKept
  <2>3. CASE /\ dir' = dir /\ brought' = brought /\ Sharing(own)
             /\ commit[r].pc = "clear" /\ commit'[r].pc = "remove"
    <3>1. Changing(own) = {}
      BY <1>3, <2>3 DEF Sharing
    <3>2. \A x \in Changing(own)' : x = r
      BY <1>1, <3>1, ChangingIs, ChangingPrimed
    <3>3. OneChanger(own)'
      BY <3>2 DEF OneChanger
    <3>4. \A q \in Bundles : SlugOf[q] = own => commit'[q].pc \notin Copying
      BY <2>3, <3>2, ChangingPrimed DEF Busy, Copying
    <3>5. \E v \in Versions : Holds(own, v)'
      BY <2>1, <2>3 DEF DirInv, Holds
    <3>6. Described(own)' => IF own \in brought' THEN Unfinished(own)' ELSE Whole(own)'
      <4>1. commit[r].pc \notin Copying
        BY <2>3 DEF Copying
      <4>2. (Described(own)' => Described(own)) /\ (Whole(own) => Whole(own)')
        BY <2>3 DEF Described, Whole
      <4> HIDE DEF own
      <4> QED
        BY <2>1, <2>3, <2>m, <4>1, <4>2 DEF DirInv
    <3> HIDE DEF own
    <3> QED
      BY <1>1, <3>3, <3>4, <3>5, <3>6 DEF DirInv
  (* The commit is the only one that changes its directory. *)
  <2>4. ASSUME commit[r].pc \in Busy, NEW v \in Versions, Holds(own, v)',
               commit'[r].pc \in Copying => Holds(own, r)' /\ Whole(own)' /\ (Described(own)' => own \in brought'),
               Described(own)' => IF own \in brought' THEN Unfinished(own)' ELSE Whole(own)'
        PROVE  DirInv(own)'
    <3>1. r \in Changing(own)
      BY <2>4, ChangingIs
    <3>2. \A x \in Changing(own) : x = r
      BY <2>1, <3>1 DEF DirInv, OneChanger
    <3>3. \A x \in Changing(own)' : x = r
      BY <1>1, <3>2, ChangingIs, ChangingPrimed
    <3>4. OneChanger(own)'
      BY <3>3 DEF OneChanger
    <3>5. \A q \in Bundles : SlugOf[q] = own /\ commit'[q].pc \in Copying => q = r
      BY <3>3, ChangingPrimed DEF Busy, Copying
    <3> HIDE DEF own
    <3> QED
      BY <1>1, <2>4, <3>4, <3>5 DEF DirInv
  <2>5. CASE /\ commit[r].pc = "remove" /\ commit'[r].pc = "remove" /\ brought' = brought
             /\ \A e \in Entries : dir'[own].has[e] \in {dir[own].has[e], Absent}
    <3>1. PICK v \in Versions : Holds(own, v)
      BY <2>1 DEF DirInv
    <3>2. Holds(own, v)'
      BY <2>5, <3>1 DEF Holds
    <3>3. Described(own)' => IF own \in brought' THEN Unfinished(own)' ELSE Whole(own)'
      <4> HAVE Described(own)'
      <4>1. commit[r].pc \notin Copying
        BY <2>5 DEF Copying
      <4>2. dir'[own].has["_meta.json"] = dir[own].has["_meta.json"] /\ Described(own)
        BY <2>5, SkillNames DEF Described
      <4>3. Whole(own) => Whole(own)'
        BY <2>5, SkillNames DEF Whole
      <4> HIDE DEF own
      <4> QED
        BY <2>1, <2>5, <2>m, <4>1, <4>2, <4>3 DEF DirInv
    <3> QED
      BY <2>4, <2>5, <3>2, <3>3 DEF Busy, Copying
  <2>6. CASE commit[r].pc = "remove" /\ \A e \in Entries : dir'[own].has[e] = Absent
    <3>1. Holds(own, r)' /\ r \in Versions /\ Whole(own)' /\ ~Described(own)'
      BY <2>6, SkillNames DEF Holds, Whole, Described
    <3> QED
      BY <2>4, <2>6, <3>1 DEF Busy
  (* What holds while the files are copied. *)
  <2>c. ASSUME commit[r].pc \in Copying
        PROVE  /\ Holds(own, r) /\ Whole(own) /\ (Described(own) => own \in brought /\ r \in Carriers)
               /\ commit[r].pc \in Busy
    <3>1. Holds(own, r) /\ Whole(own) /\ (Described(own) => own \in brought /\ Unfinished(own))
      BY <2>1, <2>c DEF DirInv
    <3>2. Described(own) => r \in Carriers
      BY <3>1, SkillNames DEF Unfinished, Holds, Described
    <3> QED
      BY <2>c, <3>1, <3>2 DEF Busy, Copying
  <2>7. CASE Filling(r)
    <3>1. /\ commit[r].pc \in Copying /\ commit'[r].pc \in Copying \union {"failed"}
          /\ \A e \in Entries : dir'[own].has[e] \in {dir[own].has[e], r, Torn}
          /\ commit'[r].pc # "failed" => \A e \in Entries : dir'[own].has[e] \in {dir[own].has[e], r}
          /\ brought \subseteq brought'
          /\ dir'[own].has["_meta.json"] # dir[own].has["_meta.json"] => own \in brought' /\ r \in Carriers
      BY <2>7 DEF Filling
    <3>2. Holds(own, r)' /\ r \in Versions
      BY <2>c, <3>1, SkillNames DEF Holds
    <3>3. commit'[r].pc \in Copying => Whole(own)'
      <4> HAVE commit'[r].pc \in Copying
      <4>1. \A e \in Entries : dir'[own].has[e] \in {dir[own].has[e], r}
        BY <3>1 DEF Copying
      <4> QED
        BY <2>c, <3>1, <4>1, SkillNames DEF Whole
    <3>4. Described(own)' => own \in brought' /\ Unfinished(own)'
      <4> HAVE Described(own)'
      <4>1. dir'[own].has["_meta.json"] = r
        BY <3>2, SkillNames DEF Holds, Described
      <4>2. own \in brought' /\ r \in Carriers
        <5>1. CASE dir'[own].has["_meta.json"] # dir[own].has["_meta.json"]
          BY <3>1, <5>1
        <5>2. CASE dir'[own].has["_meta.json"] = dir[own].has["_meta.json"]
          <6>1. Described(own)
            BY <4>1, <5>2, SkillNames DEF Described
          <6> QED
            BY <2>c, <3>1, <6>1
        <5> QED
          BY <5>1, <5>2
      <4> QED
        BY <3>1, <4>1, <4>2 DEF Unfinished
    <3> QED
      BY <2>4, <2>c, <3>1, <3>2, <3>3, <3>4
  <2>8. CASE Describing(r)
    <3>1. /\ commit[r].pc \in Copying /\ commit'[r].pc \notin Copying /\ own \notin brought'
          /\ \A e \in Entries : dir'[own].has[e] = IF e = "_meta.json" THEN r ELSE dir[own].has[e]
      BY <2>8 DEF Describing, Busy, Copying
    <3>2. Holds(own, r)' /\ r \in Versions /\ Whole(own)'
      BY <2>c, <3>1, SkillNames DEF Holds, Whole
    <3> QED
      BY <2>4, <2>c, <3>1, <3>2
  <2> QED
    BY <2>2, <2>3, <2>5, <2>6, <2>7, <2>8, CommitSummary DEF Emptying
<1>4. \A t \in Slugs \ shared' : DirInv(t)'
  BY <1>2, <1>3
<1> QED
  BY <1>1, <1>4 DEF VersionInv

LEMMA VersionStep ==
  SkillTypeOK /\ VersionInv /\ [SkillNext]_skillVars => VersionInv'
<1> SUFFICES ASSUME SkillTypeOK, VersionInv, [SkillNext]_skillVars PROVE VersionInv'
  OBVIOUS
<1> USE SkillNames
<1>t. \A u \in Removers :
        /\ remover[u].at \in Slugs \union {Absent} /\ remover[u].saw \in Snapshot \union {<<>>}
        /\ remover[u].pc = "remove" => remover[u].at \in Slugs
  BY DEF SkillTypeOK, Removals
<1>1. ASSUME NEW r \in Bundles, CommitStep(r) PROVE VersionInv'
  BY <1>1, VersionCommitStep
<1>2. ASSUME NEW u \in Removers, NEW s \in Slugs, Uninstall(u, s) PROVE VersionInv'
  <2>1. RemovesTo(u, "remove", s, <<>>)
    BY <1>2, RemoverMoves DEF Uninstall
  <2>2. UNCHANGED <<commit, dir, brought, boot>> /\ boot.pc = "up" /\ remover[u].pc = "none" /\ Sharing(s)
    BY <1>2 DEF Uninstall
  <2>3. ASSUME NEW t \in Slugs \ shared' PROVE DirInv(t)'
    <3>1. DirInv(t)
      BY <2>2, <2>3 DEF VersionInv, Sharing
    <3>2. CASE t # s
      <4>1. Changing(t)' \subseteq Changing(t)
        BY <2>1, <2>2, <3>2, ChangingIs, ChangingPrimed DEF RemovesTo
      <4> QED
        BY <2>2, <3>1, <4>1, DirKept
    <3>3. CASE t = s
      <4>1. Changing(s) = {}
        BY <2>2, <2>3, <3>3 DEF Sharing
      <4>2. \A x \in Changing(s)' : x = u
        BY <2>1, <2>2, <4>1, ChangingIs, ChangingPrimed DEF RemovesTo
      <4>3. OneChanger(t)'
        BY <3>3, <4>2 DEF OneChanger
      <4>4. /\ \A v : Holds(t, v) <=> Holds(t, v)'
            /\ Whole(t)' = Whole(t) /\ Described(t)' = Described(t) /\ Unfinished(t)' = Unfinished(t)
        BY <2>2 DEF Holds, Whole, Described, Unfinished
      <4> QED
        BY <2>2, <3>1, <4>3, <4>4 DEF DirInv
    <3> QED
      BY <3>2, <3>3
  <2> QED
    BY <2>2, <2>3 DEF VersionInv
<1>3. ASSUME NEW u \in Removers, UninstallStep(u) PROVE VersionInv'
  <2>u. UNCHANGED <<commit, brought, shared, boot>>
    BY <1>3 DEF UninstallStep
  <2>b. boot.pc # "system"
    BY <1>3 DEF UninstallStep, VersionInv
  <2>t. remover[u].at \in Slugs \union {Absent} /\ remover[u].saw \in Snapshot \union {<<>>}
    BY <1>t
  (* Steps that end or follow the removal. *)
  <2>1. ASSUME NEW pc \in {"refresh", "publish", "done"}, NEW at, NEW saw, RemovesTo(u, pc, at, saw), UNCHANGED dir
        PROVE  VersionInv'
    <3>1. \A t : Changing(t)' \subseteq Changing(t)
      BY <2>u, <2>1, ChangingIs, ChangingPrimed DEF RemovesTo
    <3>2. \A t \in Slugs \ shared' : DirInv(t)'
      BY <2>u, <2>b, <2>1, <3>1, DirKept DEF VersionInv
    <3> QED
      BY <2>u, <2>b, <3>2 DEF VersionInv
  (* The directory loses entries, and no commit is at it. *)
  <2>2. ASSUME NEW s \in Slugs, remover[u].pc = "remove", remover[u].at = s,
               \A t : Changing(t)' \subseteq Changing(t),
               \A e \in Entries : dir'[s].has[e] \in {dir[s].has[e], Absent},
               \A t \in Slugs : t # s => dir'[t] = dir[t]
        PROVE  VersionInv'
    <3>1. ASSUME NEW t \in Slugs \ shared', t # s PROVE DirInv(t)'
      <4>1. DirInv(t) /\ dir'[t] = dir[t]
        BY <2>u, <2>2, <3>1 DEF VersionInv
      <4> QED
        BY <2>u, <2>b, <2>2, <4>1, DirKept
    <3>2. ASSUME s \notin shared' PROVE DirInv(s)'
      <4>1. DirInv(s) /\ u \in Changing(s)
        BY <2>u, <2>2, <3>2, ChangingIs DEF VersionInv
      <4>2. \A r \in Bundles : SlugOf[r] = s => commit[r].pc \notin Copying
        <5> SUFFICES ASSUME NEW r \in Bundles, SlugOf[r] = s, commit[r].pc \in Copying PROVE FALSE
          OBVIOUS
        <5>1. r \in Changing(s)
          BY ChangingIs DEF Busy, Copying
        <5>2. r = u
          BY <4>1, <5>1 DEF DirInv, OneChanger
        <5> QED
          BY <5>2, ChangingIs
      <4>3. OneChanger(s)'
        BY <2>2, <4>1 DEF DirInv, OneChanger
      <4>4. PICK v \in Versions : Holds(s, v)
        BY <4>1 DEF DirInv
      <4>5. Holds(s, v)'
        BY <2>2, <4>4 DEF Holds
      <4>6. Described(s)' => IF s \in brought' THEN Unfinished(s)' ELSE Whole(s)'
        <5> HAVE Described(s)'
        <5>1. dir'[s].has["_meta.json"] = dir[s].has["_meta.json"] /\ Described(s)
          BY <2>2, SkillNames DEF Described
        <5>2. Whole(s) => Whole(s)'
          BY <2>2, SkillNames DEF Whole
        <5>3. Unfinished(s) => Unfinished(s)'
          BY <2>u, <5>1 DEF Unfinished
        <5> QED
          BY <2>u, <4>1, <5>1, <5>2, <5>3 DEF DirInv
      <4> QED
        BY <2>u, <2>b, <4>2, <4>3, <4>5, <4>6 DEF DirInv
    <3>3. \A t \in Slugs \ shared' : DirInv(t)'
      BY <3>1, <3>2
    <3> QED
      BY <2>u, <2>b, <3>3 DEF VersionInv
  <2>3. CASE remover[u].pc = "remove" /\ RemoveOne(remover[u].at) /\ UNCHANGED remover
    <3>1. PICK s \in Slugs : s = remover[u].at
      BY <1>t, <2>3
    <3>2. \A t : Changing(t)' \subseteq Changing(t)
      BY <2>u, <2>3, ChangingIs, ChangingPrimed
    <3> QED
      BY <2>2, <2>3, <3>1, <3>2, RemoveMoves
  <2>4. CASE /\ remover[u].pc = "remove" /\ dir' = [dir EXCEPT ![remover[u].at] = NoDir]
             /\ remover' = [remover EXCEPT ![u].pc = "refresh"]
    <3>1. PICK s \in Slugs : s = remover[u].at
      BY <1>t, <2>4
    <3>2. RemovesTo(u, "refresh", remover[u].at, remover[u].saw)
      BY <2>t, <2>4, RemoverMoves
    <3>3. \A t : Changing(t)' \subseteq Changing(t)
      BY <2>u, <3>2, ChangingIs, ChangingPrimed DEF RemovesTo
    <3> QED
      BY <2>2, <2>4, <3>1, <3>3, ClearMoves
  <2>5. CASE remover' = [remover EXCEPT ![u].pc = "done"] /\ UNCHANGED dir
    <3>1. RemovesTo(u, "done", remover[u].at, remover[u].saw)
      BY <2>t, <2>5, RemoverMoves
    <3> QED
      BY <2>1, <2>5, <3>1
  <2>6. CASE remover' = [remover EXCEPT ![u].pc = "publish", ![u].saw = LoadAll] /\ UNCHANGED dir
    <3>1. RemovesTo(u, "publish", remover[u].at, LoadAll)
      BY <2>t, <2>6, RemoverMoves, LoadAllTyped
    <3> QED
      BY <2>1, <2>6, <3>1
  <2>7. CASE remover' = [remover EXCEPT ![u].pc = "done", ![u].saw = <<>>] /\ UNCHANGED dir
    <3>1. <<>> \in Snapshot \union {<<>>}
      OBVIOUS
    <3>2. RemovesTo(u, "done", remover[u].at, <<>>)
      BY <2>t, <2>7, <3>1, RemoverMoves
    <3> QED
      BY <2>1, <2>7, <3>2
  <2> QED
    BY <1>3, <2>3, <2>4, <2>5, <2>6, <2>7 DEF UninstallStep
<1>4. ASSUME NEW s \in Slugs, InstallOneSystemSkill(s) PROVE VersionInv'
  <2>1. UNCHANGED <<commit, shared, remover>>
    BY <1>4 DEF InstallOneSystemSkill
  <2>2. \A r \in Bundles : commit[r].pc \in {"none", "staged", "done", "failed"}
    BY <1>4, InstallMoves DEF VersionInv
  <2>3. \A u \in Removers : remover[u].pc \in {"none", "done"}
    BY <1>4, InstallMoves DEF VersionInv
  <2>4. \A t : Changing(t)' = {}
    BY <2>1, <2>2, <2>3, ChangingPrimed DEF Busy
  <2>c. \A r \in Bundles : commit'[r].pc \notin Copying /\ commit[r].pc \notin Copying
    BY <2>1, <2>2 DEF Copying
  <2>5. /\ boot'.at > 0 => boot'.slug = s
        /\ \A t \in Slugs : t # s => dir'[t] = dir[t]
        /\ boot.pc = "system" /\ (boot.at = 0 \/ boot.at > 0)
        /\ \A t \in Slugs : t # s => (t \in brought' <=> t \in brought)
    BY <1>4, InstallMoves
  <2>6. ASSUME NEW t \in Slugs \ shared' PROVE DirInv(t)'
    <3>1. DirInv(t) /\ OneChanger(t)'
      BY <2>1, <2>4 DEF VersionInv, OneChanger
    <3>k. ASSUME \A e \in Entries : dir'[t].has[e] = dir[t].has[e], t \in brought' <=> t \in brought,
                 boot'.pc = "system" /\ boot'.at > 0 /\ boot'.slug = t => Holds(t, System) /\ Whole(t) /\ ~Described(t)
          PROVE  DirInv(t)'
      BY <2>1, <2>4, <3>1, <3>k, DirKept
    <3>2. CASE t # s
      BY <2>5, <3>2, <3>k
    <3>3. CASE /\ t = s /\ boot.at = 0 /\ dir'[s].has = dir[s].has /\ (boot'.at > 0 => ~dir[s].made)
               /\ brought' = brought
      <4>1. ASSUME boot'.at > 0 PROVE Holds(t, System) /\ Whole(t) /\ ~Described(t)
        <5>1. dir[s] = NoDir
          BY <3>3, <4>1 DEF SkillTypeOK
        <5>2. dir[s].has = [e \in Entries |-> Absent]
          BY <5>1 DEF NoDir
        <5>3. \A e \in Entries : dir[t].has[e] = Absent
          BY <3>3, <5>2
        <5> QED
          BY <5>3, SkillNames DEF Holds, Whole, Described
      <4> QED
        BY <3>3, <3>k, <4>1
    (* The start is installing the skill. *)
    <3>4. CASE t = s /\ boot.at > 0 /\ boot.slug = s /\ brought' = brought \ {s}
      <4>1. Holds(s, System) /\ Whole(s) /\ ~Described(s)
        BY <2>5, <3>1, <3>4 DEF DirInv
      <4>2. CASE /\ \A e \in Entries : dir'[s].has[e] \in {System, dir[s].has[e]}
                 /\ dir'[s].has["_meta.json"] = dir[s].has["_meta.json"] \/ boot'.at = 0
        <5>1. Holds(s, System)' /\ Whole(s)'
          BY <4>1, <4>2, SkillNames DEF Holds, Whole, Versions
        <5>2. boot'.at > 0 => ~Described(s)'
          <6>1. boot'.at = 0 => ~(boot'.at > 0)
            OBVIOUS
          <6> QED
            BY <4>1, <4>2, <6>1 DEF Described
        <5> QED
          BY <2>1, <2>c, <3>1, <3>4, <5>1, <5>2, SkillNames DEF DirInv
      <4>3. CASE /\ \A e \in Entries : dir'[s].has[e] \in {Torn, dir[s].has[e]}
                 /\ dir'[s].has["_meta.json"] = dir[s].has["_meta.json"] /\ boot'.at = 0
        <5>1. Holds(s, System)' /\ ~Described(s)' /\ ~(boot'.at > 0)
          BY <4>1, <4>3 DEF Holds, Described
        <5> QED
          BY <2>1, <2>c, <3>1, <3>4, <5>1, SkillNames DEF DirInv
      <4> QED
        BY <1>4, <3>4, <4>2, <4>3, InstallMoves
    <3> QED
      BY <1>4, <3>2, <3>3, <3>4, InstallMoves
  <2> QED
    BY <2>1, <2>2, <2>3, <2>6 DEF VersionInv
<1>5. CASE InstallSystemSkills
  <2>1. UNCHANGED <<commit, dir, brought, shared, remover>> /\ boot' = [boot EXCEPT !.pc = "up"]
    BY <1>5 DEF InstallSystemSkills
  <2>2. boot'.pc = "up"
    BY <2>1 DEF SkillTypeOK, Boot
  <2>3. \A t : Changing(t)' \subseteq Changing(t)
    BY <2>1, ChangingIs, ChangingPrimed
  <2>4. \A t \in Slugs \ shared' : DirInv(t)'
    BY <2>1, <2>2, <2>3, DirKept DEF VersionInv
  <2> QED
    BY <2>2, <2>4 DEF VersionInv
<1>6. CASE DaemonDies
  <2>1. UNCHANGED <<brought, shared>>
    BY <1>6 DEF DaemonDies
  <2>2. /\ \A r \in Bundles : commit'[r].pc \in {"none", "staged", "done", "failed"}
        /\ \A r \in Bundles : commit[r].pc \in Copying \union {"failed"} => commit'[r].pc = "failed"
        /\ \A u \in Removers : remover'[u].pc \in {"none", "done"}
        /\ boot'.at = 0
    BY <1>6, DeathMoves DEF Copying
  <2>3. \A t : Changing(t)' = {}
    BY <2>2, ChangingPrimed DEF Busy
  <2>c. (\A r \in Bundles : commit'[r].pc \notin Copying) /\ ~(boot'.at > 0)
    BY <2>2 DEF Copying
  <2>4. ASSUME NEW t \in Slugs \ shared', dir'[t] = dir[t] PROVE DirInv(t)'
    BY <2>1, <2>2, <2>3, <2>4, <2>c, DirKept DEF VersionInv
  (* A file torn by the crash was being written, over files of one version
     and with no metadata there but one that the bundle brought. *)
  <2>5. ASSUME NEW s \in Slugs \ shared', NEW f \in Entries, Writing(s, f),
               \A e \in Entries : dir'[s].has[e] = IF e = f THEN Torn ELSE dir[s].has[e]
        PROVE  DirInv(s)'
    <3>1. DirInv(s)
      BY <2>1, <2>5 DEF VersionInv
    <3>2. (\E v \in Versions : Holds(s, v)) /\ (Described(s) => s \in brought)
      <4>1. CASE boot.pc = "system" /\ boot.slug = s /\ boot.at \in DOMAIN Files
        <5>1. boot.at > 0
          BY <4>1, SkillNames
        <5> QED
          BY <3>1, <4>1, <5>1, SkillNames DEF DirInv
      <4>2. CASE \E r \in Bundles : SlugOf[r] = s /\ commit[r].pc = "copy"
        BY <3>1, <4>2, SkillNames DEF DirInv, Copying
      <4> QED
        BY <2>5, <4>1, <4>2 DEF Writing
    <3>3. \A v : Holds(s, v) => Holds(s, v)'
      BY <2>5 DEF Holds
    <3>4. Described(s)' => s \in brought' /\ Unfinished(s)'
      <4> HAVE Described(s)'
      <4>1. dir'[s].has["_meta.json"] = dir[s].has["_meta.json"] /\ Described(s)
        BY <2>5, SkillNames DEF Described
      <4>2. s \in brought' /\ Unfinished(s)
        BY <2>1, <3>1, <3>2, <4>1 DEF DirInv
      <4> QED
        BY <2>2, <4>1, <4>2, SkillInstallAssumption DEF Unfinished
    <3>5. OneChanger(s)'
      BY <2>3 DEF OneChanger
    <3> QED
      BY <2>c, <3>2, <3>3, <3>4, <3>5 DEF DirInv
  <2>6. ASSUME NEW t \in Slugs \ shared' PROVE DirInv(t)'
    BY <1>6, <2>4, <2>5, DeathMoves
  <2> QED
    BY <2>2, <2>6 DEF VersionInv
<1>7. CASE UNCHANGED skillVars
  BY <1>7 DEF skillVars, VersionInv, DirInv, OneChanger, Changing, Holds, Whole, Described, Unfinished
<1> QED
  BY <1>1, <1>2, <1>3, <1>4, <1>5, <1>6, <1>7 DEF SkillNext

LEMMA VersionSound == VersionInv => LoadedIsOneVersion
<1> SUFFICES ASSUME VersionInv, NEW s \in Slugs \ shared, LoadOne(s)
             PROVE  LET v == dir[s].has["_meta.json"]
                    IN IF s \in brought
                         THEN /\ v \in Carriers /\ commit[v].pc \in Copying \union {"failed"}
                              /\ \A e \in Entries : dir[s].has[e] \in {v, Absent, Torn}
                         ELSE \A e \in Entries : dir[s].has[e] \in {v, Absent}
  BY DEF LoadedIsOneVersion, Copying
<1>1. DirInv(s) /\ Described(s)
  BY DEF VersionInv, LoadOne, Described
<1>2. PICK v \in Versions : Holds(s, v)
  BY <1>1 DEF DirInv
<1>3. dir[s].has["_meta.json"] = v
  BY <1>1, <1>2, SkillNames DEF Holds, Described
<1>4. IF s \in brought THEN Unfinished(s) ELSE Whole(s)
  BY <1>1 DEF DirInv
<1> QED
  BY <1>2, <1>3, <1>4 DEF Holds, Whole, Unfinished

LEMMA SkillStart == SkillInit => SkillTypeOK /\ ApprovedInv /\ VersionInv
<1> SUFFICES ASSUME SkillInit PROVE SkillTypeOK /\ ApprovedInv /\ VersionInv
  OBVIOUS
<1> USE SkillNames DEF SkillInit
<1>1. /\ NoCommit \in Commits /\ NoCommit.pc = "none" /\ NoCommit.at = 0
      /\ NoRemoval \in Removals /\ NoRemoval.pc = "none" /\ NoDir \in Directory
      /\ Starting \in Boot /\ Starting.at = 0 /\ \A e \in Entries : NoDir.has[e] = Absent
  BY DEF NoCommit, NoRemoval, NoDir, Starting, Commits, CommitPcs, Removals, Directory, Boot
<1> HIDE DEF NoCommit, NoRemoval, NoDir, Starting
<1>2. SkillTypeOK
  <2>1. commit \in [Bundles -> Commits] /\ \A r \in Bundles : commit[r].pc = "none"
    BY <1>1
  <2>2. remover \in [Removers -> Removals] /\ \A u \in Removers : remover[u].pc = "none"
    BY <1>1
  <2>3. dir \in [Slugs -> Directory] /\ \A s \in Slugs : dir[s] = NoDir
    BY <1>1
  <2>4. ran \in [Bundles -> Nat] /\ \A r \in Bundles : ran[r] <= Proposed[r]
    <3>1. ran = [r \in Bundles |-> 0]
      OBVIOUS
    <3>2. \A r \in Bundles : Proposed[r] \in Nat
      BY SkillNames
    <3> HIDE SkillNames DEF SkillInit
    <3> QED
      BY <3>1, <3>2
  <2>5. lock \in Snapshot /\ registry \in Snapshot
    BY DEF Snapshot
  <2>6. faults \in 0 .. MaxFaults /\ deaths \in 0 .. MaxDeaths
    <3>1. faults = 0 /\ deaths = 0
      OBVIOUS
    <3> HIDE SkillNames DEF SkillInit
    <3> QED
      BY <3>1, SkillInstallAssumption
  <2>7. /\ staged \subseteq Bundles /\ shared \subseteq Slugs /\ brought \subseteq Slugs
        /\ decided \in [Bundles -> {"", "approve", "skip_binary", "deny"}]
        /\ boot \in Boot /\ boot.at = 0
    BY <1>1
  <2> HIDE SkillNames DEF SkillInit
  <2>8. \A r \in Bundles : ~(commit[r].pc \in {"unlock", "publish"})
    BY <2>1
  <2>9. \A u \in Removers : ~(remover[u].pc = "remove") /\ ~(remover[u].pc = "publish")
    BY <2>2
  <2>10. boot.at > 0 => boot.slug \in Slugs
    <3>1. boot.at = 0
      BY <2>7, Zenon
    <3>2. ~(0 > 0)
      OBVIOUS
    <3> QED
      BY <3>1, <3>2, Zenon
  <2> QED
    BY <2>1, <2>2, <2>3, <2>4, <2>5, <2>6, <2>7, <2>8, <2>9, <2>10 DEF SkillTypeOK
<1>3. ApprovedInv
  BY <1>1 DEF ApprovedInv, CommitInv
<1>4. VersionInv
  <2>1. \A s : Changing(s) = {}
    BY <1>1, ChangingIs DEF Busy
  <2> QED
    BY <1>1, <2>1 DEF VersionInv, DirInv, OneChanger, Holds, Whole, Described, Copying
<1> QED
  BY <1>2, <1>3, <1>4

(* Every variable of the installation keeps to its domain. *)
THEOREM SkillTypeCorrect == SkillSpec => []SkillTypeOK
BY SkillStart, SkillTypeStep, ApprovedStep, PTL DEF SkillSpec

(* No file of a request is in a skill directory and no version of it is in the
   registry unless the request was approved and every command of its card
   succeeded, or the commands were skipped and none ran - through any number of
   failures, crashes and installations at once. *)
THEOREM OnlyApproved == SkillSpec => []InstalledAsApproved
BY SkillStart, SkillTypeStep, ApprovedStep, ApprovedSound, PTL DEF SkillSpec

(* A directory that loads as a skill holds whole files of one version, the one
   its metadata records as approved, or what there is of a bundle that brought
   metadata of its own and whose installation has not ended well - unless two
   goroutines changed that directory at the same time. *)
THEOREM OneVersion == SkillSpec => []LoadedIsOneVersion
BY SkillStart, SkillTypeStep, ApprovedStep, VersionStep, VersionSound, PTL DEF SkillSpec

-----------------------------------------------------------------------------
(* Mail and calendar: what one step makes of a call *)

CallBecomes(c, k, n) ==
  call' = [call EXCEPT ![c] = k] /\ done' = [done EXCEPT ![c] = n]

LEMMA CallIs ==
  ASSUME GoogleTypeOK, HonestInv, NEW c \in Calls
  PROVE /\ call[c] \in Progress /\ call[c].try \in 0 .. MaxRetries /\ call[c].saw \in Nat
        /\ call[c].status \in Statuses
        /\ done[c] \in Nat /\ done[c] <= MaxRetries + 1
        /\ done = [done EXCEPT ![c] = done[c]]
        /\ MaxRetries \in Nat /\ Honest(c, call[c], done[c])
<1>1. call[c] \in Progress /\ done[c] \in 0 .. (MaxRetries + 1) /\ MaxRetries \in Nat
      /\ done = [done EXCEPT ![c] = done[c]]
  BY GoogleAssumption DEF GoogleTypeOK
<1>2. call[c].try \in 0 .. MaxRetries /\ call[c].saw \in Nat /\ call[c].status \in Statuses
  BY <1>1 DEF Progress
<1>3. Honest(c, call[c], done[c])
  BY DEF HonestInv
<1>4. done[c] \in Nat /\ done[c] <= MaxRetries + 1
  BY <1>1
<1> QED
  BY <1>1, <1>2, <1>3, <1>4

LEMMA AnswerIs ==
  ASSUME GoogleTypeOK, HonestInv, NEW c \in Calls, NEW status \in Statuses, Answer(c, status)
  PROVE \E k \in Progress :
          /\ call' = [call EXCEPT ![c] = k]
          /\ k.pc = "answered" /\ k.status = status /\ k.try = call[c].try /\ k.result = call[c].result
<1> DEFINE k == [call[c] EXCEPT !.pc = "answered", !.status = status]
<1>1. k \in Progress /\ k.pc = "answered" /\ k.status = status
      /\ k.try = call[c].try /\ k.result = call[c].result
  BY CallIs DEF Progress
<1>2. call' = [call EXCEPT ![c] = k]
  BY DEF Answer
<1> QED
  BY <1>1, <1>2

LEMMA MovesIs ==
  ASSUME GoogleTypeOK, HonestInv, NEW c \in Calls,
         NEW pc \in {"asked", "permitted", "try", "each", "reply"}, Moves(c, pc)
  PROVE \E k \in Progress :
          /\ call' = [call EXCEPT ![c] = k]
          /\ k.pc = pc /\ k.try = call[c].try /\ k.result = call[c].result
<1> DEFINE k == [call[c] EXCEPT !.pc = pc]
<1>1. k \in Progress /\ k.pc = pc /\ k.try = call[c].try /\ k.result = call[c].result
  BY CallIs DEF Progress
<1>2. call' = [call EXCEPT ![c] = k]
  BY DEF Moves
<1> QED
  BY <1>1, <1>2

(* What WithRetry leaves: an answer that tells the outcome, or one more
   attempt. *)
LEMMA WithRetryIs ==
  ASSUME GoogleTypeOK, HonestInv, NEW c \in Calls,
         NEW outcome \in {"ok", "fatal", "transient"}, WithRetry(c, outcome)
  PROVE /\ transients' \in 0 .. MaxTransient
        /\ \E k \in Progress :
             /\ call' = [call EXCEPT ![c] = k] /\ k.result = call[c].result
             /\ \/ k.pc = "answered" /\ k.status = 500 /\ k.try = call[c].try
                \/ /\ k.pc = "answered" /\ k.status = StatusOf(Op(c)) /\ outcome = "ok"
                   /\ k.try = call[c].try
                \/ k.pc = "try" /\ k.try = call[c].try + 1
<1>1. CASE outcome = "ok"
  <2>1. StatusOf(Op(c)) \in Statuses
    BY DEF StatusOf, Statuses
  <2>2. Answer(c, StatusOf(Op(c))) /\ UNCHANGED transients
    BY <1>1 DEF WithRetry
  <2>3. transients' \in 0 .. MaxTransient
    BY <2>2 DEF GoogleTypeOK
  <2> QED
    BY <1>1, <2>1, <2>2, <2>3, AnswerIs
<1>2. CASE outcome = "fatal"
  <2>1. 500 \in Statuses
    BY DEF Statuses
  <2>2. Answer(c, 500) /\ UNCHANGED transients
    BY <1>2 DEF WithRetry
  <2>3. transients' \in 0 .. MaxTransient
    BY <2>2 DEF GoogleTypeOK
  <2> QED
    BY <2>1, <2>2, <2>3, AnswerIs
<1>3. CASE outcome = "transient"
  <2>1. /\ transients < MaxTransient /\ transients' = transients + 1
        /\ IF call[c].try < MaxRetries
             THEN call' = [call EXCEPT ![c].pc = "try", ![c].try = @ + 1]
             ELSE Answer(c, 500)
    BY <1>3 DEF WithRetry
  <2>2. transients' \in 0 .. MaxTransient
    <3>1. transients \in 0 .. MaxTransient /\ MaxTransient \in Nat
      BY GoogleAssumption DEF GoogleTypeOK
    <3> QED
      BY <2>1, <3>1
  <2>3. CASE call[c].try < MaxRetries
    <3> DEFINE k == [call[c] EXCEPT !.pc = "try", !.try = @ + 1]
    <3>1. call[c].try + 1 \in 0 .. MaxRetries
      BY <2>3, CallIs
    <3>2. k \in Progress /\ k.pc = "try" /\ k.try = call[c].try + 1 /\ k.result = call[c].result
      BY <3>1, CallIs DEF Progress
    <3>3. call' = [call EXCEPT ![c] = k]
      BY <2>1, <2>3
    <3> QED
      BY <2>2, <3>2, <3>3
  <2>4. CASE ~(call[c].try < MaxRetries)
    <3>1. 500 \in Statuses
      BY DEF Statuses
    <3> QED
      BY <2>1, <2>2, <2>4, <3>1, AnswerIs
  <2> QED
    BY <2>3, <2>4
<1> QED
  BY <1>1, <1>2, <1>3

(* An attempt that does nothing at Google, successful or not. *)
LEMMA AttemptReads ==
  ASSUME GoogleTypeOK, HonestInv, NEW c \in Calls, call[c].pc \in {"try", "each", "reply", "put"},
         NEW outcome \in {"ok", "fatal", "transient"}, WithRetry(c, outcome), UNCHANGED done,
         outcome = "ok" => Op(c) \notin Writes
  PROVE \E k \in Progress, n \in 0 .. (MaxRetries + 1) : CallBecomes(c, k, n) /\ Honest(c, k, n)
<1>1. PICK k \in Progress :
        /\ call' = [call EXCEPT ![c] = k] /\ k.result = call[c].result
        /\ \/ k.pc = "answered" /\ k.status = 500 /\ k.try = call[c].try
           \/ /\ k.pc = "answered" /\ k.status = StatusOf(Op(c)) /\ outcome = "ok"
              /\ k.try = call[c].try
           \/ k.pc = "try" /\ k.try = call[c].try + 1
  BY WithRetryIs
<1>2. Honest(c, call[c], done[c]) /\ call[c].try \in Nat /\ done[c] \in Nat
  BY CallIs
<1>3. outcome = "ok" => StatusOf(Op(c)) = 200
  BY DEF StatusOf
<1>4. Honest(c, k, done[c])
  <2> DEFINE n == done[c]
  <2>1. /\ n \in Nat /\ n <= call[c].try /\ call[c].result = "none"
        /\ n >= 1 => Permitted(c)
        /\ Op(c) \in Writes => Permitted(c)
    BY <1>2 DEF Honest
  <2>2. n <= call[c].try + 1
    BY <1>2, <2>1
  <2> HIDE DEF n
  <2>3. /\ k.result = "none" /\ k.pc \in {"answered", "try"} /\ (k.pc = "try" => k.try = call[c].try + 1)
        /\ (k.pc = "answered" => k.status # 403)
        /\ (k.pc = "answered" /\ Op(c) \in Writes => k.status # 204)
    BY <1>1, <1>3, <2>1
  <2> QED
    BY <2>1, <2>2, <2>3 DEF Honest, n
<1>5. done' = [done EXCEPT ![c] = done[c]] /\ done[c] \in 0 .. (MaxRetries + 1)
  BY CallIs
<1> QED
  BY <1>1, <1>4, <1>5 DEF CallBecomes

(* An attempt that Google carries out, whatever it answers. *)
LEMMA AttemptWrites ==
  ASSUME GoogleTypeOK, HonestInv, NEW c \in Calls, call[c].pc \in {"try", "each", "reply", "put"},
         Op(c) \in Writes, done' = [done EXCEPT ![c] = @ + 1],
         NEW outcome \in {"ok", "fatal", "transient"}, WithRetry(c, outcome)
  PROVE \E k \in Progress, n \in 0 .. (MaxRetries + 1) : CallBecomes(c, k, n) /\ Honest(c, k, n)
<1>1. PICK k \in Progress :
        /\ call' = [call EXCEPT ![c] = k] /\ k.result = call[c].result
        /\ \/ k.pc = "answered" /\ k.status = 500 /\ k.try = call[c].try
           \/ /\ k.pc = "answered" /\ k.status = StatusOf(Op(c)) /\ outcome = "ok"
              /\ k.try = call[c].try
           \/ k.pc = "try" /\ k.try = call[c].try + 1
  BY WithRetryIs
<1>2. /\ Honest(c, call[c], done[c]) /\ call[c].try \in 0 .. MaxRetries /\ done[c] \in Nat
      /\ MaxRetries \in Nat
  BY CallIs
<1>3. done[c] <= call[c].try /\ Permitted(c) /\ call[c].result = "none"
  BY <1>2 DEF Honest
<1>4. done[c] + 1 \in 0 .. (MaxRetries + 1) /\ done[c] + 1 >= 1 /\ done[c] + 1 # 0
      /\ done[c] + 1 <= call[c].try + 1
  BY <1>2, <1>3
<1>5. StatusOf(Op(c)) = 204
  BY DEF StatusOf
<1>6. Honest(c, k, done[c] + 1)
  <2> DEFINE n == done[c] + 1
  <2>1. n \in Nat /\ n >= 1 /\ n # 0 /\ n <= call[c].try + 1
    BY <1>4
  <2> HIDE DEF n
  <2>2. k.result = "none" /\ k.pc \in {"answered", "try"} /\ (k.pc = "answered" => k.status # 403)
        /\ (k.pc = "try" => k.try = call[c].try + 1)
    BY <1>1, <1>3, <1>5
  <2> QED
    BY <1>3, <2>1, <2>2 DEF Honest, n
<1> QED
  BY <1>1, <1>4, <1>6 DEF CallBecomes

(* A step of a call that is not an attempt, or one that begins the next part
   of it, with nothing done. *)
LEMMA NothingDone ==
  ASSUME GoogleTypeOK, HonestInv, NEW c \in Calls, UNCHANGED done, NEW k \in Progress,
         call' = [call EXCEPT ![c] = k], Honest(c, k, done[c])
  PROVE \E j \in Progress, n \in 0 .. (MaxRetries + 1) : CallBecomes(c, j, n) /\ Honest(c, j, n)
<1>1. done' = [done EXCEPT ![c] = done[c]] /\ done[c] \in 0 .. (MaxRetries + 1)
  BY CallIs
<1> QED
  BY <1>1 DEF CallBecomes

LEMMA StoreIs ==
  ASSUME GoogleTypeOK, HonestInv, NEW c \in Calls, call[c].pc \in {"try", "reply", "put"},
         Op(c) \in Writes,
         \/ /\ done' = [done EXCEPT ![c] = @ + 1]
            /\ \E outcome \in {"ok", "fatal", "transient"} : WithRetry(c, outcome)
         \/ (WithRetry(c, "fatal") \/ WithRetry(c, "transient")) /\ UNCHANGED done
  PROVE \E k \in Progress, n \in 0 .. (MaxRetries + 1) : CallBecomes(c, k, n) /\ Honest(c, k, n)
<1>1. CASE /\ done' = [done EXCEPT ![c] = @ + 1]
           /\ \E outcome \in {"ok", "fatal", "transient"} : WithRetry(c, outcome)
  <2>1. PICK outcome \in {"ok", "fatal", "transient"} : WithRetry(c, outcome)
    BY <1>1
  <2> QED
    BY <1>1, <2>1, AttemptWrites
<1>2. CASE (WithRetry(c, "fatal") \/ WithRetry(c, "transient")) /\ UNCHANGED done
  <2>1. PICK outcome \in {"fatal", "transient"} : WithRetry(c, outcome)
    BY <1>2
  <2> QED
    BY <1>2, <2>1, AttemptReads
<1> QED
  BY <1>1, <1>2

(* An answer that comes before anything was done. *)
LEMMA AnswerEarly ==
  ASSUME GoogleTypeOK, HonestInv, NEW c \in Calls, UNCHANGED done, done[c] = 0,
         call[c].pc # "end", NEW status \in Statuses, Answer(c, status),
         status = 204 => Op(c) \notin Writes
  PROVE \E k \in Progress, n \in 0 .. (MaxRetries + 1) : CallBecomes(c, k, n) /\ Honest(c, k, n)
<1>1. PICK k \in Progress :
        /\ call' = [call EXCEPT ![c] = k]
        /\ k.pc = "answered" /\ k.status = status /\ k.result = call[c].result
  BY AnswerIs
<1>2. k.result = "none"
  BY <1>1, CallIs DEF Honest
<1>3. Honest(c, k, 0)
  <2>1. ~(0 >= 1)
    OBVIOUS
  <2> QED
    BY <1>1, <1>2, <2>1 DEF Honest
<1> QED
  BY <1>1, <1>3, NothingDone

(* Every step of a handler and of the command keeps what the call reports
   true. *)
LEMMA CallStep ==
  ASSUME GoogleTypeOK, HonestInv, NEW c \in Calls, HandlerSteps(c)
  PROVE \E k \in Progress, n \in 0 .. (MaxRetries + 1) : CallBecomes(c, k, n) /\ Honest(c, k, n)
<1> DEFINE Goal == \E k \in Progress, n \in 0 .. (MaxRetries + 1) : CallBecomes(c, k, n) /\ Honest(c, k, n)
<1>h. Honest(c, call[c], done[c]) /\ call[c] \in Progress /\ done[c] \in Nat
  BY CallIs
<1>1. CASE PostJSON(c)
  <2>1. /\ call[c].pc = "new" /\ UNCHANGED done
        /\ Moves(c, IF Op(c) \in Writes THEN "asked" ELSE "permitted")
    BY <1>1 DEF PostJSON
  <2>2. PICK k \in Progress :
          /\ call' = [call EXCEPT ![c] = k] /\ k.try = call[c].try /\ k.result = call[c].result
          /\ (k.pc = "asked" \/ (k.pc = "permitted" /\ Op(c) \notin Writes))
    <3>1. CASE Op(c) \in Writes
      BY <2>1, <3>1, MovesIs
    <3>2. CASE Op(c) \notin Writes
      BY <2>1, <3>2, MovesIs
    <3> QED
      BY <3>1, <3>2
  <2>3. Honest(c, k, done[c])
    BY <1>h, <2>1, <2>2 DEF Honest
  <2> QED
    BY <2>1, <2>2, <2>3, NothingDone
<1>2. CASE CheckWritePermission(c)
  <2>1. call[c].pc = "asked" /\ UNCHANGED done
    BY <1>2 DEF CheckWritePermission
  <2>2. CASE Moves(c, "permitted") /\ Permitted(c)
    <3>1. PICK k \in Progress :
            /\ call' = [call EXCEPT ![c] = k]
            /\ k.pc = "permitted" /\ k.try = call[c].try /\ k.result = call[c].result
      BY <2>2, MovesIs
    <3>2. Honest(c, k, done[c])
      BY <1>h, <2>1, <2>2, <3>1 DEF Honest
    <3> QED
      BY <2>1, <3>1, <3>2, NothingDone
  <2>3. CASE Answer(c, 403)
    <3>1. 403 \in Statuses /\ 403 # 204
      BY DEF Statuses
    <3>2. done[c] = 0
      BY <1>h, <2>1 DEF Honest
    <3> QED
      BY <2>1, <2>3, <3>1, <3>2, AnswerEarly
  <2>4. \/ Moves(c, "permitted") /\ Permitted(c)
        \/ Answer(c, 403)
    BY <1>2 DEF CheckWritePermission, Permitted, GoogleTypeOK
  <2> QED
    BY <2>2, <2>3, <2>4
<1>3. CASE Checked(c)
  <2>1. call[c].pc = "permitted" /\ UNCHANGED done
    BY <1>3 DEF Checked
  <2>2. CASE Moves(c, "try")
    <3>1. PICK k \in Progress :
            /\ call' = [call EXCEPT ![c] = k]
            /\ k.pc = "try" /\ k.try = call[c].try /\ k.result = call[c].result
      BY <2>2, MovesIs
    <3>2. done[c] = 0 /\ call[c].try \in Nat /\ 0 <= call[c].try
      <4>1. done[c] = 0
        BY <1>h, <2>1 DEF Honest
      <4>2. call[c].try \in 0 .. MaxRetries /\ MaxRetries \in Nat
        BY CallIs
      <4> HIDE <1>h
      <4> QED
        BY <4>1, <4>2
    <3>3. Honest(c, k, done[c])
      BY <1>h, <2>1, <3>1, <3>2 DEF Honest
    <3> QED
      BY <2>1, <3>1, <3>3, NothingDone
  <2>3. ASSUME NEW status \in {400, 500, 503}, Answer(c, status) PROVE Goal
    <3>1. status \in Statuses /\ status # 204
      BY DEF Statuses
    <3>2. done[c] = 0
      BY <1>h, <2>1 DEF Honest
    <3> QED
      BY <2>1, <2>3, <3>1, <3>2, AnswerEarly
  <2>4. Moves(c, "try") \/ \E status \in {400, 500, 503} : Answer(c, status)
    BY <1>3 DEF Checked
  <2> QED
    BY <2>2, <2>3, <2>4
<1>4. ASSUME NEW next \in {"each", "reply"}, Moves(c, next), call[c].pc = "try", UNCHANGED done
      PROVE Goal
  <2>1. PICK k \in Progress :
          /\ call' = [call EXCEPT ![c] = k]
          /\ k.pc = next /\ k.try = call[c].try /\ k.result = call[c].result
    BY <1>4, MovesIs
  <2>2. Honest(c, k, done[c])
    BY <1>h, <1>4, <2>1 DEF Honest
  <2> QED
    BY <1>4, <2>1, <2>2, NothingDone
<1>5. ASSUME NEW outcome \in {"ok", "fatal", "transient"}, WithRetry(c, outcome), UNCHANGED done,
             call[c].pc \in {"try", "each", "reply", "put"}, outcome = "ok" => Op(c) \notin Writes
      PROVE Goal
  BY <1>5, AttemptReads
<1>6. CASE ListMessages(c)
  <2>1. Op(c) = "list" /\ "list" \notin Writes /\ call[c].pc \in {"try", "each"} /\ UNCHANGED done
    BY <1>6 DEF ListMessages, Fetch, Writes
  <2>2. CASE call[c].pc = "try" /\ Answer(c, 200)
    <3>1. 200 \in Statuses /\ 200 # 403 /\ 200 # 204
      BY DEF Statuses
    <3>2. PICK k \in Progress :
            /\ call' = [call EXCEPT ![c] = k]
            /\ k.pc = "answered" /\ k.status = 200 /\ k.result = call[c].result
      BY <2>2, <3>1, AnswerIs
    <3>3. k.result = "none" /\ (done[c] >= 1 => Permitted(c))
      BY <1>h, <2>1, <3>2 DEF Honest
    <3>4. Honest(c, k, done[c])
      BY <3>1, <3>2, <3>3 DEF Honest
    <3> QED
      BY <2>1, <3>2, <3>4, NothingDone
  <2>3. \/ call[c].pc = "try" /\ (Moves(c, "each") \/ Answer(c, 200))
        \/ \E outcome \in {"ok", "fatal", "transient"} : WithRetry(c, outcome)
    BY <1>6 DEF ListMessages, Fetch
  <2> QED
    BY <1>4, <1>5, <2>1, <2>2, <2>3
<1>7. CASE ReadMessage(c) \/ ListEvents(c) \/ GetEvent(c)
  <2>1. /\ Op(c) \notin Writes /\ call[c].pc = "try" /\ UNCHANGED done
        /\ \E outcome \in {"ok", "fatal", "transient"} : WithRetry(c, outcome)
    BY <1>7 DEF ReadMessage, ListEvents, GetEvent, Fetch, Writes
  <2> QED
    BY <1>5, <2>1
<1>8. CASE SendMessage(c) \/ CreateEvent(c) \/ DeleteEvent(c)
  <2>1. /\ Op(c) \in Writes /\ call[c].pc = "try"
        /\ \/ /\ done' = [done EXCEPT ![c] = @ + 1]
              /\ \E outcome \in {"ok", "fatal", "transient"} : WithRetry(c, outcome)
           \/ (WithRetry(c, "fatal") \/ WithRetry(c, "transient")) /\ UNCHANGED done
    BY <1>8 DEF SendMessage, CreateEvent, DeleteEvent, Store, Writes
  <2> QED
    BY <2>1, StoreIs
<1>9. CASE ReplyMessage(c)
  <2>1. CASE call[c].pc = "try"
    <3>1. /\ Op(c) = "reply" /\ UNCHANGED done
          /\ \/ Moves(c, "reply")
             \/ \E outcome \in {"fatal", "transient"} : WithRetry(c, outcome)
      BY <1>9, <2>1 DEF ReplyMessage, Fetch
    <3> QED
      BY <1>4, <1>5, <2>1, <3>1
  <2>2. CASE call[c].pc = "reply"
    <3>1. /\ Op(c) \in Writes
          /\ \/ /\ done' = [done EXCEPT ![c] = @ + 1]
                /\ \E outcome \in {"ok", "fatal", "transient"} : WithRetry(c, outcome)
             \/ (WithRetry(c, "fatal") \/ WithRetry(c, "transient")) /\ UNCHANGED done
      BY <1>9, <2>2 DEF ReplyMessage, Store, Writes
    <3> QED
      BY <2>2, <3>1, StoreIs
  <2> QED
    BY <1>9, <2>1, <2>2 DEF ReplyMessage
<1>10. CASE UpdateEvent(c)
  <2>1. CASE call[c].pc = "try"
    <3>1. /\ Op(c) = "update" /\ UNCHANGED done
          /\ \/ call' = [call EXCEPT ![c].pc = "put", ![c].saw = event.title]
             \/ \E outcome \in {"fatal", "transient"} : WithRetry(c, outcome)
      BY <1>10, <2>1 DEF UpdateEvent, Fetch
    <3>2. CASE call' = [call EXCEPT ![c].pc = "put", ![c].saw = event.title]
      <4> DEFINE k == [call[c] EXCEPT !.pc = "put", !.saw = event.title]
      <4>1. event.title \in Nat
        BY DEF GoogleTypeOK, Event
      <4>2. k \in Progress /\ k.pc = "put" /\ k.try = call[c].try /\ k.result = call[c].result
        BY <1>h, <4>1 DEF Progress
      <4>3. call' = [call EXCEPT ![c] = k]
        BY <3>2
      <4> HIDE DEF k
      <4>4. Honest(c, k, done[c])
        BY <1>h, <2>1, <4>2 DEF Honest
      <4> QED
        BY <3>1, <4>2, <4>3, <4>4, NothingDone
    <3> QED
      BY <1>5, <2>1, <3>1, <3>2
  <2>2. CASE call[c].pc = "put"
    <3>1. /\ Op(c) \in Writes
          /\ \/ /\ done' = [done EXCEPT ![c] = @ + 1]
                /\ \E outcome \in {"ok", "fatal", "transient"} : WithRetry(c, outcome)
             \/ (WithRetry(c, "fatal") \/ WithRetry(c, "transient")) /\ UNCHANGED done
      BY <1>10, <2>2 DEF UpdateEvent, Store, Writes
    <3> QED
      BY <2>2, <3>1, StoreIs
  <2> QED
    BY <1>10, <2>1, <2>2 DEF UpdateEvent
<1>11. CASE ReadAnswer(c)
  <2> DEFINE v == Verdict(Op(c), call[c].status)
             k == [NewCall EXCEPT !.pc = "end", !.status = call[c].status, !.result = v]
  <2>1. call[c].pc = "answered" /\ call' = [call EXCEPT ![c] = k] /\ UNCHANGED done
    BY <1>11 DEF ReadAnswer
  <2>2. /\ v \in {"ok", "failed", "not permitted"}
        /\ v = "not permitted" => call[c].status = 403
        /\ v = "ok" /\ Op(c) \in Writes => call[c].status = 204
    BY DEF Verdict, Expected, Writes
  <2>3. k \in Progress /\ k.pc = "end" /\ k.result = v
    <3>1. 0 \in 0 .. MaxRetries /\ 0 \in Nat /\ call[c].status \in Statuses
      BY CallIs
    <3> HIDE DEF v
    <3> QED
      BY <2>2, <3>1 DEF NewCall, Progress
  <2> HIDE DEF v, k
  <2>4. Honest(c, k, done[c])
    BY <1>h, <2>1, <2>2, <2>3 DEF Honest
  <2> QED
    BY <2>1, <2>3, <2>4, NothingDone
<1> QED
  BY <1>1, <1>2, <1>3, <1>6, <1>7, <1>8, <1>9, <1>10, <1>11
  DEF HandlerSteps, HandleGmail, HandleGcal

(* What a handler leaves of the rest of the world: it changes at most the
   event, and uses up transient errors. *)
LEMMA WorldStep ==
  ASSUME GoogleTypeOK, HonestInv, NEW c \in Calls, HandlerSteps(c)
  PROVE /\ UNCHANGED <<mail, edits, queued, accountVars>>
        /\ event' \in Event /\ transients' \in 0 .. MaxTransient
<1> USE DEF worldVars, accountVars
<1>t. event \in Event /\ transients \in 0 .. MaxTransient
  BY DEF GoogleTypeOK
<1>r. \A outcome \in {"ok", "fatal", "transient"} :
        WithRetry(c, outcome) => transients' \in 0 .. MaxTransient
  BY WithRetryIs
<1>e. \A b \in BOOLEAN : [event EXCEPT !.exists = b] \in Event
  BY <1>t DEF Event
<1>1. CASE PostJSON(c)
  BY <1>1, <1>t DEF PostJSON
<1>2. CASE CheckWritePermission(c)
  BY <1>2, <1>t DEF CheckWritePermission
<1>3. CASE Checked(c)
  BY <1>3, <1>t DEF Checked
<1>4. CASE ListMessages(c)
  BY <1>4, <1>t, <1>r DEF ListMessages, Fetch
<1>5. CASE ReadMessage(c) \/ ListEvents(c) \/ GetEvent(c)
  BY <1>5, <1>t, <1>r DEF ReadMessage, ListEvents, GetEvent, Fetch
<1>6. CASE SendMessage(c) \/ CreateEvent(c)
  BY <1>6, <1>t, <1>r DEF SendMessage, CreateEvent, Store
<1>7. CASE DeleteEvent(c)
  BY <1>7, <1>t, <1>r, <1>e DEF DeleteEvent, Store
<1>8. CASE ReplyMessage(c)
  BY <1>8, <1>t, <1>r DEF ReplyMessage, Fetch, Store
<1>9. CASE UpdateEvent(c)
  <2>1. [event EXCEPT !.title = call[c].saw, !.start = c] \in Event
    <3>1. call[c].saw \in Nat
      BY CallIs
    <3> QED
      BY <1>t, <3>1 DEF Event
  <2> QED
    BY <1>9, <1>t, <1>r, <2>1 DEF UpdateEvent, Fetch, Store
<1>10. CASE ReadAnswer(c)
  BY <1>10, <1>t DEF ReadAnswer
<1> QED
  BY <1>1, <1>2, <1>3, <1>4, <1>5, <1>6, <1>7, <1>8, <1>9, <1>10
  DEF HandlerSteps, HandleGmail, HandleGcal

(* The setup of an account, and what other people do. *)
LEMMA OthersStep ==
  ASSUME GoogleTypeOK,
         \/ \E a \in Accounts : SaveCredentials(a) \/ LoadIndex(a) \/ SaveIndex(a)
         \/ (\E t \in queued : TaskIsPruned(t)) \/ MessageIsDeleted \/ EventIsEdited
  PROVE GoogleTypeOK' /\ UNCHANGED <<call, done>>
<1> USE DEF worldVars, accountVars
<1>1. CASE \E a \in Accounts : SaveCredentials(a) \/ LoadIndex(a) \/ SaveIndex(a)
  <2> PICK a \in Accounts : SaveCredentials(a) \/ LoadIndex(a) \/ SaveIndex(a)
    BY <1>1
  <2>1. setup[a] \in Saving /\ setup[a].read \subseteq Accounts
    BY DEF GoogleTypeOK, Saving
  <2>2. setup' \in [Accounts -> Saving]
    <3>1. CASE SaveCredentials(a)
      <4>1. [setup[a] EXCEPT !.pc = "saved"] \in Saving
        BY <2>1 DEF Saving
      <4>2. setup' = [setup EXCEPT ![a] = [setup[a] EXCEPT !.pc = "saved"]]
        BY <3>1 DEF SaveCredentials
      <4> QED
        BY <4>1, <4>2 DEF GoogleTypeOK
    <3>2. CASE LoadIndex(a)
      <4>1. [pc |-> "read", read |-> index] \in Saving
        BY DEF Saving, GoogleTypeOK
      <4> QED
        BY <3>2, <4>1 DEF LoadIndex, GoogleTypeOK
    <3>3. CASE SaveIndex(a)
      <4>1. [pc |-> "end", read |-> {}] \in Saving
        BY DEF Saving
      <4> QED
        BY <3>3, <4>1 DEF SaveIndex, GoogleTypeOK
    <3> QED
      BY <3>1, <3>2, <3>3
  <2>3. index' \subseteq Accounts /\ creds' \subseteq Accounts
    BY <2>1 DEF GoogleTypeOK, SaveCredentials, LoadIndex, SaveIndex
  <2>4. UNCHANGED <<call, done, mail, event, edits, queued, transients>>
    BY DEF SaveCredentials, LoadIndex, SaveIndex
  <2> QED
    BY <2>2, <2>3, <2>4 DEF GoogleTypeOK
<1>2. CASE \E t \in queued : TaskIsPruned(t)
  BY <1>2 DEF TaskIsPruned, GoogleTypeOK
<1>3. CASE MessageIsDeleted
  BY <1>3 DEF MessageIsDeleted, GoogleTypeOK
<1>4. CASE EventIsEdited
  <2>1. edits + 1 \in 0 .. MaxEdits /\ edits + 1 \in Nat
    BY <1>4, GoogleAssumption DEF EventIsEdited, GoogleTypeOK
  <2>2. [event EXCEPT !.title = edits + 1] \in Event
    BY <2>1 DEF GoogleTypeOK, Event
  <2> QED
    BY <1>4, <2>1, <2>2 DEF EventIsEdited, GoogleTypeOK
<1> QED
  BY <1>1, <1>2, <1>3, <1>4

LEMMA HonestStep ==
  GoogleTypeOK /\ HonestInv /\ [GoogleNext]_googleVars => GoogleTypeOK' /\ HonestInv'
<1> SUFFICES ASSUME GoogleTypeOK, HonestInv, [GoogleNext]_googleVars
             PROVE GoogleTypeOK' /\ HonestInv'
  OBVIOUS
<1>1. CASE \E c \in Calls : HandlerSteps(c)
  <2> PICK c \in Calls : HandlerSteps(c)
    BY <1>1
  <2>1. PICK k \in Progress, n \in 0 .. (MaxRetries + 1) : CallBecomes(c, k, n) /\ Honest(c, k, n)
    BY CallStep
  <2>2. GoogleTypeOK'
    <3>1. call' \in [Calls -> Progress] /\ done' \in [Calls -> 0..(MaxRetries + 1)]
      BY <2>1 DEF CallBecomes, GoogleTypeOK
    <3> QED
      BY <3>1, WorldStep DEF GoogleTypeOK, accountVars
  <2>3. ASSUME NEW d \in Calls PROVE Honest(d, call'[d], done'[d])
    <3>1. CASE d = c
      <4>1. call'[d] = k /\ done'[d] = n
        BY <2>1, <3>1 DEF CallBecomes, GoogleTypeOK
      <4> QED
        BY <2>1, <3>1, <4>1
    <3>2. CASE d # c
      <4>1. call'[d] = call[d] /\ done'[d] = done[d]
        BY <2>1, <3>2 DEF CallBecomes, GoogleTypeOK
      <4> QED
        BY <4>1 DEF HonestInv
    <3> QED
      BY <3>1, <3>2
  <2> QED
    BY <2>2, <2>3 DEF HonestInv
<1>2. CASE \/ \E a \in Accounts : SaveCredentials(a) \/ LoadIndex(a) \/ SaveIndex(a)
           \/ (\E t \in queued : TaskIsPruned(t)) \/ MessageIsDeleted \/ EventIsEdited
  <2>1. GoogleTypeOK' /\ UNCHANGED <<call, done>>
    BY <1>2, OthersStep
  <2> QED
    BY <2>1 DEF HonestInv
<1>3. CASE UNCHANGED googleVars
  BY <1>3 DEF googleVars, GoogleTypeOK, HonestInv
<1> QED
  BY <1>1, <1>2, <1>3 DEF GoogleNext

LEMMA GoogleStart == GoogleInit => GoogleTypeOK /\ HonestInv
<1> SUFFICES ASSUME GoogleInit PROVE GoogleTypeOK /\ HonestInv
  OBVIOUS
<1>1. PICK made \in CallsTogether :
        call = [c \in Calls |-> [NewCall EXCEPT !.pc = IF c \in made THEN "new" ELSE "never"]]
  BY DEF GoogleInit
<1>2. MaxRetries \in Nat /\ MaxTransient \in Nat /\ MaxEdits \in Nat
  BY GoogleAssumption
<1>3. \A pc \in {"new", "never"} :
        /\ [NewCall EXCEPT !.pc = pc] \in Progress
        /\ [NewCall EXCEPT !.pc = pc].pc = pc /\ [NewCall EXCEPT !.pc = pc].result = "none"
  <2>1. 0 \in 0 .. MaxRetries /\ 0 \in Nat /\ 0 \in Statuses
    BY <1>2 DEF Statuses
  <2> QED
    BY <2>1 DEF NewCall, Progress
<1>4. /\ call \in [Calls -> Progress]
      /\ \A c \in Calls : call[c].pc \in {"new", "never"} /\ call[c].result = "none"
  BY <1>1, <1>3
<1>5. done \in [Calls -> 0..(MaxRetries + 1)] /\ \A c \in Calls : done[c] = 0
  BY <1>2 DEF GoogleInit
<1>6. GoogleTypeOK
  <2>1. event \in Event
    BY DEF GoogleInit, Event
  <2>2. setup \in [Accounts -> Saving]
    BY DEF GoogleInit, Saving
  <2>3. transients \in 0 .. MaxTransient /\ edits \in 0 .. MaxEdits
    BY <1>2 DEF GoogleInit
  <2>4. /\ mail \in BOOLEAN /\ queued \subseteq DOMAIN AllowWrites
        /\ index \subseteq Accounts /\ creds \subseteq Accounts
    BY DEF GoogleInit
  <2> QED
    BY <1>4, <1>5, <2>1, <2>2, <2>3, <2>4 DEF GoogleTypeOK
<1>7. ASSUME NEW c \in Calls PROVE Honest(c, call[c], done[c])
  <2>1. ~(0 >= 1)
    OBVIOUS
  <2> QED
    BY <1>4, <1>5, <2>1 DEF Honest
<1> QED
  BY <1>6, <1>7 DEF HonestInv

LEMMA HonestSound == HonestInv => CommandsAreHonest
BY DEF HonestInv, Honest, Permitted, CommandsAreHonest

(* Every variable of the calls keeps to its domain, and no call is carried out
   more often than it is attempted. *)
THEOREM GoogleTypeCorrect == GoogleSpec => []GoogleTypeOK
BY GoogleStart, HonestStep, PTL DEF GoogleSpec

(* What a gmail or gcal command prints is true, and nothing is done for a call
   that carries the id of a task without allow_writes, for any calls, tasks and
   accounts and through any number of transient errors, retries and pruned
   tasks.  The calls of the workers carry no id, and are not restrained. *)
THEOREM HonestCommands == GoogleSpec => []CommandsAreHonest
BY GoogleStart, HonestStep, HonestSound, PTL DEF GoogleSpec

-----------------------------------------------------------------------------
(* Results: how often one occurs in a sequence *)

LEMMA TimesFinite ==
  ASSUME NEW S, NEW s \in Seq(S), NEW x
  PROVE /\ IsFiniteSet({i \in DOMAIN s : s[i] = x})
        /\ Times(s, x) \in Nat
        /\ x \notin S => Times(s, x) = 0
<1>1. IsFiniteSet(DOMAIN s)
  <2>1. DOMAIN s = 1 .. Len(s) /\ Len(s) \in Nat
    OBVIOUS
  <2>2. 1 \in Int /\ Len(s) \in Int
    BY <2>1
  <2> QED
    BY <2>1, <2>2, FS_Interval
<1>2. IsFiniteSet({i \in DOMAIN s : s[i] = x})
  <2>1. {i \in DOMAIN s : s[i] = x} \in SUBSET DOMAIN s
    OBVIOUS
  <2> QED
    BY <1>1, <2>1, FS_Subset
<1>3. ASSUME x \notin S PROVE Times(s, x) = 0
  <2>1. {i \in DOMAIN s : s[i] = x} = {}
    BY <1>3
  <2> QED
    BY <2>1, FS_EmptySet DEF Times
<1> QED
  BY <1>2, <1>3, FS_CardinalityType DEF Times

LEMMA TimesEmpty == \A x : Times(<<>>, x) = 0
<1>1. \A x : {i \in DOMAIN <<>> : <<>>[i] = x} = {}
  OBVIOUS
<1> QED
  BY <1>1, FS_EmptySet DEF Times

LEMMA TimesAppend ==
  ASSUME NEW S, NEW s \in Seq(S), NEW e \in S, NEW x
  PROVE Times(Append(s, e), x) = IF e = x THEN Times(s, x) + 1 ELSE Times(s, x)
<1> DEFINE I == {i \in DOMAIN s : s[i] = x}
           t == Append(s, e)
           J == {i \in DOMAIN t : t[i] = x}
<1>1. /\ Len(s) \in Nat /\ DOMAIN s = 1 .. Len(s) /\ DOMAIN t = 1 .. (Len(s) + 1)
      /\ t[Len(s) + 1] = e /\ \A i \in 1 .. Len(s) : t[i] = s[i]
  OBVIOUS
<1>2. IsFiniteSet(I) /\ Len(s) + 1 \notin I
  <2>1. IsFiniteSet(I)
    BY TimesFinite
  <2>2. Len(s) + 1 \notin I
    BY <1>1
  <2> QED
    BY <2>1, <2>2
<1> HIDE DEF t
<1>3. CASE e = x
  <2>1. J = I \union {Len(s) + 1}
    BY <1>1, <1>3
  <2>2. Cardinality(J) = Cardinality(I) + 1
    BY <1>2, <2>1, FS_AddElement
  <2> QED
    BY <1>3, <2>2 DEF Times, t
<1>4. CASE e # x
  <2>1. J = I
    BY <1>1, <1>4
  <2> QED
    BY <1>4, <2>1 DEF Times, t
<1> QED
  BY <1>3, <1>4

LEMMA TimesTail ==
  ASSUME NEW S, NEW s \in Seq(S), s # <<>>, NEW x
  PROVE /\ Head(s) \in S /\ Tail(s) \in Seq(S)
        /\ Times(s, x) = IF Head(s) = x THEN Times(Tail(s), x) + 1 ELSE Times(Tail(s), x)
<1> DEFINE t == Tail(s)
           I == {i \in DOMAIN s : s[i] = x}
           J == {i \in DOMAIN t : t[i] = x}
           K == {i \in I : i # 1}
           f == [j \in J |-> j + 1]
<1>1. /\ Len(s) \in Nat /\ Len(s) > 0 /\ DOMAIN s = 1 .. Len(s) /\ DOMAIN t = 1 .. (Len(s) - 1)
      /\ Head(s) = s[1] /\ \A i \in 1 .. (Len(s) - 1) : t[i] = s[i + 1]
      /\ t \in Seq(S) /\ Head(s) \in S
  OBVIOUS
<1>2. IsFiniteSet(I) /\ IsFiniteSet(J) /\ IsFiniteSet(K)
  <2>1. IsFiniteSet(I)
    BY TimesFinite
  <2>3. IsFiniteSet(J)
    <3>1. t \in Seq(S)
      BY <1>1
    <3> HIDE DEF t
    <3> QED
      BY <3>1, TimesFinite
  <2>2. K \in SUBSET I
    OBVIOUS
  <2> QED
    BY <2>1, <2>2, <2>3, FS_Subset
<1> HIDE DEF t
<1>3. Cardinality(K) = Cardinality(J)
  <2>1. \A j \in J : j + 1 \in K
    BY <1>1
  <2>2. \A k \in K : k - 1 \in J /\ f[k - 1] = k
    BY <1>1
  <2>3. f \in Injection(J, K)
    <3>1. f \in [J -> K]
      BY <2>1
    <3>2. \A a, b \in J : f[a] = f[b] => a = b
      BY <1>1
    <3> QED
      BY <3>1, <3>2 DEF Injection, IsInjective
  <2>4. f \in Surjection(J, K)
    <3>1. \A k \in K : \E j \in J : f[j] = k
      BY <2>2
    <3> QED
      BY <2>3, <3>1 DEF Injection, Surjection
  <2>5. ExistsBijection(J, K)
    BY <2>3, <2>4 DEF ExistsBijection, Bijection
  <2> QED
    BY <1>2, <2>5, FS_Bijection
<1>4. CASE Head(s) = x
  <2>1. I = K \union {1} /\ 1 \notin K
    BY <1>1, <1>4
  <2>2. Cardinality(I) = Cardinality(K) + 1
    BY <1>2, <2>1, FS_AddElement
  <2> QED
    BY <1>1, <1>3, <1>4, <2>2 DEF Times, t
<1>5. CASE Head(s) # x
  <2>1. I = K
    BY <1>1, <1>5
  <2> QED
    BY <1>1, <1>3, <1>5, <2>1 DEF Times, t
<1> QED
  BY <1>1, <1>4, <1>5 DEF t

-----------------------------------------------------------------------------
(* Results: every variable keeps to its domain *)

(* What a step of routeResult makes of its progress. *)
RoutedTo(r, at, pc) ==
  /\ routing' \in [Results -> Routing]
  /\ routing'[r].at = at /\ routing'[r].pc = pc
  /\ \A q \in Results : q # r => routing'[q] = routing[q]

LEMMA SeqLength ==
  ASSUME NEW S, NEW s \in Seq(S)
  PROVE Len(s) \in Nat /\ DOMAIN s = 1 .. Len(s)
OBVIOUS

LEMMA StreamFacts ==
  ASSUME StreamTypeOK, NEW r \in Results
  PROVE /\ ReplyTo[r] \in Seq({"telegram", "stdout", "file", "channel", "", "other"})
        /\ Len(ReplyTo[r]) \in Nat /\ DOMAIN ReplyTo[r] = 1 .. Len(ReplyTo[r])
        /\ routing[r] \in Routing /\ routing[r].at \in Nat /\ routing[r].at >= 1
        /\ routing[r].at <= Len(ReplyTo[r]) + 1 /\ routing[r].at + 1 \in Nat
<1>1. ReplyTo[r] \in Seq({"telegram", "stdout", "file", "channel", "", "other"})
  BY StreamAssumption
<1>2. Len(ReplyTo[r]) \in Nat /\ DOMAIN ReplyTo[r] = 1 .. Len(ReplyTo[r])
  BY <1>1, SeqLength
<1>3. routing[r] \in Routing /\ routing[r].at \in 1 .. (Len(ReplyTo[r]) + 1)
  BY DEF StreamTypeOK
<1>4. /\ routing[r].at \in Nat /\ routing[r].at >= 1
      /\ routing[r].at <= Len(ReplyTo[r]) + 1 /\ routing[r].at + 1 \in Nat
  <2> HIDE <1>1
  <2> QED
    BY <1>2, <1>3
<1> QED
  BY <1>1, <1>2, <1>3, <1>4, Zenon

LEMMA NextIs ==
  ASSUME StreamTypeOK, NEW r \in Results, NextDestination(r)
  PROVE RoutedTo(r, routing[r].at + 1, "idle")
<1>1. [at |-> routing[r].at + 1, pc |-> "idle"] \in Routing
  <2>1. routing[r].at + 1 \in Nat
    BY StreamFacts
  <2> QED
    BY <2>1 DEF Routing
<1> QED
  BY <1>1 DEF NextDestination, RoutedTo, StreamTypeOK

LEMMA PcIs ==
  ASSUME StreamTypeOK, NEW r \in Results, NEW pc \in {"emit", "count", "mark"},
         routing' = [routing EXCEPT ![r].pc = pc]
  PROVE RoutedTo(r, routing[r].at, pc)
<1> DEFINE k == [routing[r] EXCEPT !.pc = pc]
<1>1. k \in Routing /\ k.at = routing[r].at /\ k.pc = pc
  BY StreamFacts DEF Routing
<1>2. routing' = [routing EXCEPT ![r] = k]
  OBVIOUS
<1> HIDE DEF k
<1>3. routing \in [Results -> Routing]
  BY DEF StreamTypeOK
<1> QED
  BY <1>1, <1>2, <1>3 DEF RoutedTo

(* The part of the type that routeResult writes. *)
RoutingOK ==
  /\ routing \in [Results -> Routing]
  /\ \A r \in Results : /\ routing[r].at \in 1..(Len(ReplyTo[r]) + 1)
                        /\ routing[r].pc \in {"emit", "count", "mark"} =>
                             routing[r].at <= Len(ReplyTo[r]) /\ Destination(r) = "channel" /\ r \notin Leaking

(* A routing step goes on to the next destination, or stays at the channel,
   which takes only results without a credential. *)
LEMMA RoutingStep ==
  ASSUME StreamTypeOK, NEW r \in Results,
         \/ RouteToTelegram(r) \/ RouteToFile(r) \/ RouteNowhere(r) \/ RouteToChannel(r)
         \/ Emit(r) \/ CountClients(r) \/ MarkDelivered(r)
  PROVE /\ RoutingOK'
        /\ \E at \in Nat, pc \in {"idle", "emit", "count", "mark"} :
             /\ RoutedTo(r, at, pc)
             /\ \/ at = routing[r].at + 1 /\ pc = "idle"
                \/ at = routing[r].at /\ (Emit(r) => pc = "count")
                   /\ (routing[r].pc \in {"count", "mark"} => pc \in {"count", "mark"})
<1> DEFINE L == Len(ReplyTo[r])
<1>1. \/ /\ NextDestination(r) /\ routing[r].at <= L /\ ~Emit(r)
      \/ /\ RouteToChannel(r) /\ routing' = [routing EXCEPT ![r].pc = "emit"]
         /\ routing[r].pc = "idle" /\ routing[r].at <= L /\ Destination(r) = "channel" /\ r \notin Leaking
      \/ /\ Emit(r) /\ routing[r].pc = "emit" /\ routing' = [routing EXCEPT ![r].pc = "count"]
      \/ /\ routing[r].pc = "count" /\ routing' = [routing EXCEPT ![r].pc = "mark"] /\ ~Emit(r)
  <2>1. CASE RouteToTelegram(r) \/ RouteToFile(r) \/ RouteNowhere(r)
    BY <2>1 DEF RouteToTelegram, RouteToFile, RouteNowhere, At, Emit
  <2>2. CASE RouteToChannel(r)
    BY <2>2 DEF RouteToChannel, At, Emit
  <2>3. CASE Emit(r)
    BY <2>3 DEF Emit
  <2>4. CASE CountClients(r)
    BY <2>4 DEF CountClients, Emit, StreamTypeOK
  <2>5. CASE MarkDelivered(r)
    BY <2>5 DEF MarkDelivered, Emit, StreamTypeOK
  <2> QED
    BY <2>1, <2>2, <2>3, <2>4, <2>5
<1>2. PICK at \in Nat, pc \in {"idle", "emit", "count", "mark"} :
        /\ RoutedTo(r, at, pc)
        /\ \/ at = routing[r].at + 1 /\ pc = "idle" /\ routing[r].at <= L
           \/ /\ at = routing[r].at /\ (Emit(r) => pc = "count")
              /\ (routing[r].pc \in {"count", "mark"} => pc \in {"count", "mark"})
              /\ routing[r].at <= L /\ Destination(r) = "channel" /\ r \notin Leaking
  <2>1. CASE NextDestination(r) /\ routing[r].at <= L /\ ~Emit(r)
    <3>1. routing[r].at + 1 \in Nat
      BY StreamFacts
    <3> QED
      BY <2>1, <3>1, NextIs
  <2>2. CASE /\ RouteToChannel(r) /\ routing' = [routing EXCEPT ![r].pc = "emit"]
             /\ routing[r].pc = "idle" /\ routing[r].at <= L /\ Destination(r) = "channel" /\ r \notin Leaking
    <3>1. ~Emit(r) /\ RoutedTo(r, routing[r].at, "emit") /\ routing[r].at \in Nat
      BY <2>2, PcIs, StreamFacts DEF Emit
    <3> QED
      BY <2>2, <3>1
  <2>3. CASE Emit(r) /\ routing[r].pc = "emit" /\ routing' = [routing EXCEPT ![r].pc = "count"]
    <3>1. RoutedTo(r, routing[r].at, "count") /\ routing[r].at \in Nat
      BY <2>3, PcIs, StreamFacts
    <3>2. routing[r].at <= L /\ Destination(r) = "channel" /\ r \notin Leaking
      BY <2>3 DEF StreamTypeOK
    <3> QED
      BY <2>3, <3>1, <3>2
  <2>4. CASE routing[r].pc = "count" /\ routing' = [routing EXCEPT ![r].pc = "mark"] /\ ~Emit(r)
    <3>1. RoutedTo(r, routing[r].at, "mark") /\ routing[r].at \in Nat
      BY <2>4, PcIs, StreamFacts
    <3>2. routing[r].at <= L /\ Destination(r) = "channel" /\ r \notin Leaking
      BY <2>4 DEF StreamTypeOK
    <3> QED
      BY <2>4, <3>1, <3>2
  <2> QED
    BY <1>1, <2>1, <2>2, <2>3, <2>4
<1>3. ASSUME NEW q \in Results
      PROVE /\ routing'[q].at \in 1 .. (Len(ReplyTo[q]) + 1)
            /\ routing'[q].pc \in {"emit", "count", "mark"} =>
                 /\ routing'[q].at <= Len(ReplyTo[q]) /\ ReplyTo[q][routing'[q].at] = "channel"
                 /\ q \notin Leaking
  <2>1. CASE q # r
    BY <1>2, <2>1 DEF RoutedTo, StreamTypeOK, Destination
  <2>2. CASE q = r
    <3>1. routing'[r].at = at /\ routing'[r].pc = pc
      BY <1>2 DEF RoutedTo
    <3>2. L \in Nat /\ routing[r].at \in Nat /\ routing[r].at >= 1
      BY StreamFacts
    <3>3. at \in 1 .. (L + 1)
      BY <1>2, <3>2
    <3>4. pc # "idle" => at <= L /\ ReplyTo[r][at] = "channel" /\ r \notin Leaking
      BY <1>2 DEF Destination
    <3> QED
      BY <2>2, <3>1, <3>3, <3>4
  <2> QED
    BY <2>1, <2>2
<1>4. RoutingOK'
  BY <1>2, <1>3 DEF RoutingOK, RoutedTo, Destination
<1> QED
  BY <1>2, <1>4

ConnBecomes(c, k) == k \in Connection /\ conn' = [conn EXCEPT ![c] = k]

(* What becomes of a connection. *)
LEMMA ConnStep ==
  ASSUME StreamTypeOK, NEW c \in Connections
  PROVE /\ Subscribe(c) =>
             \E k : /\ ConnBecomes(c, k) /\ ~k.accepted /\ conn[c].accepted
                    /\ k.state = conn[c].state /\ k.events = conn[c].events
                    /\ k.reconnecting = conn[c].reconnecting
        /\ ConnectToStream(c) =>
             \E k : /\ ConnBecomes(c, k) /\ conn[c] = NoConnection /\ ~k.reconnecting
                    /\ \/ k.state = "open" /\ k.events = {}
                       \/ k.state = "closed" /\ k.events = {"error", "close"} /\ ~k.accepted
        /\ Break(c) =>
             \E k : /\ ConnBecomes(c, k) /\ conn[c].state = "open" /\ k.state = "closed"
                    /\ k.events # {} /\ k.accepted = conn[c].accepted
                    /\ k.reconnecting = conn[c].reconnecting
        /\ \A ev \in {"error", "close"} : HandleDisconnect(c, ev) =>
             \E k : /\ ConnBecomes(c, k) /\ ev \in conn[c].events /\ k.state = conn[c].state
                    /\ k.reconnecting /\ k.accepted = conn[c].accepted
<1>c. conn[c] \in Connection /\ conn \in [Connections -> Connection]
  BY DEF StreamTypeOK
<1>n. NoConnection \in Connection /\ NoConnection.events = {} /\ ~NoConnection.reconnecting
      /\ ~NoConnection.accepted /\ NoConnection.state = "unused"
  BY DEF NoConnection, Connection, Events
<1>1. ASSUME Subscribe(c)
      PROVE \E k : /\ ConnBecomes(c, k) /\ ~k.accepted /\ conn[c].accepted
                   /\ k.state = conn[c].state /\ k.events = conn[c].events
                   /\ k.reconnecting = conn[c].reconnecting
  <2> DEFINE k == [conn[c] EXCEPT !.accepted = FALSE]
  <2>1. k \in Connection /\ k.accepted = FALSE /\ k.state = conn[c].state
        /\ k.events = conn[c].events /\ k.reconnecting = conn[c].reconnecting
    BY <1>c DEF Connection
  <2>2. conn' = [conn EXCEPT ![c] = k] /\ conn[c].accepted
    BY <1>1 DEF Subscribe
  <2> HIDE DEF k
  <2> QED
    BY <2>1, <2>2 DEF ConnBecomes
<1>2. ASSUME ConnectToStream(c)
      PROVE \E k : /\ ConnBecomes(c, k) /\ conn[c] = NoConnection /\ ~k.reconnecting
                   /\ \/ k.state = "open" /\ k.events = {}
                      \/ k.state = "closed" /\ k.events = {"error", "close"} /\ ~k.accepted
  <2> DEFINE o == [conn[c] EXCEPT !.state = "open", !.accepted = TRUE]
             d == [conn[c] EXCEPT !.state = "closed", !.events = {"error", "close"}]
  <2>1. conn[c] = NoConnection /\ (conn' = [conn EXCEPT ![c] = o] \/ conn' = [conn EXCEPT ![c] = d])
    BY <1>2 DEF ConnectToStream
  <2>2. o \in Connection /\ o.state = "open" /\ o.events = {} /\ ~o.reconnecting
    BY <1>c, <1>n, <2>1 DEF Connection
  <2>3. d \in Connection /\ d.state = "closed" /\ d.events = {"error", "close"} /\ ~d.accepted
        /\ ~d.reconnecting
    BY <1>c, <1>n, <2>1 DEF Connection, Events
  <2> HIDE DEF o, d
  <2> QED
    BY <2>1, <2>2, <2>3 DEF ConnBecomes
<1>3. ASSUME Break(c)
      PROVE \E k : /\ ConnBecomes(c, k) /\ conn[c].state = "open" /\ k.state = "closed"
                   /\ k.events # {} /\ k.accepted = conn[c].accepted
                   /\ k.reconnecting = conn[c].reconnecting
  <2>1. PICK events \in {{"close"}, {"error", "close"}} :
          conn' = [conn EXCEPT ![c].state = "closed", ![c].events = events]
    BY <1>3 DEF Break
  <2> DEFINE k == [conn[c] EXCEPT !.state = "closed", !.events = events]
  <2>2. k \in Connection /\ k.state = "closed" /\ k.events # {} /\ k.accepted = conn[c].accepted
        /\ k.reconnecting = conn[c].reconnecting
    BY <1>c DEF Connection, Events
  <2>3. conn' = [conn EXCEPT ![c] = k] /\ conn[c].state = "open"
    BY <1>3, <2>1 DEF Break
  <2> HIDE DEF k
  <2> QED
    BY <2>2, <2>3 DEF ConnBecomes
<1>4. ASSUME NEW ev \in {"error", "close"}, HandleDisconnect(c, ev)
      PROVE \E k : /\ ConnBecomes(c, k) /\ ev \in conn[c].events /\ k.state = conn[c].state
                   /\ k.reconnecting /\ k.accepted = conn[c].accepted
  <2> DEFINE k == [conn[c] EXCEPT !.events = @ \ {ev}, !.reconnecting = TRUE]
  <2>1. k \in Connection /\ k.state = conn[c].state /\ k.reconnecting = TRUE
        /\ k.accepted = conn[c].accepted
    BY <1>c DEF Connection, Events
  <2>2. conn' = [conn EXCEPT ![c] = k] /\ ev \in conn[c].events
    BY <1>4 DEF HandleDisconnect
  <2> HIDE DEF k
  <2> QED
    BY <2>1, <2>2 DEF ConnBecomes
<1> QED
  BY <1>1, <1>2, <1>3, <1>4

(* The rest of the type: what the hub, the relay and the other outputs hold. *)
OutputsOK ==
  /\ telegram \subseteq Results \union {"warning"}
  /\ files \subseteq Results /\ quarantined \subseteq Results /\ delivered \subseteq Results

FlowOK ==
  /\ clients \subseteq Connections /\ timers \in Nat /\ session \in Seq(Results)
  /\ buffer \in [Connections -> Seq(Results)] /\ socket \in [Connections -> Seq(Results)]
  /\ conn \in [Connections -> Connection]
  /\ \A c \in Connections : Len(buffer[c]) <= sseBufferSize

LEMMA StreamTypeParts == StreamTypeOK <=> RoutingOK /\ OutputsOK /\ FlowOK
BY DEF StreamTypeOK, RoutingOK, OutputsOK, FlowOK

RouteStep(r) ==
  \/ RouteToTelegram(r) \/ RouteToFile(r) \/ RouteNowhere(r) \/ RouteToChannel(r)
  \/ Emit(r) \/ CountClients(r) \/ MarkDelivered(r)

RelayStep(c) ==
  \/ Subscribe(c) \/ ServeSSE(c) \/ Unsubscribe(c)
  \/ ConnectToStream(c) \/ PushToSession(c) \/ Break(c)
  \/ \E ev \in {"error", "close"} : HandleDisconnect(c, ev)

LEMMA RouteTypeStep ==
  ASSUME StreamTypeOK, NEW r \in Results, RouteStep(r)
  PROVE /\ StreamTypeOK' /\ UNCHANGED <<clients, socket, conn, timers, session>>
        /\ (Emit(r) \/ UNCHANGED buffer)
        /\ \A q \in Results : q \in telegram' /\ q \in Leaking => q \in telegram
<1> USE DEF outputVars, hubVars, relayVars
<1>1. RoutingOK'
  BY RoutingStep DEF RouteStep
<1>2. OutputsOK'
  BY DEF RouteStep, RouteToTelegram, RouteToFile, RouteNowhere, RouteToChannel, Emit, CountClients,
         MarkDelivered, Quarantine, StreamTypeOK, OutputsOK
<1>3. UNCHANGED <<clients, socket, conn, timers, session>> /\ (Emit(r) \/ UNCHANGED buffer)
  BY DEF RouteStep, RouteToTelegram, RouteToFile, RouteNowhere, RouteToChannel, Emit, CountClients,
         MarkDelivered
<1>4. /\ buffer' \in [Connections -> Seq(Results)]
      /\ \A c \in Connections : Len(buffer'[c]) <= sseBufferSize
  <2>1. CASE UNCHANGED buffer
    BY <2>1 DEF StreamTypeOK
  <2>2. CASE Emit(r)
    <3>1. buffer' = [c \in Connections |->
            IF c \in clients /\ Len(buffer[c]) < sseBufferSize THEN Append(buffer[c], r) ELSE buffer[c]]
      BY <2>2 DEF Emit
    <3>2. ASSUME NEW c \in Connections
          PROVE buffer'[c] \in Seq(Results) /\ Len(buffer'[c]) <= sseBufferSize
      <4>1. buffer[c] \in Seq(Results) /\ Len(buffer[c]) <= sseBufferSize /\ sseBufferSize \in Nat
        BY StreamAssumption DEF StreamTypeOK
      <4>2. CASE c \in clients /\ Len(buffer[c]) < sseBufferSize
        <5>1. buffer'[c] = Append(buffer[c], r)
          BY <3>1, <4>2
        <5>2. Append(buffer[c], r) \in Seq(Results) /\ Len(Append(buffer[c], r)) = Len(buffer[c]) + 1
              /\ Len(buffer[c]) \in Nat
          BY <4>1
        <5> QED
          BY <4>1, <4>2, <5>1, <5>2
      <4>3. CASE ~(c \in clients /\ Len(buffer[c]) < sseBufferSize)
        BY <3>1, <4>1, <4>3
      <4> QED
        BY <4>2, <4>3
    <3> QED
      BY <3>1, <3>2
  <2> QED
    BY <1>3, <2>1, <2>2
<1>5. FlowOK'
  BY <1>3, <1>4 DEF FlowOK, StreamTypeOK
<1>6. StreamTypeOK'
  BY <1>1, <1>2, <1>5, StreamTypeParts, PTL
<1>7. \A q \in Results : q \in telegram' /\ q \in Leaking => q \in telegram
  <2>1. "warning" \notin Results
    BY StreamAssumption
  <2>2. CASE RouteToTelegram(r)
    BY <2>1, <2>2 DEF RouteToTelegram
  <2>3. CASE ~RouteToTelegram(r)
    BY <2>3 DEF RouteStep, RouteToFile, RouteNowhere, RouteToChannel, Emit, CountClients, MarkDelivered
  <2> QED
    BY <2>2, <2>3
<1> QED
  BY <1>3, <1>6, <1>7

LEMMA RelayTypeStep ==
  ASSUME StreamTypeOK, NEW c \in Connections, RelayStep(c)
  PROVE StreamTypeOK' /\ UNCHANGED <<routing, telegram>>
<1> USE DEF outputVars, hubVars, relayVars
<1>1. UNCHANGED <<routing, telegram, files, quarantined, delivered>>
  BY DEF RelayStep, Subscribe, ServeSSE, Unsubscribe, ConnectToStream, PushToSession, Break,
         HandleDisconnect
<1>2. conn' \in [Connections -> Connection]
  <2>1. UNCHANGED conn \/ \E k : ConnBecomes(c, k)
    BY ConnStep DEF RelayStep, ServeSSE, Unsubscribe, PushToSession
  <2> QED
    BY <2>1 DEF ConnBecomes, StreamTypeOK
<1>3. clients' \subseteq Connections /\ timers' \in Nat
  BY DEF RelayStep, Subscribe, ServeSSE, Unsubscribe, ConnectToStream, PushToSession, Break,
         HandleDisconnect, StreamTypeOK
<1>4. buffer[c] \in Seq(Results) /\ socket[c] \in Seq(Results) /\ session \in Seq(Results)
      /\ Len(buffer[c]) <= sseBufferSize
  BY DEF StreamTypeOK
<1>5. /\ buffer' \in [Connections -> Seq(Results)] /\ socket' \in [Connections -> Seq(Results)]
      /\ session' \in Seq(Results) /\ \A d \in Connections : Len(buffer'[d]) <= sseBufferSize
  <2>1. CASE ServeSSE(c)
    <3>1. Head(buffer[c]) \in Results /\ Tail(buffer[c]) \in Seq(Results)
          /\ Len(Tail(buffer[c])) <= sseBufferSize
      <4>1. buffer[c] # <<>>
        BY <2>1 DEF ServeSSE
      <4>2. Head(buffer[c]) \in Results /\ Tail(buffer[c]) \in Seq(Results)
            /\ Len(Tail(buffer[c])) <= Len(buffer[c]) /\ Len(buffer[c]) \in Nat
            /\ Len(Tail(buffer[c])) \in Nat
        BY <1>4, <4>1
      <4>3. sseBufferSize \in Nat
        BY StreamAssumption
      <4> QED
        BY <1>4, <4>2, <4>3
    <3>2. Append(socket[c], Head(buffer[c])) \in Seq(Results)
      BY <1>4, <3>1
    <3> QED
      BY <2>1, <3>1, <3>2 DEF ServeSSE, StreamTypeOK
  <2>2. CASE Unsubscribe(c)
    <3>1. <<>> \in Seq(Results) /\ Len(<<>>) <= sseBufferSize
      <4>1. sseBufferSize \in Nat
        BY StreamAssumption
      <4>2. Len(<<>>) = 0 /\ <<>> \in Seq(Results)
        OBVIOUS
      <4> QED
        BY <4>1, <4>2
    <3> QED
      BY <2>2, <3>1 DEF Unsubscribe, StreamTypeOK
  <2>3. CASE PushToSession(c)
    <3>1. Head(socket[c]) \in Results /\ Tail(socket[c]) \in Seq(Results)
      BY <2>3, <1>4 DEF PushToSession
    <3>2. Append(session, Head(socket[c])) \in Seq(Results)
      BY <1>4, <3>1
    <3> QED
      BY <2>3, <3>1, <3>2 DEF PushToSession, StreamTypeOK
  <2>4. CASE Break(c)
    <3>1. <<>> \in Seq(Results)
      OBVIOUS
    <3> QED
      BY <2>4, <3>1 DEF Break, StreamTypeOK
  <2>5. CASE Subscribe(c) \/ ConnectToStream(c) \/ \E ev \in {"error", "close"} : HandleDisconnect(c, ev)
    BY <2>5 DEF Subscribe, ConnectToStream, HandleDisconnect, StreamTypeOK
  <2> QED
    BY <2>1, <2>2, <2>3, <2>4, <2>5 DEF RelayStep
<1>6. FlowOK'
  BY <1>2, <1>3, <1>5 DEF FlowOK
<1>7. RoutingOK' /\ OutputsOK'
  BY <1>1 DEF RoutingOK, OutputsOK, StreamTypeOK, Destination
<1>8. StreamTypeOK'
  BY <1>6, <1>7, StreamTypeParts, PTL
<1> QED
  BY <1>1, <1>8

-----------------------------------------------------------------------------
(* Results: there is one stream, and it starts empty *)

StreamShape == OneStream /\ \A c \in Connections : Clean(c)

LEMMA ConnIs ==
  ASSUME StreamTypeOK, NEW c \in Connections, NEW k, ConnBecomes(c, k)
  PROVE conn'[c] = k /\ \A d \in Connections : d # c => conn'[d] = conn[d]
BY DEF ConnBecomes, StreamTypeOK

LEMMA RouteShape ==
  ASSUME StreamTypeOK, StreamShape, NEW r \in Results, RouteStep(r)
  PROVE StreamShape'
<1>1. UNCHANGED <<clients, socket, conn, timers>> /\ (Emit(r) \/ UNCHANGED buffer)
  BY RouteTypeStep
<1>2. \A c \in Connections : c \notin clients => buffer'[c] = buffer[c]
  BY <1>1 DEF Emit
<1>3. OneStream'
  BY <1>1 DEF StreamShape, OneStream, Live
<1> QED
  BY <1>1, <1>2, <1>3 DEF StreamShape, Clean

LEMMA RelayShape ==
  ASSUME StreamTypeOK, StreamShape, NEW c \in Connections, RelayStep(c)
  PROVE StreamShape'
<1> USE DEF outputVars, hubVars, relayVars
<1>h. OneStream /\ (\A d \in Connections : Clean(d)) /\ timers \in Nat
  BY DEF StreamShape, StreamTypeOK
<1>0. ASSUME UNCHANGED <<conn, timers>> PROVE OneStream'
  BY <1>h, <1>0 DEF OneStream, Live
<1>k. ASSUME NEW k, ConnBecomes(c, k), UNCHANGED timers, Live(c)' => Live(c)
      PROVE OneStream'
  BY <1>h, <1>k, ConnIs DEF OneStream, Live
<1>1. CASE Subscribe(c)
  <2>1. PICK k : /\ ConnBecomes(c, k) /\ ~k.accepted /\ conn[c].accepted
                 /\ k.state = conn[c].state /\ k.events = conn[c].events
                 /\ k.reconnecting = conn[c].reconnecting
    BY <1>1, ConnStep
  <2>2. conn'[c] = k /\ \A d \in Connections : d # c => conn'[d] = conn[d]
    BY <2>1, ConnIs
  <2>3. UNCHANGED <<buffer, socket, timers>> /\ clients' = clients \union {c}
    BY <1>1 DEF Subscribe
  <2>4. OneStream'
    BY <1>k, <2>1, <2>2, <2>3 DEF Live
  <2>5. \A d \in Connections : Clean(d)'
    BY <1>h, <2>1, <2>2, <2>3 DEF Clean
  <2> QED
    BY <2>4, <2>5 DEF StreamShape
<1>2. CASE ServeSSE(c)
  <2>1. UNCHANGED <<clients, conn, timers>> /\ c \in clients
        /\ (\A d \in Connections : d # c => buffer'[d] = buffer[d] /\ socket'[d] = socket[d])
        /\ (conn[c].state # "open" => socket'[c] = socket[c])
    BY <1>2 DEF ServeSSE, StreamTypeOK
  <2>2. \A d \in Connections : Clean(d)'
    BY <1>h, <2>1 DEF Clean
  <2> QED
    BY <1>0, <2>1, <2>2 DEF StreamShape
<1>3. CASE Unsubscribe(c)
  <2>1. UNCHANGED <<socket, conn, timers>> /\ clients' = clients \ {c} /\ conn[c].state = "closed"
        /\ buffer'[c] = <<>> /\ (\A d \in Connections : d # c => buffer'[d] = buffer[d])
    BY <1>3 DEF Unsubscribe, StreamTypeOK
  <2>2. \A d \in Connections : Clean(d)'
    BY <1>h, <2>1 DEF Clean
  <2> QED
    BY <1>0, <2>1, <2>2 DEF StreamShape
<1>4. CASE ConnectToStream(c)
  <2>1. PICK k : /\ ConnBecomes(c, k) /\ conn[c] = NoConnection /\ ~k.reconnecting
                 /\ \/ k.state = "open" /\ k.events = {}
                    \/ k.state = "closed" /\ k.events = {"error", "close"} /\ ~k.accepted
    BY <1>4, ConnStep
  <2>2. conn'[c] = k /\ \A d \in Connections : d # c => conn'[d] = conn[d]
    BY <2>1, ConnIs
  <2>3. UNCHANGED <<clients, buffer, socket>> /\ timers > 0 /\ timers' = timers - 1
    BY <1>4 DEF ConnectToStream
  <2>4. timers = 1 /\ timers' = 0
    BY <1>h, <2>3 DEF OneStream
  <2>5. OneStream'
    <3>1. \A d \in Connections : ~Live(d)
      BY <1>h, <2>4 DEF OneStream
    <3>2. \A d \in Connections : d # c => ~Live(d)'
      BY <2>2, <3>1 DEF Live
    <3>3. timers' <= 1 /\ timers' # 1
      BY <2>4
    <3> QED
      BY <3>2, <3>3 DEF OneStream
  <2>6. conn[c].state = "unused"
    BY <2>1 DEF NoConnection
  <2>7. \A d \in Connections : Clean(d)'
    BY <1>h, <2>1, <2>2, <2>3, <2>6 DEF Clean
  <2> QED
    BY <2>5, <2>7 DEF StreamShape
<1>5. CASE PushToSession(c)
  <2>1. UNCHANGED <<clients, buffer, conn, timers>> /\ conn[c].state = "open"
        /\ (\A d \in Connections : d # c => socket'[d] = socket[d])
    BY <1>5 DEF PushToSession, StreamTypeOK
  <2>2. \A d \in Connections : Clean(d)'
    BY <1>h, <2>1 DEF Clean
  <2> QED
    BY <1>0, <2>1, <2>2 DEF StreamShape
<1>6. CASE Break(c)
  <2>1. PICK k : /\ ConnBecomes(c, k) /\ conn[c].state = "open" /\ k.state = "closed"
                 /\ k.events # {} /\ k.accepted = conn[c].accepted
                 /\ k.reconnecting = conn[c].reconnecting
    BY <1>6, ConnStep
  <2>2. conn'[c] = k /\ \A d \in Connections : d # c => conn'[d] = conn[d]
    BY <2>1, ConnIs
  <2>3. UNCHANGED <<clients, buffer, timers>> /\ socket'[c] = <<>>
        /\ (\A d \in Connections : d # c => socket'[d] = socket[d])
    BY <1>6 DEF Break, StreamTypeOK
  <2>4. OneStream'
    BY <1>k, <2>1, <2>2, <2>3 DEF Live
  <2>5. \A d \in Connections : Clean(d)'
    BY <1>h, <2>1, <2>2, <2>3 DEF Clean
  <2> QED
    BY <2>4, <2>5 DEF StreamShape
<1>7. ASSUME NEW ev \in {"error", "close"}, HandleDisconnect(c, ev) PROVE StreamShape'
  <2>1. PICK k : /\ ConnBecomes(c, k) /\ ev \in conn[c].events /\ k.state = conn[c].state
                 /\ k.reconnecting /\ k.accepted = conn[c].accepted
    BY <1>7, ConnStep
  <2>2. conn'[c] = k /\ \A d \in Connections : d # c => conn'[d] = conn[d]
    BY <2>1, ConnIs
  <2>3. UNCHANGED <<clients, buffer, socket>>
        /\ timers' = IF conn[c].reconnecting THEN timers ELSE timers + 1
    BY <1>7 DEF HandleDisconnect
  <2>4. conn[c].state = "closed"
    BY <1>h, <2>1 DEF Clean, StreamTypeOK, Connection
  <2>5. ~Live(c)'
    BY <2>1, <2>2, <2>4 DEF Live
  <2>6. OneStream'
    <3>1. CASE conn[c].reconnecting
      BY <1>k, <2>1, <2>3, <2>5, <3>1
    <3>2. CASE ~conn[c].reconnecting
      <4>1. Live(c)
        BY <2>1, <3>2 DEF Live
      <4>2. timers = 0 /\ timers' = 1
        <5>1. timers <= 1 /\ timers # 1
          BY <1>h, <4>1 DEF OneStream
        <5> QED
          BY <1>h, <2>3, <3>2, <5>1
      <4>3. \A d \in Connections : d # c => ~Live(d)
        BY <1>h, <4>1 DEF OneStream
      <4>4. \A d \in Connections : ~Live(d)'
        BY <2>2, <2>5, <4>3 DEF Live
      <4>5. timers' <= 1
        BY <4>2
      <4> QED
        BY <4>4, <4>5 DEF OneStream
    <3> QED
      BY <3>1, <3>2
  <2>7. \A d \in Connections : Clean(d)'
    BY <1>h, <2>1, <2>2, <2>3, <2>4 DEF Clean
  <2> QED
    BY <2>6, <2>7 DEF StreamShape
<1> QED
  BY <1>1, <1>2, <1>3, <1>4, <1>5, <1>6, <1>7 DEF RelayStep

-----------------------------------------------------------------------------
(* Results: nothing is pushed that was not emitted *)

CountInv ==
  \A r \in Results :
    /\ Times(session, r) <= Cardinality(Emitted(r))
    /\ \A c \in Connections : Times(session, r) + OnItsWay(c, r) <= Cardinality(Emitted(r))
    /\ r \in Leaking =>
         /\ r \notin telegram /\ Times(session, r) = 0
         /\ \A c \in Connections : Times(buffer[c], r) = 0 /\ Times(socket[c], r) = 0

LEMMA PushParts == PushInv <=> StreamShape /\ CountInv
BY DEF PushInv, StreamShape, CountInv

LEMMA EmittedFinite ==
  ASSUME StreamTypeOK, NEW r \in Results
  PROVE /\ IsFiniteSet(Emitted(r)) /\ Cardinality(Emitted(r)) \in Nat
        /\ Cardinality(Emitted(r)) <= Times(ReplyTo[r], "channel")
<1> DEFINE All == {i \in DOMAIN ReplyTo[r] : ReplyTo[r][i] = "channel"}
<1>1. IsFiniteSet(All)
  <2> DEFINE D == {"telegram", "stdout", "file", "channel", "", "other"}
             s == ReplyTo[r]
  <2>1. s \in Seq(D)
    BY StreamFacts
  <2> HIDE DEF D, s
  <2>2. IsFiniteSet({i \in DOMAIN s : s[i] = "channel"})
    BY <2>1, TimesFinite
  <2> QED
    BY <2>2 DEF s
<1>2. Emitted(r) \in SUBSET All
  BY DEF Emitted
<1>3. IsFiniteSet(Emitted(r)) /\ Cardinality(Emitted(r)) <= Cardinality(All)
  BY <1>1, <1>2, FS_Subset
<1> QED
  BY <1>3, FS_CardinalityType DEF Times

(* Routing only adds to what was emitted, and Emit adds one event. *)
LEMMA EmittedGrows ==
  ASSUME StreamTypeOK, StreamTypeOK', NEW r \in Results, RouteStep(r), NEW q \in Results
  PROVE /\ Cardinality(Emitted(q)) <= Cardinality(Emitted(q)') /\ Cardinality(Emitted(q)') \in Nat
        /\ Emit(r) /\ q = r => Cardinality(Emitted(q)') = Cardinality(Emitted(q)) + 1
<1>1. PICK at \in Nat, pc \in {"idle", "emit", "count", "mark"} :
        /\ RoutedTo(r, at, pc)
        /\ \/ at = routing[r].at + 1 /\ pc = "idle"
           \/ at = routing[r].at /\ (Emit(r) => pc = "count")
              /\ (routing[r].pc \in {"count", "mark"} => pc \in {"count", "mark"})
  BY RoutingStep DEF RouteStep
<1>2. /\ DOMAIN ReplyTo[q] = 1 .. Len(ReplyTo[q]) /\ Len(ReplyTo[q]) \in Nat
      /\ routing[q].at \in Nat /\ routing[r].at \in Nat
  BY StreamFacts
<1>3. Emitted(q)' = {i \in DOMAIN ReplyTo[q] :
                       /\ ReplyTo[q][i] = "channel"
                       /\ i < routing'[q].at \/ (i = routing'[q].at /\ routing'[q].pc \in {"count", "mark"})}
  BY DEF Emitted
<1>4. Emitted(q) \in SUBSET Emitted(q)'
  <2>1. CASE q # r
    BY <1>1, <1>3, <2>1 DEF RoutedTo, Emitted
  <2>2. CASE q = r
    <3>1. routing'[q].at = at /\ routing'[q].pc = pc
      BY <1>1, <2>2 DEF RoutedTo
    <3>2. ASSUME NEW i \in DOMAIN ReplyTo[q],
                 i < routing[q].at \/ (i = routing[q].at /\ routing[q].pc \in {"count", "mark"})
          PROVE i < at \/ (i = at /\ pc \in {"count", "mark"})
      BY <1>1, <1>2, <2>2, <3>2
    <3> QED
      BY <1>3, <3>1, <3>2 DEF Emitted
  <2> QED
    BY <2>1, <2>2
<1>5. IsFiniteSet(Emitted(q)) /\ IsFiniteSet(Emitted(q)')
  <2>1. IsFiniteSet(Emitted(q))
    BY EmittedFinite
  <2>2. IsFiniteSet(DOMAIN ReplyTo[q])
    <3>1. 1 \in Int /\ Len(ReplyTo[q]) \in Int
      BY <1>2
    <3> QED
      BY <1>2, <3>1, FS_Interval
  <2>3. Emitted(q)' \in SUBSET DOMAIN ReplyTo[q]
    BY <1>3
  <2>4. IsFiniteSet(Emitted(q)')
    BY <2>2, <2>3, FS_Subset
  <2> QED
    BY <2>1, <2>4
<1>6. Cardinality(Emitted(q)) <= Cardinality(Emitted(q)')
  BY <1>4, <1>5, FS_Subset
<1>7. ASSUME Emit(r), q = r PROVE Cardinality(Emitted(q)') = Cardinality(Emitted(q)) + 1
  <2> DEFINE n == routing[r].at
  <2>1. /\ routing[r].pc = "emit" /\ n <= Len(ReplyTo[r]) /\ ReplyTo[r][n] = "channel" /\ n >= 1
    BY <1>7, StreamFacts DEF Emit, StreamTypeOK, Destination
  <2>2. n \in DOMAIN ReplyTo[q] /\ n \notin Emitted(q)
    BY <1>2, <1>7, <2>1 DEF Emitted
  <2>3. routing'[q].at = n /\ routing'[q].pc = "count"
    <3>1. routing' = [routing EXCEPT ![r].pc = "count"]
      BY <1>7 DEF Emit
    <3> QED
      BY <1>7, <3>1, PcIs DEF RoutedTo
  <2>4. Emitted(q)' = Emitted(q) \union {n}
    BY <1>2, <1>3, <1>7, <2>1, <2>2, <2>3 DEF Emitted
  <2> QED
    BY <1>5, <2>2, <2>4, FS_AddElement
<1>8. Cardinality(Emitted(q)') \in Nat
  BY <1>5, FS_CardinalityType
<1> QED
  BY <1>6, <1>7, <1>8

LEMMA RouteCount ==
  ASSUME StreamTypeOK, StreamTypeOK', CountInv, NEW r \in Results, RouteStep(r)
  PROVE CountInv'
<1>1. /\ UNCHANGED <<clients, socket, conn, session>> /\ (Emit(r) \/ UNCHANGED buffer)
      /\ \A q \in Results : q \in telegram' /\ q \in Leaking => q \in telegram
  BY RouteTypeStep
<1>2. ASSUME NEW q \in Results, NEW c \in Connections
      PROVE /\ Times(buffer[c], q) \in Nat /\ Times(buffer'[c], q) \in Nat
            /\ Times(buffer'[c], q) <= Times(buffer[c], q) + (IF Emit(r) /\ q = r THEN 1 ELSE 0)
            /\ (q \in Leaking => Times(buffer'[c], q) = Times(buffer[c], q))
  <2>0. buffer[c] \in Seq(Results) /\ Times(buffer[c], q) \in Nat
    BY TimesFinite DEF StreamTypeOK
  <2>1. CASE buffer'[c] = buffer[c]
    BY <2>0, <2>1
  <2>2. CASE Emit(r) /\ buffer'[c] = Append(buffer[c], r)
    <3>1. r \notin Leaking
      BY <2>2 DEF Emit, StreamTypeOK
    <3>2. Times(buffer'[c], q) = IF r = q THEN Times(buffer[c], q) + 1 ELSE Times(buffer[c], q)
      BY <2>0, <2>2, TimesAppend
    <3>3. Times(buffer[c], q) + 1 \in Nat
      BY <2>0
    <3> QED
      BY <2>0, <2>2, <3>1, <3>2, <3>3
  <2>3. buffer'[c] = buffer[c] \/ (Emit(r) /\ buffer'[c] = Append(buffer[c], r))
    BY <1>1 DEF Emit
  <2> QED
    BY <2>1, <2>2, <2>3
<1>3. ASSUME NEW q \in Results
      PROVE /\ Cardinality(Emitted(q)) \in Nat /\ Cardinality(Emitted(q)') \in Nat
            /\ Cardinality(Emitted(q)) + (IF Emit(r) /\ q = r THEN 1 ELSE 0) <= Cardinality(Emitted(q)')
  <2>1. Cardinality(Emitted(q)) \in Nat
    BY EmittedFinite
  <2>2. Cardinality(Emitted(q)) <= Cardinality(Emitted(q)')
        /\ (Emit(r) /\ q = r => Cardinality(Emitted(q)') = Cardinality(Emitted(q)) + 1)
    BY EmittedGrows
  <2>3. Cardinality(Emitted(q)') \in Nat
    BY EmittedGrows
  <2> QED
    BY <2>1, <2>2, <2>3
<1>4. ASSUME NEW q \in Results
      PROVE /\ Times(session', q) <= Cardinality(Emitted(q)')
            /\ \A c \in Connections : Times(session', q) + OnItsWay(c, q)' <= Cardinality(Emitted(q)')
            /\ q \in Leaking =>
                 /\ q \notin telegram' /\ Times(session', q) = 0
                 /\ \A c \in Connections : Times(buffer'[c], q) = 0 /\ Times(socket'[c], q) = 0
  <2>0. session' = session /\ Times(session, q) \in Nat
    BY <1>1, TimesFinite DEF StreamTypeOK
  <2>1. Times(session', q) <= Cardinality(Emitted(q)')
    BY <1>3, <2>0 DEF CountInv
  <2>2. ASSUME NEW c \in Connections
        PROVE Times(session', q) + OnItsWay(c, q)' <= Cardinality(Emitted(q)')
    <3>1. OnItsWay(c, q)' = IF conn[c].state = "open" THEN Times(buffer'[c], q) + Times(socket[c], q) ELSE 0
      BY <1>1 DEF OnItsWay
    <3>2. Times(socket[c], q) \in Nat
      BY TimesFinite DEF StreamTypeOK
    <3>3. Times(session, q) + OnItsWay(c, q) <= Cardinality(Emitted(q))
      BY DEF CountInv
    <3> QED
      BY <1>2, <1>3, <2>0, <3>1, <3>2, <3>3 DEF OnItsWay
  <2>3. q \in Leaking =>
          /\ q \notin telegram' /\ Times(session', q) = 0
          /\ \A c \in Connections : Times(buffer'[c], q) = 0 /\ Times(socket'[c], q) = 0
    BY <1>1, <1>2, <2>0 DEF CountInv
  <2> QED
    BY <2>1, <2>2, <2>3
<1> QED
  BY <1>4 DEF CountInv

LEMMA RelayCount ==
  ASSUME StreamTypeOK, StreamShape, CountInv, NEW c \in Connections, RelayStep(c)
  PROVE CountInv'
<1> USE DEF outputVars, hubVars, relayVars
<1>t. /\ buffer[c] \in Seq(Results) /\ socket[c] \in Seq(Results) /\ session \in Seq(Results)
      /\ UNCHANGED <<routing, telegram>>
  BY RelayTypeStep DEF StreamTypeOK
<1>e. \A q \in Results : Emitted(q)' = Emitted(q)
  BY <1>t DEF Emitted
<1>n. ASSUME NEW q \in Results, NEW d \in Connections
      PROVE /\ Times(buffer[d], q) \in Nat /\ Times(socket[d], q) \in Nat /\ Times(session, q) \in Nat
            /\ OnItsWay(d, q) \in Nat /\ Cardinality(Emitted(q)) \in Nat
  <2>1. /\ Times(buffer[d], q) \in Nat /\ Times(socket[d], q) \in Nat /\ Times(session, q) \in Nat
        /\ Cardinality(Emitted(q)) \in Nat
    BY TimesFinite, EmittedFinite DEF StreamTypeOK
  <2> QED
    BY <2>1 DEF OnItsWay
(* What is on its way, and what was pushed with it, never grows. *)
<1>s. ASSUME \A q \in Results :
               /\ Times(session', q) <= Cardinality(Emitted(q))
               /\ \A d \in Connections : Times(session', q) + OnItsWay(d, q)' <= Cardinality(Emitted(q))
               /\ q \in Leaking =>
                    /\ Times(session', q) = 0
                    /\ \A d \in Connections : Times(buffer'[d], q) = 0 /\ Times(socket'[d], q) = 0
      PROVE CountInv'
  <2>1. \A q \in Results : q \in Leaking => q \notin telegram
    BY DEF CountInv
  <2> QED
    BY <1>t, <1>e, <1>s, <2>1 DEF CountInv
<1>h. ASSUME NEW q \in Results
      PROVE /\ Times(session, q) <= Cardinality(Emitted(q))
            /\ \A d \in Connections : Times(session, q) + OnItsWay(d, q) <= Cardinality(Emitted(q))
            /\ q \in Leaking =>
                 /\ Times(session, q) = 0
                 /\ \A d \in Connections : Times(buffer[d], q) = 0 /\ Times(socket[d], q) = 0
  BY DEF CountInv
<1>1. CASE UNCHANGED <<buffer, socket, session>> /\ \A d \in Connections : conn'[d].state = conn[d].state
  BY <1>1, <1>s, <1>h DEF OnItsWay
<1>2. CASE ServeSSE(c)
  <2>1. /\ UNCHANGED <<conn, session>> /\ buffer[c] # <<>> /\ buffer'[c] = Tail(buffer[c])
        /\ socket'[c] = IF conn[c].state = "open" THEN Append(socket[c], Head(buffer[c])) ELSE socket[c]
        /\ \A d \in Connections : d # c => buffer'[d] = buffer[d] /\ socket'[d] = socket[d]
    BY <1>2 DEF ServeSSE, StreamTypeOK
  <2>2. ASSUME NEW q \in Results
        PROVE /\ OnItsWay(c, q)' = OnItsWay(c, q)
              /\ q \in Leaking => Times(buffer'[c], q) = 0 /\ Times(socket'[c], q) = 0
    <3>1. /\ Head(buffer[c]) \in Results /\ Tail(buffer[c]) \in Seq(Results)
          /\ Times(buffer[c], q) = IF Head(buffer[c]) = q THEN Times(Tail(buffer[c]), q) + 1
                                                          ELSE Times(Tail(buffer[c]), q)
      BY <1>t, <2>1, TimesTail
    <3>2. Times(Tail(buffer[c]), q) \in Nat
      BY <3>1, TimesFinite
    <3>3. Times(Append(socket[c], Head(buffer[c])), q) =
            IF Head(buffer[c]) = q THEN Times(socket[c], q) + 1 ELSE Times(socket[c], q)
      BY <1>t, <3>1, TimesAppend
    <3>4. OnItsWay(c, q)' = IF conn[c].state = "open" THEN Times(buffer'[c], q) + Times(socket'[c], q) ELSE 0
      BY <2>1 DEF OnItsWay
    <3>5. OnItsWay(c, q)' = OnItsWay(c, q)
      BY <1>n, <2>1, <3>1, <3>2, <3>3, <3>4 DEF OnItsWay
    <3>6. q \in Leaking => Times(buffer'[c], q) = 0 /\ Times(socket'[c], q) = 0
      BY <1>h, <1>n, <2>1, <3>1, <3>2, <3>3, SMTT(30)
    <3> QED
      BY <3>5, <3>6
  <2>3. \A q \in Results, d \in Connections : d # c => OnItsWay(d, q)' = OnItsWay(d, q)
    BY <2>1 DEF OnItsWay
  <2> QED
    BY <1>s, <1>h, <2>1, <2>2, <2>3
<1>3. CASE Unsubscribe(c)
  <2>1. /\ UNCHANGED <<socket, conn, session>> /\ conn[c].state = "closed" /\ buffer'[c] = <<>>
        /\ \A d \in Connections : d # c => buffer'[d] = buffer[d]
    BY <1>3 DEF Unsubscribe, StreamTypeOK
  <2>2. \A q \in Results, d \in Connections : OnItsWay(d, q)' = OnItsWay(d, q)
    BY <2>1 DEF OnItsWay
  <2>3. \A q \in Results : Times(buffer'[c], q) = 0
    BY <2>1, TimesEmpty
  <2> QED
    BY <1>s, <1>h, <2>1, <2>2, <2>3
<1>4. CASE ConnectToStream(c)
  <2>1. PICK k : ConnBecomes(c, k) /\ conn[c] = NoConnection
    BY <1>4, ConnStep
  <2>2. \A d \in Connections : d # c => conn'[d] = conn[d]
    BY <2>1, ConnIs
  <2>3. UNCHANGED <<buffer, socket, session>>
    BY <1>4 DEF ConnectToStream
  <2>4. buffer[c] = <<>> /\ socket[c] = <<>>
    BY <2>1 DEF StreamShape, Clean, NoConnection
  <2>5. \A q \in Results : OnItsWay(c, q)' = 0
    <3>1. \A q \in Results : OnItsWay(c, q)' = IF conn'[c].state = "open" THEN 0 + 0 ELSE 0
      BY <2>3, <2>4, TimesEmpty DEF OnItsWay
    <3> QED
      BY <3>1
  <2>6. \A q \in Results, d \in Connections : d # c => OnItsWay(d, q)' = OnItsWay(d, q)
    BY <2>2, <2>3 DEF OnItsWay
  <2>7. ASSUME NEW q \in Results, NEW d \in Connections
        PROVE Times(session', q) + OnItsWay(d, q)' <= Cardinality(Emitted(q))
    BY <1>h, <1>n, <2>3, <2>5, <2>6
  <2> QED
    BY <1>s, <1>h, <2>3, <2>7
<1>5. CASE PushToSession(c)
  <2>1. /\ UNCHANGED <<conn, buffer>> /\ conn[c].state = "open" /\ socket[c] # <<>>
        /\ socket'[c] = Tail(socket[c]) /\ session' = Append(session, Head(socket[c]))
        /\ \A d \in Connections : d # c => socket'[d] = socket[d]
    BY <1>5 DEF PushToSession, StreamTypeOK
  <2>2. ASSUME NEW q \in Results
        PROVE /\ Times(session', q) + OnItsWay(c, q)' = Times(session, q) + OnItsWay(c, q)
              /\ OnItsWay(c, q)' \in Nat /\ Times(session', q) \in Nat
              /\ q \in Leaking => Times(session', q) = 0 /\ Times(socket'[c], q) = 0
    <3>1. /\ Head(socket[c]) \in Results /\ Tail(socket[c]) \in Seq(Results)
          /\ Times(socket[c], q) = IF Head(socket[c]) = q THEN Times(Tail(socket[c]), q) + 1
                                                          ELSE Times(Tail(socket[c]), q)
      BY <1>t, <2>1, TimesTail
    <3>2. Times(Tail(socket[c]), q) \in Nat
      BY <3>1, TimesFinite
    <3>3. Times(Append(session, Head(socket[c])), q) =
            IF Head(socket[c]) = q THEN Times(session, q) + 1 ELSE Times(session, q)
      BY <1>t, <3>1, TimesAppend
    <3>4. OnItsWay(c, q)' = Times(buffer[c], q) + Times(socket'[c], q)
      BY <2>1 DEF OnItsWay
    <3>5. OnItsWay(c, q) = Times(buffer[c], q) + Times(socket[c], q)
      BY <2>1 DEF OnItsWay
    <3>6. q \in Leaking => Times(session', q) = 0 /\ Times(socket'[c], q) = 0
      BY <1>h, <1>n, <2>1, <3>1, <3>2, <3>3
    <3>7. /\ Times(session', q) + OnItsWay(c, q)' = Times(session, q) + OnItsWay(c, q)
          /\ OnItsWay(c, q)' \in Nat /\ Times(session', q) \in Nat
      <4> DEFINE b == Times(buffer[c], q)
                 p == Times(session, q)
                 s == Times(Tail(socket[c]), q)
      <4>1. b \in Nat /\ p \in Nat /\ s \in Nat
        BY <1>n, <3>2
      <4>2. OnItsWay(c, q)' = b + s
        BY <2>1, <3>4
      <4>3. OnItsWay(c, q) = b + (IF Head(socket[c]) = q THEN s + 1 ELSE s)
        BY <3>1, <3>5
      <4>4. Times(session', q) = IF Head(socket[c]) = q THEN p + 1 ELSE p
        BY <2>1, <3>3
      <4> HIDE DEF b, p, s
      <4>5. Times(session', q) + OnItsWay(c, q)' = p + OnItsWay(c, q)
        BY <4>1, <4>2, <4>3, <4>4
      <4>6. OnItsWay(c, q)' \in Nat /\ Times(session', q) \in Nat
        BY <4>1, <4>2, <4>4
      <4> QED
        BY <4>5, <4>6 DEF p
    <3> QED
      BY <3>6, <3>7
  <2>3. \A d \in Connections : d # c => conn[d].state # "open"
    BY <2>1 DEF StreamShape, OneStream, Live
  <2>4. \A q \in Results, d \in Connections : d # c => OnItsWay(d, q)' = 0
    BY <2>1, <2>3 DEF OnItsWay
  <2>5. ASSUME NEW q \in Results, NEW d \in Connections
        PROVE /\ Times(session', q) + OnItsWay(d, q)' <= Cardinality(Emitted(q))
              /\ Times(session', q) <= Cardinality(Emitted(q))
    <3>1. Times(session, q) + OnItsWay(c, q) <= Cardinality(Emitted(q))
      BY <1>h
    <3>2. Times(session', q) <= Cardinality(Emitted(q))
      BY <1>n, <2>2, <3>1
    <3> QED
      BY <1>n, <2>2, <2>4, <3>1, <3>2
  <2> QED
    BY <1>s, <1>h, <2>1, <2>2, <2>5
<1>6. CASE Break(c)
  <2>1. PICK k : ConnBecomes(c, k) /\ k.state = "closed"
    BY <1>6, ConnStep
  <2>2. conn'[c] = k /\ \A d \in Connections : d # c => conn'[d] = conn[d]
    BY <2>1, ConnIs
  <2>3. /\ UNCHANGED <<buffer, session>> /\ socket'[c] = <<>>
        /\ \A d \in Connections : d # c => socket'[d] = socket[d]
    BY <1>6 DEF Break, StreamTypeOK
  <2>4. \A q \in Results : OnItsWay(c, q)' = 0 /\ Times(socket'[c], q) = 0
    BY <2>1, <2>2, <2>3, TimesEmpty DEF OnItsWay
  <2>5. \A q \in Results, d \in Connections : d # c => OnItsWay(d, q)' = OnItsWay(d, q)
    BY <2>2, <2>3 DEF OnItsWay
  <2>6. ASSUME NEW q \in Results, NEW d \in Connections
        PROVE Times(session', q) + OnItsWay(d, q)' <= Cardinality(Emitted(q))
    BY <1>h, <1>n, <2>3, <2>4, <2>5
  <2> QED
    BY <1>s, <1>h, <2>3, <2>4, <2>6
<1>7. CASE Subscribe(c) \/ \E ev \in {"error", "close"} : HandleDisconnect(c, ev)
  <2>1. UNCHANGED <<buffer, socket, session>>
    BY <1>7 DEF Subscribe, HandleDisconnect
  <2>2. PICK k : ConnBecomes(c, k) /\ k.state = conn[c].state
    BY <1>7, ConnStep
  <2>3. \A d \in Connections : conn'[d].state = conn[d].state
    BY <2>2, ConnIs
  <2> QED
    BY <1>1, <2>1, <2>3
<1> QED
  BY <1>2, <1>3, <1>4, <1>5, <1>6, <1>7 DEF RelayStep

LEMMA PushStep ==
  StreamTypeOK /\ PushInv /\ [StreamNext]_streamVars => StreamTypeOK' /\ PushInv'
<1> SUFFICES ASSUME StreamTypeOK, PushInv, [StreamNext]_streamVars
             PROVE StreamTypeOK' /\ PushInv'
  OBVIOUS
<1>0. StreamShape /\ CountInv
  BY PushParts
<1>1. ASSUME NEW r \in Results, RouteStep(r) PROVE StreamTypeOK' /\ StreamShape' /\ CountInv'
  <2>1. StreamTypeOK' /\ StreamShape'
    BY <1>0, <1>1, RouteTypeStep, RouteShape
  <2> QED
    BY <1>0, <1>1, <2>1, RouteCount
<1>2. ASSUME NEW c \in Connections, RelayStep(c) PROVE StreamTypeOK' /\ StreamShape' /\ CountInv'
  BY <1>0, <1>2, RelayTypeStep, RelayShape, RelayCount
<1>3. ASSUME UNCHANGED streamVars PROVE StreamTypeOK' /\ StreamShape' /\ CountInv'
  <2>1. StreamTypeOK'
    BY <1>3 DEF streamVars, StreamTypeOK, Destination
  <2>2. StreamShape'
    BY <1>0, <1>3 DEF streamVars, StreamShape, OneStream, Live, Clean
  <2>3. CountInv'
    BY <1>0, <1>3 DEF streamVars, CountInv, OnItsWay, Emitted
  <2> QED
    BY <2>1, <2>2, <2>3
<1>4. (\E r \in Results : RouteStep(r)) \/ (\E c \in Connections : RelayStep(c)) \/ UNCHANGED streamVars
  BY DEF StreamNext, RouteStep, RelayStep
<1>5. StreamTypeOK' /\ StreamShape' /\ CountInv'
  BY <1>1, <1>2, <1>3, <1>4
<1>6. PushInv'
  BY <1>5, PushParts, PTL
<1> QED
  BY <1>5, <1>6

LEMMA StreamStart == StreamInit => StreamTypeOK /\ PushInv
<1> SUFFICES ASSUME StreamInit PROVE StreamTypeOK /\ PushInv
  OBVIOUS
<1>1. /\ routing \in [Results -> Routing]
      /\ \A r \in Results : routing[r].at = 1 /\ routing[r].pc \in {"idle", "never"}
  <2>1. PICK finished \in ResultsTogether :
          routing = [r \in Results |-> [at |-> 1, pc |-> IF r \in finished THEN "idle" ELSE "never"]]
    BY DEF StreamInit
  <2>2. \A pc \in {"idle", "never"} : [at |-> 1, pc |-> pc] \in Routing
    BY DEF Routing
  <2> QED
    BY <2>1, <2>2
<1>2. /\ buffer \in [Connections -> Seq(Results)] /\ socket \in [Connections -> Seq(Results)]
      /\ session \in Seq(Results) /\ session = <<>>
      /\ \A c \in Connections : buffer[c] = <<>> /\ socket[c] = <<>>
  BY DEF StreamInit
<1>3. /\ conn \in [Connections -> Connection]
      /\ \A c \in Connections : /\ conn[c].state = "unused" /\ ~conn[c].accepted
                                /\ conn[c].events = {} /\ ~conn[c].reconnecting
  <2>1. NoConnection \in Connection /\ NoConnection.state = "unused" /\ ~NoConnection.accepted
        /\ NoConnection.events = {} /\ ~NoConnection.reconnecting
    BY DEF NoConnection, Connection, Events
  <2> HIDE DEF NoConnection
  <2> QED
    BY <2>1 DEF StreamInit
<1>4. telegram = {} /\ files = {} /\ quarantined = {} /\ delivered = {} /\ clients = {} /\ timers = 1
  BY DEF StreamInit
<1>5. StreamTypeOK
  <2>1. sseBufferSize \in Nat
    BY StreamAssumption
  <2>2. \A c \in Connections : Len(buffer[c]) <= sseBufferSize
    <3>1. Len(<<>>) = 0
      OBVIOUS
    <3> QED
      BY <1>2, <2>1, <3>1
  <2>3. ASSUME NEW r \in Results PROVE routing[r].at \in 1 .. (Len(ReplyTo[r]) + 1)
    <3>1. ReplyTo[r] \in Seq({"telegram", "stdout", "file", "channel", "", "other"})
      BY StreamAssumption
    <3>2. Len(ReplyTo[r]) \in Nat
      BY <3>1, SeqLength
    <3>3. 1 \in 1 .. (Len(ReplyTo[r]) + 1)
      BY <3>2
    <3> QED
      BY <1>1, <3>3
  <2>4. RoutingOK
    BY <1>1, <2>3 DEF RoutingOK
  <2>5. OutputsOK /\ FlowOK
    BY <1>2, <1>3, <1>4, <2>2 DEF OutputsOK, FlowOK
  <2> QED
    BY <2>4, <2>5, StreamTypeParts
<1>6. StreamShape
  <2>1. timers <= 1
    BY <1>4
  <2> QED
    BY <1>2, <1>3, <1>4, <2>1 DEF StreamShape, OneStream, Live, Clean
<1>7. CountInv
  <2>1. \A q \in Results : Times(session, q) = 0 /\ Cardinality(Emitted(q)) \in Nat
    BY <1>2, <1>5, TimesEmpty, EmittedFinite
  <2>2. \A q \in Results, c \in Connections :
          OnItsWay(c, q) = 0 /\ Times(buffer[c], q) = 0 /\ Times(socket[c], q) = 0
    BY <1>2, <1>3, TimesEmpty DEF OnItsWay
  <2> QED
    BY <1>4, <2>1, <2>2 DEF CountInv
<1> QED
  BY <1>5, <1>6, <1>7, PushParts

LEMMA PushSound == StreamTypeOK /\ PushInv => PushedOnce
<1> SUFFICES ASSUME StreamTypeOK, PushInv, NEW r \in Results
             PROVE /\ Times(session, r) <= Times(ReplyTo[r], "channel")
                   /\ r \in Leaking => r \notin telegram /\ Times(session, r) = 0
  BY DEF PushedOnce
<1>1. Times(session, r) <= Cardinality(Emitted(r)) /\ Cardinality(Emitted(r)) \in Nat
      /\ Cardinality(Emitted(r)) <= Times(ReplyTo[r], "channel")
  BY EmittedFinite DEF PushInv
<1>2. Times(session, r) \in Nat
  BY TimesFinite DEF StreamTypeOK
<1>3. Times(ReplyTo[r], "channel") \in Nat
  <2> DEFINE D == {"telegram", "stdout", "file", "channel", "", "other"}
             s == ReplyTo[r]
  <2>1. s \in Seq(D)
    BY StreamFacts
  <2> HIDE DEF D, s
  <2>2. Times(s, "channel") \in Nat
    BY <2>1, TimesFinite
  <2> QED
    BY <2>2 DEF s
<1> QED
  BY <1>1, <1>2, <1>3 DEF PushInv

(* Every variable of the result stream keeps to its domain. *)
THEOREM StreamTypeCorrect == StreamSpec => []StreamTypeOK
BY StreamStart, PushStep, PTL DEF StreamSpec

(* The session is given a result once for each time its reply_to names the
   channel and a result with a credential never, for any results, any number of
   connections and any buffer, however the stream breaks. *)
THEOREM PushOnce == StreamSpec => []PushedOnce
BY StreamStart, PushStep, PushSound, PTL DEF StreamSpec

-----------------------------------------------------------------------------
(* The parts side by side *)

(* The product implements each of its parts: a step of it is a step of one part
   and leaves the others alone. *)
LEMMA ServicesImplementParts == ServicesSpec => SkillSpec /\ StreamSpec /\ GoogleSpec
<1>1. ServicesInit => SkillInit /\ StreamInit /\ GoogleInit
  BY DEF ServicesInit
<1>2. [ServicesNext]_<<part, skillVars, streamVars, googleVars>> =>
        [SkillNext]_skillVars /\ [StreamNext]_streamVars /\ [GoogleNext]_googleVars
  BY DEF ServicesNext, InSkills, InStream, InGoogle
<1> QED
  BY <1>1, <1>2, PTL DEF ServicesSpec, SkillSpec, StreamSpec, GoogleSpec

(* Every variable of the skill installation, the result stream and the calls to
   Google keeps to its domain while the three run side by side. *)
THEOREM ServicesTypeCorrect == ServicesSpec => []ServicesTypeOK
BY ServicesImplementParts, SkillTypeCorrect, StreamTypeCorrect, GoogleTypeCorrect, PTL DEF ServicesTypeOK

(* What is proved of each part holds while the three run side by side. *)
THEOREM ServicesSafe ==
  ServicesSpec => [](InstalledAsApproved /\ LoadedIsOneVersion /\ PushedOnce /\ CommandsAreHonest)
BY ServicesImplementParts, OnlyApproved, OneVersion, PushOnce, HonestCommands, PTL
=============================================================================
