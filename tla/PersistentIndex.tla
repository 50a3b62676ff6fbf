--------------------------- MODULE PersistentIndex ---------------------------
(***************************************************************************)
(* The persistent BM25 index of crates/openlocus-index/src/persistent.rs:  *)
(* a Tantivy directory and a manifest.json, written one after the other by *)
(* one command at a time (build, update --dirty, update --path, purge),    *)
(* while the source tree, its ignore files and its policy are edited, a    *)
(* command may die between any two of its steps, and searches and          *)
(* long-lived handles read.                                                *)
(***************************************************************************)
EXTENDS IndexOps

CONSTANTS
    MaxEdits,    \* bound: changes of the source tree, ignore files, policy
    MaxAborts    \* bound: commands that die or fail half-way

ASSUME BoundsAssumption == MaxEdits \in Nat /\ MaxAborts \in Nat

VARIABLES
    \* what the commands do not control
    src,        \* what is at each path of the source tree
    excluded,   \* paths the policy or an ignore file keeps out of the scan
    policy,     \* the policy file of the source root
    \* .openlocus/index on disk
    manifest,
    dir,        \* the Tantivy directory: absent, broken (no usable meta), open
    docs,       \* the documents of the last Tantivy commit
    \* the running command
    pc, mode,
    strat, pol, \* chunk strategy and policy the command works under
    records,    \* its scan of the source tree
    plan,       \* what it has still to do with each path
    files,      \* manifest entries it has prepared
    staged,     \* documents as they will be after its Tantivy commit
    report,     \* outcome the last command returned
    \* readers
    handle,     \* an open PersistentBm25Index, or a search under way
    evidence,   \* the last evidence emitted
    \* history variables and bounds
    quiet,      \* nothing was edited since the running update started
    torn,       \* a command died when manifest and documents disagreed
    orphans,    \* paths whose documents an update deleted with no record
    edits, aborts

envVars     == << src, excluded, policy >>
diskVars    == << manifest, dir, docs >>
cmdVars     == << strat, pol, records, plan, files, staged >>
readVars    == << handle, evidence >>
histVars    == << torn, orphans >>
vars        == << envVars, diskVars, pc, mode, cmdVars, report, readVars,
                  quiet, histVars, edits, aborts >>

NoPlan     == [p \in Paths |-> "none"]
NoRecords  == [p \in Paths |-> Absent]
NoHandle   == [state |-> "closed", policy |-> Absent, docs |-> NoDocs,
               settled |-> FALSE]
Handle     == [state : {"closed", "gated", "open"},
               policy : Policies \cup {Absent}, docs : DocMap,
               settled : BOOLEAN]
NoEvidence == [asked |-> Absent, built |-> Absent, settled |-> FALSE]
Evidence   == [asked : Policies, built : Policies, settled : BOOLEAN]

Init ==
    /\ src \in [Paths -> Texts \cup {Absent}]
    /\ excluded = {}
    /\ policy \in Policies
    /\ manifest = NoManifest /\ dir = "absent" /\ docs = NoDocs
    /\ pc = "idle" /\ mode = "none"
    /\ strat \in Strategies
    /\ pol = policy
    /\ records = NoRecords /\ plan = NoPlan
    /\ files = NoFiles /\ staged = NoDocs
    /\ report = [ok |-> FALSE, clean |-> FALSE]
    /\ handle = NoHandle /\ evidence = NoEvidence
    /\ quiet = FALSE
    /\ torn = FALSE /\ orphans = {}
    /\ edits = 0 /\ aborts = 0

(* What a command holds in memory is gone when it ends.                      *)
ForgetWork ==
    /\ records' = NoRecords /\ plan' = NoPlan
    /\ files' = NoFiles /\ staged' = NoDocs
    /\ UNCHANGED << strat, pol >>

-----------------------------------------------------------------------------
(* The environment.                                                          *)

EditFile(p, c) ==
    /\ edits < MaxEdits
    /\ c # src[p]
    /\ src' = [src EXCEPT ![p] = c]
    /\ edits' = edits + 1
    /\ quiet' = FALSE
    /\ UNCHANGED << excluded, policy, diskVars, pc, mode, cmdVars, report,
                    readVars, histVars, aborts >>

(* A line in an ignore file: the policy hash stays the same.                 *)
EditIgnore(p) ==
    /\ edits < MaxEdits
    /\ excluded' = IF p \in excluded THEN excluded \ {p} ELSE excluded \cup {p}
    /\ edits' = edits + 1
    /\ quiet' = FALSE
    /\ UNCHANGED << src, policy, diskVars, pc, mode, cmdVars, report,
                    readVars, histVars, aborts >>

(* Another policy, with what it excludes.                                    *)
EditPolicy(new, out) ==
    /\ edits < MaxEdits
    /\ new # policy
    /\ policy' = new
    /\ excluded' = out
    /\ edits' = edits + 1
    /\ quiet' = FALSE
    /\ UNCHANGED << src, diskVars, pc, mode, cmdVars, report,
                    readVars, histVars, aborts >>

-----------------------------------------------------------------------------
(* index build: the old Tantivy directory is removed first and the old       *)
(* manifest replaced last.                                                   *)

StartBuild(s) ==
    /\ pc = "idle"
    /\ pc' = IF dir = "absent" THEN "create" ELSE "remove"
    /\ mode' = "build"
    /\ strat' = s /\ pol' = policy
    /\ records' = Scan(src, excluded)
    /\ plan' = NoPlan /\ files' = NoFiles /\ staged' = NoDocs
    /\ UNCHANGED << envVars, diskVars, report, readVars, quiet, histVars,
                    edits, aborts >>

(* remove_dir_all: the directory stops being an index before it is gone.     *)
BuildRemove ==
    /\ pc = "remove"
    /\ dir' = "broken" /\ docs' = NoDocs
    /\ pc' = "removing"
    /\ UNCHANGED << envVars, manifest, mode, cmdVars, report, readVars, quiet,
                    histVars, edits, aborts >>

BuildRemoved ==
    /\ pc = "removing"
    /\ dir' = "absent"
    /\ pc' = "create"
    /\ UNCHANGED << envVars, manifest, docs, mode, cmdVars, report, readVars,
                    quiet, histVars, edits, aborts >>

BuildCreateDir ==
    /\ pc = "create"
    /\ dir' = "broken"
    /\ pc' = "open"
    /\ UNCHANGED << envVars, manifest, docs, mode, cmdVars, report, readVars,
                    quiet, histVars, edits, aborts >>

(* Index::create_in_dir and the writer; every record is then to be added.    *)
BuildOpen ==
    /\ pc = "open"
    /\ dir' = "open"
    /\ plan' = [p \in Paths |-> IF records[p] # Absent THEN "add" ELSE "none"]
    /\ pc' = "stage"
    /\ UNCHANGED << envVars, manifest, docs, mode, strat, pol, records, files,
                    staged, report, readVars, quiet, histVars, edits, aborts >>

-----------------------------------------------------------------------------
(* index update: gates, then a plan, then one file after the other.          *)

(* Broken variant: the policy hash is not compared.                          *)
UpdateGatesAnyPolicy == manifest # NoManifest /\ dir = "open"

UpdateGates ==
    /\ manifest # NoManifest
    /\ manifest.policy = policy
    /\ dir = "open"

StartUpdate ==
    /\ pc = "idle"
    /\ IF UpdateGates
       THEN /\ pc' = "plan" /\ mode' = "update"
            /\ strat' = manifest.strat /\ pol' = policy
            /\ records' = Scan(src, excluded)
            /\ plan' = NoPlan /\ files' = manifest.files /\ staged' = docs
            /\ quiet' = TRUE
            /\ UNCHANGED report
       ELSE /\ report' = [ok |-> FALSE, clean |-> FALSE]
            /\ UNCHANGED << pc, mode, cmdVars, quiet >>
    /\ UNCHANGED << envVars, diskVars, readVars, histVars, edits, aborts >>

PlanDirty ==
    /\ pc = "plan"
    /\ plan' = [p \in Paths |->
                  CASE p \in DeletedPaths(files, src)           -> "delete"
                    [] p \in ModifiedPaths(files, records, src) -> "modify"
                    [] p \in AddedPaths(files, records)         -> "add"
                    [] OTHER                                    -> "none"]
    /\ pc' = "stage" /\ mode' = "dirty"
    /\ UNCHANGED << envVars, diskVars, strat, pol, records, files, staged,
                    report, readVars, quiet, histVars, edits, aborts >>

(* The single-path mode returns early when it refuses or has nothing to do,  *)
(* and then reports a clean index without having looked at the other files.  *)
PlanPath(p) ==
    LET todo == PathPlan(files[p], records[p], src[p])
    IN  /\ pc = "plan"
        /\ IF todo \in {"refuse", "noop"}
           THEN /\ report' = [ok |-> todo = "noop", clean |-> todo = "noop"]
                /\ pc' = "idle"
                /\ ForgetWork
           ELSE /\ plan' = [NoPlan EXCEPT ![p] = todo]
                /\ pc' = "stage"
                /\ UNCHANGED << strat, pol, records, files, staged, report >>
        /\ mode' = "path"
        /\ UNCHANGED << envVars, diskVars, readVars, quiet, histVars, edits,
                        aborts >>

-----------------------------------------------------------------------------
(* The files, read at the moment they are reached.                           *)

StageDelete(p) ==
    /\ pc = "stage" /\ plan[p] = "delete"
    /\ plan' = [plan EXCEPT ![p] = "none"]
    /\ files' = [files EXCEPT ![p] = NoEntry]
    /\ staged' = [staged EXCEPT ![p] = << >>]
    /\ UNCHANGED << envVars, diskVars, pc, mode, strat, pol, records, report,
                    readVars, quiet, histVars, edits, aborts >>

(* Broken variant: new documents are added next to the old ones.             *)
StageModifyKeepsOld(p) ==
    /\ pc = "stage" /\ plan[p] = "modify"
    /\ plan' = [plan EXCEPT ![p] = "none"]
    /\ files' = [files EXCEPT ![p] = RevisedEntry(@, records[p], src[p])]
    /\ staged' = [staged EXCEPT ![p] = @ \o FreshDocs(records[p], src[p], strat, pol)]
    /\ orphans' = IF records[p] = Absent THEN orphans \cup {p} ELSE orphans
    /\ UNCHANGED << envVars, diskVars, pc, mode, strat, pol, records, report,
                    readVars, quiet, torn, edits, aborts >>

(* The old documents go in any case; new ones come only from a scan record.  *)
StageModify(p) ==
    /\ pc = "stage" /\ plan[p] = "modify"
    /\ plan' = [plan EXCEPT ![p] = "none"]
    /\ files' = [files EXCEPT ![p] = RevisedEntry(@, records[p], src[p])]
    /\ staged' = [staged EXCEPT ![p] = FreshDocs(records[p], src[p], strat, pol)]
    /\ orphans' = IF records[p] = Absent THEN orphans \cup {p} ELSE orphans
    /\ UNCHANGED << envVars, diskVars, pc, mode, strat, pol, records, report,
                    readVars, quiet, torn, edits, aborts >>

(* Documents are added without deleting any: an added path has none, if the  *)
(* manifest is right.                                                        *)
StageAdd(p) ==
    /\ pc = "stage" /\ plan[p] = "add"
    /\ plan' = [plan EXCEPT ![p] = "none"]
    /\ files' = [files EXCEPT ![p] = FreshEntry(records[p], src[p])]
    /\ staged' = [staged EXCEPT ![p] = @ \o FreshDocs(records[p], src[p], strat, pol)]
    /\ UNCHANGED << envVars, diskVars, pc, mode, strat, pol, records, report,
                    readVars, quiet, histVars, edits, aborts >>

(* One Tantivy commit ...                                                    *)
Commit ==
    /\ pc = "stage" /\ plan = NoPlan
    /\ docs' = staged
    /\ pc' = "save"
    /\ UNCHANGED << envVars, manifest, dir, mode, cmdVars, report, readVars,
                    quiet, histVars, edits, aborts >>

(* ... then the manifest, through a temporary file and a rename.             *)
SaveManifest ==
    /\ pc = "save"
    /\ manifest' = [policy |-> pol, strat |-> strat, files |-> files]
    /\ IF mode = "build"
       THEN /\ pc' = "idle"
            /\ report' = [ok |-> TRUE, clean |-> FALSE]
            /\ torn' = FALSE /\ orphans' = {}
            /\ ForgetWork
       ELSE /\ pc' = "report"
            /\ UNCHANGED << cmdVars, report, histVars >>
    /\ UNCHANGED << envVars, dir, docs, mode, readVars, quiet, edits, aborts >>

(* An update ends with a second dirty check, on the scan it started with.    *)
Report ==
    /\ pc = "report"
    /\ report' = [ok |-> TRUE, clean |-> Clean(manifest, pol, records, src)]
    /\ pc' = "idle"
    /\ ForgetWork
    /\ UNCHANGED << envVars, diskVars, mode, readVars, quiet, histVars, edits,
                    aborts >>

-----------------------------------------------------------------------------
(* index purge: the manifest first, so that no reader trusts what is left.   *)

(* Broken variant: the directory goes while the manifest stays.              *)
StartPurgeKeepsManifest ==
    /\ pc = "idle"
    /\ pc' = IF dir = "absent" THEN "idle" ELSE "purge"
    /\ mode' = "purge"
    /\ UNCHANGED << envVars, diskVars, cmdVars, report, readVars, quiet,
                    histVars, edits, aborts >>

StartPurge ==
    /\ pc = "idle"
    /\ manifest' = NoManifest
    /\ pc' = IF dir = "absent" THEN "idle" ELSE "purge"
    /\ mode' = "purge"
    /\ UNCHANGED << envVars, dir, docs, cmdVars, report, readVars, quiet,
                    histVars, edits, aborts >>

PurgeRemove ==
    /\ pc = "purge"
    /\ dir' = "broken" /\ docs' = NoDocs
    /\ pc' = "purging"
    /\ UNCHANGED << envVars, manifest, mode, cmdVars, report, readVars, quiet,
                    histVars, edits, aborts >>

PurgeRemoved ==
    /\ pc = "purging"
    /\ dir' = "absent"
    /\ pc' = "idle"
    /\ UNCHANGED << envVars, manifest, docs, mode, cmdVars, report, readVars,
                    quiet, histVars, edits, aborts >>

-----------------------------------------------------------------------------
(* The command dies, or an I/O error makes it return: what is on disk stays, *)
(* what it prepared is lost.                                                 *)

(* The time between the first change of the Tantivy directory or its commit  *)
(* and the manifest that goes with it.                                       *)
Rewriting ==
    \/ pc \in {"removing", "create", "open", "save"}
    \/ pc = "stage" /\ mode = "build"

Abort ==
    /\ pc # "idle"
    /\ aborts < MaxAborts
    /\ aborts' = aborts + 1
    /\ pc' = "idle"
    /\ torn' = (torn \/ Rewriting)
    /\ ForgetWork
    /\ UNCHANGED << envVars, diskVars, mode, report, readVars, quiet, orphans,
                    edits >>

-----------------------------------------------------------------------------
(* Readers.  search_persistent_bm25 opens, queries and drops; a handle keeps *)
(* the searcher it was opened with.                                          *)

ReaderGate ==
    /\ handle.state = "closed"
    /\ dir # "absent"
    /\ manifest # NoManifest
    /\ manifest.policy = policy
    /\ handle' = [NoHandle EXCEPT !.state = "gated", !.policy = policy]
    /\ UNCHANGED << envVars, diskVars, pc, mode, cmdVars, report, evidence,
                    quiet, histVars, edits, aborts >>

(* Index::open_in_dir fails on a directory that is no index.  The manifest   *)
(* is not looked at again: settled (a history field) tells whether it still  *)
(* describes what is opened.                                                 *)
Settled ==
    manifest # NoManifest /\ manifest.policy = handle.policy /\ ~torn /\ ~Rewriting

ReaderOpen ==
    /\ handle.state = "gated"
    /\ handle' = IF dir = "open"
                 THEN [handle EXCEPT !.state = "open", !.docs = docs,
                                     !.settled = Settled]
                 ELSE NoHandle
    /\ UNCHANGED << envVars, diskVars, pc, mode, cmdVars, report, evidence,
                    quiet, histVars, edits, aborts >>

(* One hit: the file is read again, once, and the evidence made of what was  *)
(* read, if that still has the hash that was indexed.                        *)
Verified(doc, c) == Utf8(c) /\ c # Empty /\ doc.sha = c

ReaderHit(p) ==
    /\ handle.state = "open"
    /\ \E i \in DOMAIN handle.docs[p] :
          LET doc == handle.docs[p][i]
          IN  /\ Verified(doc, src[p])
              /\ evidence' = [asked |-> handle.policy, built |-> doc.policy,
                              settled |-> handle.settled]
    /\ UNCHANGED << envVars, diskVars, pc, mode, cmdVars, report, handle,
                    quiet, histVars, edits, aborts >>

ReaderClose ==
    /\ handle.state = "open"
    /\ handle' = NoHandle
    /\ UNCHANGED << envVars, diskVars, pc, mode, cmdVars, report, evidence,
                    quiet, histVars, edits, aborts >>

-----------------------------------------------------------------------------
Environment ==
    \/ \E p \in Paths : (\E c \in Contents : EditFile(p, c)) \/ EditIgnore(p)
    \/ \E new \in Policies, out \in SUBSET Paths : EditPolicy(new, out)

Build  == \/ \E s \in Strategies : StartBuild(s)
          \/ BuildRemove \/ BuildRemoved \/ BuildCreateDir \/ BuildOpen
Update == StartUpdate \/ PlanDirty \/ \E p \in Paths : PlanPath(p)
Stage  == \E p \in Paths : StageDelete(p) \/ StageModify(p) \/ StageAdd(p)
Finish == Commit \/ SaveManifest \/ Report
Purge  == StartPurge \/ PurgeRemove \/ PurgeRemoved
Reader == ReaderGate \/ ReaderOpen \/ (\E p \in Paths : ReaderHit(p)) \/ ReaderClose

Commands == Build \/ Update \/ Stage \/ Finish \/ Purge \/ Abort

Next == Environment \/ Commands \/ Reader

Spec == Init /\ [][Next]_vars

(* The same with nobody reading: readers write nothing the commands see.     *)
QuietSpec == Init /\ [][Environment \/ Commands]_vars

-----------------------------------------------------------------------------
(* Properties.                                                               *)

PCs   == {"idle", "remove", "removing", "create", "open", "stage", "save",
          "plan", "report", "purge", "purging"}
Modes == {"none", "build", "update", "dirty", "path", "purge"}

(* Every variable has its type.                                              *)
TypeOK ==
    /\ src \in [Paths -> Contents]
    /\ excluded \subseteq Paths
    /\ policy \in Policies
    /\ manifest \in Manifest \cup {NoManifest}
    /\ dir \in {"absent", "broken", "open"}
    /\ docs \in DocMap
    /\ pc \in PCs /\ mode \in Modes
    /\ strat \in Strategies /\ pol \in Policies
    /\ records \in Records
    /\ plan \in [Paths -> {"none", "delete", "modify", "add"}]
    /\ files \in FileMap /\ staged \in DocMap
    /\ report \in [ok : BOOLEAN, clean : BOOLEAN]
    /\ handle \in Handle
    /\ handle.state = "closed" \/ handle.policy \in Policies
    /\ evidence \in Evidence \cup {NoEvidence}
    /\ quiet \in BOOLEAN /\ torn \in BOOLEAN
    /\ orphans \subseteq Paths
    /\ edits \in 0..MaxEdits /\ aborts \in 0..MaxAborts

(* Entry e of p agrees with its documents ds under a strategy and a          *)
(* policy: one copy of the indexed content and nothing else, or nothing at   *)
(* all.  Only an exempt path may be indexed and have no documents.           *)
Agrees(p, exempt, e, ds, s, q) ==
    \/ /\ e.status = "indexed"
       /\ ds = << [sha |-> e.sha, strat |-> s, policy |-> q] >>
    \/ /\ ds = << >>
       /\ e.status = "indexed" => p \in exempt

(* The manifest and the documents tell the same story whenever no command is *)
(* between the two writes and none died there: each path has the documents   *)
(* its entry claims, once, chunked under the manifest's strategy and policy, *)
(* in a directory that can be opened.  A command that dies anywhere else,    *)
(* purge included, does no harm.                                             *)
ManifestAndDocsAgree ==
    (manifest # NoManifest /\ ~torn /\ ~Rewriting) =>
        /\ dir = "open"
        /\ \A p \in Paths : Agrees(p, orphans, manifest.files[p], docs[p],
                                   manifest.strat, manifest.policy)

(* dirty reporting a clean index can be relied on: with no torn write behind *)
(* it, every text file of the scan that is no orphan is in the index with    *)
(* its present content.                                                      *)
CleanIndexServesFiles ==
    (pc = "idle" /\ ~torn /\ Clean(manifest, policy, Scan(src, excluded), src)) =>
        \A p \in Paths \ (excluded \cup orphans) :
            src[p] \in Texts => \E i \in DOMAIN docs[p] : docs[p][i].sha = src[p]

(* Status must not say clean if validate would fail                          *)
(* (docs/en/research-log.md): the three walks over the manifest, written     *)
(* three times in the code, agree whatever the tree holds.                   *)
CleanImpliesValid ==
    LET now == Scan(src, excluded)
    IN  /\ Clean(manifest, policy, now, src) => Valid(manifest, policy, src)
        /\ Valid(manifest, policy, src) <=> ~StatusRequiresRebuild(manifest, policy, src)

(* A dirty update that nothing disturbed leaves dirty only paths it cannot   *)
(* settle: files that are not readable text and files no longer scanned.     *)
Ordinary(c) == Utf8(c) \/ c = Absent

UpdateSettlesOrdinaryFiles ==
    [][(pc = "report" /\ pc' = "idle" /\ aborts' = aborts /\ mode = "dirty" /\ quiet) =>
          \A p \in DirtyPaths(manifest.files, Scan(src, excluded), src) :
              p \in excluded \/ ~Ordinary(src[p])]_vars

(* The policy gate holds for every reader that opened the index while it was *)
(* settled, however long it keeps the handle and whatever is rebuilt under   *)
(* it: evidence comes from documents indexed under the policy it asked with. *)
SettledReadersKeepPolicy == evidence.settled => evidence.built = evidence.asked

-----------------------------------------------------------------------------
(* The inductive strengthening of ManifestAndDocsAgree and of                *)
(* SettledReadersKeepPolicy.                                                 *)

(* What is left to do fits what is prepared: a path to add has a record and  *)
(* no entry yet, a path to modify has an entry.                              *)
PlanFits ==
    pc = "stage" => \A p \in Paths :
        /\ plan[p] = "add" => files[p] = NoEntry /\ records[p] # Absent
        /\ plan[p] = "modify" => files[p] \in Entry
        /\ mode = "build" => plan[p] \in {"none", "add"}

(* The control state tells what is on disk and in memory.                    *)
ControlFits ==
    /\ pc \in {"remove", "removing", "create", "open"} =>
          mode = "build" /\ files = NoFiles /\ staged = NoDocs
    /\ pc \in {"stage", "save", "plan", "report"} => dir = "open"
    /\ pc = "plan" => mode = "update"
    /\ pc = "save" => docs = staged
    /\ pc \in {"purge", "purging"} => manifest = NoManifest

(* The two halves a command prepares agree before they are written, for an   *)
(* update as long as the halves it started from did.                         *)
PreparedAgrees ==
    pc \in {"plan", "stage", "save"} =>
        /\ mode = "build" => \A p \in Paths :
              Agrees(p, {}, files[p], staged[p], strat, pol)
        /\ mode # "build" /\ ~torn => \A p \in Paths :
              Agrees(p, orphans, files[p], staged[p], strat, pol)

SettledHandle ==
    handle.settled => \A p \in Paths : \A i \in DOMAIN handle.docs[p] :
        handle.docs[p][i].policy = handle.policy

IndInv ==
    /\ TypeOK /\ PlanFits /\ ControlFits /\ PreparedAgrees
    /\ ManifestAndDocsAgree /\ SettledHandle /\ SettledReadersKeepPolicy

-----------------------------------------------------------------------------
(* The inductive strengthening of UpdateSettlesOrdinaryFiles, for an update  *)
(* that nothing disturbs: its scan stays true of the tree, and a path is     *)
(* settled as soon as nothing is left to do with it.                         *)
SettledPath(entries, p) ==
    \/ p \in excluded \/ ~Ordinary(src[p])
    \/ p \notin DirtyPaths(entries, records, src)

UpdateSettles ==
    quiet =>
        /\ pc \in {"plan", "stage", "save", "report"} /\ mode # "build" =>
              records = Scan(src, excluded)
        /\ pc = "stage" /\ mode = "dirty" => \A p \in Paths :
              /\ plan[p] = "none" => SettledPath(files, p)
              /\ plan[p] = "delete" <=> plan[p] # "none" /\ src[p] = Absent
        /\ pc = "save" /\ mode = "dirty" => \A p \in Paths : SettledPath(files, p)
        /\ pc = "report" /\ mode = "dirty" =>
              \A p \in Paths : SettledPath(manifest.files, p)

-----------------------------------------------------------------------------
(* What the documentation says and the code does not do.                     *)

(* "report as modified so update_index can refresh the manifest entry's      *)
(* SHA / skipped_reason": when all there is are readable files of the scan,  *)
(* a dirty update that nothing disturbed reports a clean index.              *)
DirtyUpdateEndsClean ==
    [][(/\ pc = "report" /\ pc' = "idle" /\ aborts' = aborts
        /\ mode = "dirty" /\ quiet /\ excluded = {}
        /\ \A p \in Paths : src[p] \in Files)
          => report'.clean]_vars

(* "Prevents duplicate old+new docs by delete_term(path) before add".        *)
NoDuplicateDocs == \A p \in Paths : Len(docs[p]) <= 1

(* "This prevents querying unverifiable or stale-policy indexes": evidence   *)
(* comes from documents indexed under the policy the reader asked with.      *)
EvidenceUnderAskedPolicy == evidence # NoEvidence => evidence.built = evidence.asked
=============================================================================
