----------------------- MODULE PersistentIndex_proofs -----------------------
(***************************************************************************)
(* Proofs about PersistentIndex, for every set of paths, contents,         *)
(* policies and strategies and every bound.                                *)
(***************************************************************************)
EXTENDS PersistentIndex, TLAPS

-----------------------------------------------------------------------------
(* Lemmas on the operators.                                                  *)

(* The scan yields a record or nothing for every path.                       *)
LEMMA ScanType ==
    ASSUME NEW tree \in [Paths -> Contents], NEW out
    PROVE  Scan(tree, out) \in Records
BY DEF Scan, Records, Sha

(* A file indexed under a hash that was known gets a manifest entry.         *)
LEMMA FreshEntryType ==
    ASSUME NEW known \in Files, NEW c
    PROVE  FreshEntry(known, c) \in Entry
BY DEF FreshEntry, Entry, Utf8, Files

(* The documents added for a file are documents.                             *)
LEMMA FreshDocsType ==
    ASSUME NEW record, NEW c, NEW s \in Strategies, NEW q \in Policies
    PROVE  FreshDocs(record, c, s, q) \in Seq(Doc)
<1>1. CASE record # Absent /\ c \in Texts
  <2>1. [sha |-> c, strat |-> s, policy |-> q] \in Doc
    BY <1>1 DEF Doc
  <2> QED BY <1>1, <2>1 DEF FreshDocs
<1>2. CASE ~(record # Absent /\ c \in Texts)
  BY <1>2 DEF FreshDocs
<1> QED BY <1>1, <1>2

(* Whatever the file turns out to be when it is read, the entry prepared for *)
(* it and the documents added for it agree.                                  *)
LEMMA FreshAgrees ==
    ASSUME NEW known, NEW record, NEW c, NEW s, NEW q, record # Absent,
           NEW p, NEW exempt
    PROVE  Agrees(p, exempt, FreshEntry(known, c), FreshDocs(record, c, s, q), s, q)
<1>1. CASE c \in Texts
  <2>1. c # Empty
    BY <1>1, ContentsAssumption
  <2>2. FreshEntry(known, c) = [sha |-> c, status |-> "indexed"]
    BY <1>1, <2>1 DEF FreshEntry, Utf8
  <2>3. FreshDocs(record, c, s, q) = << [sha |-> c, strat |-> s, policy |-> q] >>
    BY <1>1 DEF FreshDocs
  <2> QED BY <2>2, <2>3 DEF Agrees
<1>2. CASE c \notin Texts
  <2>1. FreshEntry(known, c).status = "skipped"
    BY <1>2 DEF FreshEntry, Utf8
  <2>2. FreshDocs(record, c, s, q) = << >>
    BY <1>2 DEF FreshDocs
  <2> QED BY <2>1, <2>2 DEF Agrees
<1> QED BY <1>1, <1>2

(* Records with Boolean fields have their types.                             *)
LEMMA ReportType ==
    ASSUME NEW a \in BOOLEAN, NEW b \in BOOLEAN
    PROVE  [ok |-> a, clean |-> b] \in [ok : BOOLEAN, clean : BOOLEAN]
OBVIOUS

(* An empty entry comes with no documents.                                   *)
LEMMA NoEntryAgrees ==
    ASSUME NEW p, NEW exempt, NEW s, NEW q
    PROVE  Agrees(p, exempt, NoEntry, << >>, s, q)
BY DEF Agrees, NoEntry

(* Agreement survives more paths becoming exempt.                            *)
LEMMA AgreesWeaken ==
    ASSUME NEW p, NEW S, NEW T, NEW e, NEW ds, NEW s, NEW q,
           S \subseteq T, Agrees(p, S, e, ds, s, q)
    PROVE  Agrees(p, T, e, ds, s, q)
BY DEF Agrees

LEMMA NoEntryFacts == NoEntry \notin Entry
BY DEF NoEntry, Entry

-----------------------------------------------------------------------------
(* Initial states.                                                           *)

LEMMA InitInd == Init => IndInv
<1> SUFFICES ASSUME Init PROVE IndInv
  OBVIOUS
<1>1. NoDocs \in DocMap /\ NoFiles \in FileMap /\ NoRecords \in Records
  BY DEF NoDocs, DocMap, NoFiles, FileMap, NoRecords, Records
<1>2. TypeOK
  <2>1. src \in [Paths -> Contents]
    BY DEF Init, Contents, Files
  <2>2. handle \in Handle /\ handle.state = "closed"
    BY <1>1 DEF Init, NoHandle, Handle
  <2>3. report \in [ok : BOOLEAN, clean : BOOLEAN] /\ quiet \in BOOLEAN /\ torn \in BOOLEAN
    BY DEF Init
  <2>4. edits \in 0..MaxEdits /\ aborts \in 0..MaxAborts
    BY BoundsAssumption DEF Init
  <2>5. plan \in [Paths -> {"none", "delete", "modify", "add"}]
    BY DEF Init, NoPlan
  <2> QED
    BY <1>1, <2>1, <2>2, <2>3, <2>4, <2>5 DEF Init, TypeOK, PCs, Modes
<1>3. PlanFits /\ ControlFits /\ PreparedAgrees
  BY DEF Init, PlanFits, ControlFits, PreparedAgrees
<1>4. ManifestAndDocsAgree /\ SettledHandle /\ SettledReadersKeepPolicy
  BY DEF Init, ManifestAndDocsAgree, SettledHandle, SettledReadersKeepPolicy,
         NoHandle, NoEvidence
<1> QED BY <1>2, <1>3, <1>4 DEF IndInv

-----------------------------------------------------------------------------
(* Types.                                                                    *)

LEMMA EnvironmentType == TypeOK /\ Environment => TypeOK'
<1> SUFFICES ASSUME TypeOK, Environment PROVE TypeOK'
  OBVIOUS
<1> USE BoundsAssumption
<1>1. ASSUME NEW p \in Paths, NEW c \in Contents, EditFile(p, c) PROVE TypeOK'
  <2>1. src' \in [Paths -> Contents] /\ edits' \in 0..MaxEdits
    BY <1>1 DEF TypeOK, EditFile
  <2>2. quiet' \in BOOLEAN
    BY <1>1 DEF EditFile
  <2> QED
    BY <1>1, <2>1, <2>2 DEF TypeOK, EditFile, diskVars, cmdVars, readVars, histVars
<1>2. ASSUME NEW p \in Paths, EditIgnore(p) PROVE TypeOK'
  <2>1. excluded' \in SUBSET Paths /\ edits' \in 0..MaxEdits
    BY <1>2 DEF TypeOK, EditIgnore
  <2>2. quiet' \in BOOLEAN
    BY <1>2 DEF EditIgnore
  <2> QED
    BY <1>2, <2>1, <2>2
    DEF TypeOK, EditIgnore, diskVars, cmdVars, readVars, histVars
<1>3. ASSUME NEW new \in Policies, NEW out \in SUBSET Paths, EditPolicy(new, out)
      PROVE TypeOK'
  <2>1. policy' \in Policies /\ excluded' \in SUBSET Paths /\ edits' \in 0..MaxEdits
    BY <1>3 DEF TypeOK, EditPolicy
  <2>2. quiet' \in BOOLEAN
    BY <1>3 DEF EditPolicy
  <2> QED
    BY <1>3, <2>1, <2>2
    DEF TypeOK, EditPolicy, diskVars, cmdVars, readVars, histVars
<1> QED BY <1>1, <1>2, <1>3 DEF Environment

(* The command-local data a command starts with or leaves behind.            *)
LEMMA EmptyTypes ==
    NoDocs \in DocMap /\ NoFiles \in FileMap /\ NoRecords \in Records
    /\ NoPlan \in [Paths -> {"none", "delete", "modify", "add"}]
BY DEF NoDocs, DocMap, NoFiles, FileMap, NoRecords, Records, NoPlan

LEMMA BuildType == TypeOK /\ Build => TypeOK'
<1> SUFFICES ASSUME TypeOK, Build PROVE TypeOK'
  OBVIOUS
<1> USE EmptyTypes DEF TypeOK, PCs, Modes
<1>1. ASSUME NEW s \in Strategies, StartBuild(s) PROVE TypeOK'
  <2>1. Scan(src, excluded) \in Records
    BY ScanType
  <2> QED BY <1>1, <2>1 DEF StartBuild, envVars, diskVars, readVars, histVars
<1>2. CASE BuildRemove
  BY <1>2 DEF BuildRemove, envVars, cmdVars, readVars, histVars
<1>3. CASE BuildRemoved
  BY <1>3 DEF BuildRemoved, envVars, cmdVars, readVars, histVars
<1>4. CASE BuildCreateDir
  BY <1>4 DEF BuildCreateDir, envVars, cmdVars, readVars, histVars
<1>5. CASE BuildOpen
  BY <1>5 DEF BuildOpen, envVars, readVars, histVars
<1> QED BY <1>1, <1>2, <1>3, <1>4, <1>5 DEF Build

LEMMA UpdateType == TypeOK /\ Update => TypeOK'
<1> SUFFICES ASSUME TypeOK, Update PROVE TypeOK'
  OBVIOUS
<1> USE EmptyTypes DEF TypeOK, PCs, Modes
<1>1. CASE StartUpdate
  <2>1. Scan(src, excluded) \in Records
    BY ScanType
  <2>2. CASE UpdateGates
    <3>1. manifest.strat \in Strategies /\ manifest.files \in FileMap
      BY <2>2 DEF UpdateGates, Manifest
    <3> QED
      BY <1>1, <2>1, <2>2, <3>1
      DEF StartUpdate, envVars, diskVars, readVars, histVars
  <2>3. CASE ~UpdateGates
    <3>1. report' \in [ok : BOOLEAN, clean : BOOLEAN]
      <4>1. report' = [ok |-> FALSE, clean |-> FALSE]
        BY <1>1, <2>3 DEF StartUpdate
      <4> QED BY <4>1, ReportType
    <3> QED
      BY <1>1, <2>3, <3>1
      DEF StartUpdate, envVars, diskVars, cmdVars, readVars, histVars
  <2> QED BY <2>2, <2>3
<1>2. CASE PlanDirty
  <2>1. plan' \in [Paths -> {"none", "delete", "modify", "add"}]
    BY <1>2 DEF PlanDirty
  <2> QED BY <1>2, <2>1 DEF PlanDirty, envVars, diskVars, readVars, histVars
<1>3. ASSUME NEW p \in Paths, PlanPath(p) PROVE TypeOK'
  <2> DEFINE todo == PathPlan(files[p], records[p], src[p])
  <2>1. todo \in {"refuse", "noop", "delete", "modify", "add"}
    BY DEF PathPlan
  <2>2. CASE todo \in {"refuse", "noop"}
    <3>1. report' \in [ok : BOOLEAN, clean : BOOLEAN]
      <4>1. report' = [ok |-> todo = "noop", clean |-> todo = "noop"]
        BY <1>3, <2>2 DEF PlanPath
      <4>2. (todo = "noop") \in BOOLEAN
        OBVIOUS
      <4> HIDE DEF todo
      <4> QED BY <4>1, <4>2, ReportType
    <3> QED
      BY <1>3, <2>2, <3>1
      DEF PlanPath, ForgetWork, envVars, diskVars, readVars, histVars
  <2>3. CASE todo \notin {"refuse", "noop"}
    BY <1>3, <2>1, <2>3 DEF PlanPath, envVars, diskVars, readVars, histVars
  <2> QED BY <2>2, <2>3
<1> QED BY <1>1, <1>2, <1>3 DEF Update

LEMMA StageType == TypeOK /\ PlanFits /\ Stage => TypeOK'
<1> SUFFICES ASSUME TypeOK, PlanFits, NEW p \in Paths,
                    StageDelete(p) \/ StageModify(p) \/ StageAdd(p)
             PROVE  TypeOK'
  BY DEF Stage
<1>1. FreshDocs(records[p], src[p], strat, pol) \in Seq(Doc)
  BY FreshDocsType DEF TypeOK
<1>2. CASE StageDelete(p)
  <2>1. files' \in FileMap /\ staged' \in DocMap
    BY <1>2 DEF StageDelete, TypeOK, FileMap, DocMap
  <2> QED
    BY <1>2, <2>1
    DEF StageDelete, TypeOK, envVars, diskVars, readVars, histVars
<1>3. CASE StageModify(p)
  <2>1. files[p] \in Entry
    BY <1>3 DEF StageModify, PlanFits
  <2>2. RevisedEntry(files[p], records[p], src[p]) \in Entry
    BY <2>1, FreshEntryType DEF RevisedEntry, Entry
  <2>3. files' \in FileMap /\ staged' \in DocMap
    BY <1>1, <1>3, <2>2 DEF StageModify, TypeOK, FileMap, DocMap
  <2> QED
    BY <1>3, <2>3
    DEF StageModify, TypeOK, envVars, diskVars, readVars, histVars
<1>4. CASE StageAdd(p)
  <2>1. records[p] \in Files
    BY <1>4 DEF StageAdd, PlanFits, TypeOK, Records
  <2>2. FreshEntry(records[p], src[p]) \in Entry
    BY <2>1, FreshEntryType
  <2>3. files' \in FileMap /\ staged' \in DocMap
    BY <1>1, <1>4, <2>2 DEF StageAdd, TypeOK, FileMap, DocMap
  <2> QED
    BY <1>4, <2>3 DEF StageAdd, TypeOK, envVars, diskVars, readVars, histVars
<1> QED BY <1>2, <1>3, <1>4

LEMMA EndType == TypeOK /\ (Finish \/ Purge \/ Abort) => TypeOK'
<1> SUFFICES ASSUME TypeOK, Finish \/ Purge \/ Abort PROVE TypeOK'
  OBVIOUS
<1> USE EmptyTypes, BoundsAssumption DEF TypeOK, PCs, Modes
<1>1. CASE Commit
  BY <1>1 DEF Commit, envVars, cmdVars, readVars, histVars
<1>2. CASE SaveManifest
  <2>1. manifest' \in Manifest
    BY <1>2 DEF SaveManifest, Manifest
  <2>2. report' \in [ok : BOOLEAN, clean : BOOLEAN]
    <3>1. report' = [ok |-> TRUE, clean |-> FALSE] \/ report' = report
      BY <1>2 DEF SaveManifest
    <3> QED BY <3>1, ReportType
  <2>3. torn' \in BOOLEAN
    BY <1>2 DEF SaveManifest, histVars
  <2> QED
    BY <1>2, <2>1, <2>2, <2>3
    DEF SaveManifest, ForgetWork, envVars, cmdVars, readVars, histVars
<1>3. CASE Report
  <2>1. report' \in [ok : BOOLEAN, clean : BOOLEAN]
    BY <1>3 DEF Report, Clean
  <2> QED
    BY <1>3, <2>1 DEF Report, ForgetWork, envVars, diskVars, readVars, histVars
<1>4. CASE StartPurge
  BY <1>4 DEF StartPurge, envVars, cmdVars, readVars, histVars
<1>5. CASE PurgeRemove
  BY <1>5 DEF PurgeRemove, envVars, cmdVars, readVars, histVars
<1>6. CASE PurgeRemoved
  BY <1>6 DEF PurgeRemoved, envVars, cmdVars, readVars, histVars
<1>7. CASE Abort
  <2>1. torn' \in BOOLEAN /\ aborts' \in 0..MaxAborts
    BY <1>7 DEF Abort, Rewriting
  <2> QED
    BY <1>7, <2>1 DEF Abort, ForgetWork, envVars, diskVars, readVars
<1> QED BY <1>1, <1>2, <1>3, <1>4, <1>5, <1>6, <1>7 DEF Finish, Purge

LEMMA ReaderType == TypeOK /\ Reader => TypeOK'
<1> SUFFICES ASSUME TypeOK, Reader PROVE TypeOK'
  OBVIOUS
<1>1. NoHandle \in Handle /\ NoHandle.state = "closed"
  BY EmptyTypes DEF NoHandle, Handle
<1>2. CASE ReaderGate
  <2>1. handle' \in Handle /\ handle'.policy \in Policies
    BY <1>1, <1>2 DEF ReaderGate, Handle, TypeOK
  <2> QED
    BY <1>2, <2>1 DEF ReaderGate, TypeOK, envVars, diskVars, cmdVars, histVars
<1>3. CASE ReaderOpen
  <2>1. Settled \in BOOLEAN
    BY DEF Settled, TypeOK
  <2>2. /\ handle' \in Handle
        /\ handle'.state = "closed" \/ handle'.policy \in Policies
    BY <1>1, <1>3, <2>1 DEF ReaderOpen, Handle, TypeOK
  <2> QED
    BY <1>3, <2>2 DEF ReaderOpen, TypeOK, envVars, diskVars, cmdVars, histVars
<1>4. ASSUME NEW p \in Paths, ReaderHit(p) PROVE TypeOK'
  <2>1. evidence' \in Evidence \cup {NoEvidence}
    <3>1. PICK i \in DOMAIN handle.docs[p] :
            /\ Verified(handle.docs[p][i], src[p])
            /\ evidence' = [asked |-> handle.policy,
                            built |-> handle.docs[p][i].policy,
                            settled |-> handle.settled]
      BY <1>4 DEF ReaderHit
    <3>2. handle.docs[p][i] \in Doc
      BY <3>1 DEF TypeOK, Handle, DocMap
    <3>3. handle.docs[p][i].policy \in Policies
      BY <3>2 DEF Doc
    <3>4. handle.policy \in Policies
      BY <1>4 DEF TypeOK, Handle, ReaderHit
    <3>5. handle.settled \in BOOLEAN
      BY DEF TypeOK, Handle
    <3> QED BY <3>1, <3>3, <3>4, <3>5 DEF Evidence
  <2> QED
    BY <1>4, <2>1 DEF ReaderHit, TypeOK, envVars, diskVars, cmdVars, histVars
<1>5. CASE ReaderClose
  BY <1>1, <1>5 DEF ReaderClose, TypeOK, envVars, diskVars, cmdVars, histVars
<1> QED BY <1>2, <1>3, <1>4, <1>5 DEF Reader

LEMMA TypeStep == TypeOK /\ PlanFits /\ [Next]_vars => TypeOK'
<1> SUFFICES ASSUME TypeOK, PlanFits, [Next]_vars PROVE TypeOK'
  OBVIOUS
<1>1. CASE UNCHANGED vars
  BY <1>1 DEF vars, envVars, diskVars, cmdVars, readVars, histVars, TypeOK
<1> QED
  BY <1>1, EnvironmentType, BuildType, UpdateType, StageType, EndType, ReaderType
  DEF Next, Commands

-----------------------------------------------------------------------------
(* Where the command is, and what that says of the disk and of its memory.   *)

(* Neither the environment nor a reader touches what a command works on.     *)
WorkVars == << manifest, dir, docs, pc, mode, strat, pol, records, plan, files,
               staged, torn, orphans >>

LEMMA OutsiderStep == Environment \/ Reader \/ UNCHANGED vars => UNCHANGED WorkVars
BY DEF Environment, EditFile, EditIgnore, EditPolicy, Reader, ReaderGate,
       ReaderOpen, ReaderHit, ReaderClose, vars, envVars, diskVars, cmdVars,
       readVars, histVars, WorkVars

LEMMA ControlStep == ControlFits /\ [Next]_vars => ControlFits'
<1> SUFFICES ASSUME ControlFits, [Next]_vars PROVE ControlFits'
  OBVIOUS
<1> USE DEF ControlFits
<1>1. CASE Environment \/ Reader \/ UNCHANGED vars
  BY <1>1, OutsiderStep DEF WorkVars
<1>2. ASSUME NEW s \in Strategies, StartBuild(s) PROVE ControlFits'
  BY <1>2 DEF StartBuild
<1>3. CASE BuildRemove
  BY <1>3 DEF BuildRemove, cmdVars
<1>4. CASE BuildRemoved
  BY <1>4 DEF BuildRemoved, cmdVars
<1>5. CASE BuildCreateDir
  BY <1>5 DEF BuildCreateDir, cmdVars
<1>6. CASE BuildOpen
  BY <1>6 DEF BuildOpen
<1>7. CASE StartUpdate
  BY <1>7 DEF StartUpdate, UpdateGates, diskVars, cmdVars
<1>8. CASE PlanDirty
  BY <1>8 DEF PlanDirty, diskVars
<1>9. ASSUME NEW p \in Paths, PlanPath(p) PROVE ControlFits'
  BY <1>9 DEF PlanPath, diskVars
<1>10. ASSUME NEW p \in Paths, StageDelete(p) \/ StageModify(p) \/ StageAdd(p)
       PROVE  ControlFits'
  BY <1>10 DEF StageDelete, StageModify, StageAdd, diskVars
<1>11. CASE Commit
  BY <1>11 DEF Commit, cmdVars
<1>12. CASE SaveManifest
  BY <1>12 DEF SaveManifest
<1>13. CASE Report
  BY <1>13 DEF Report
<1>14. CASE StartPurge
  BY <1>14 DEF StartPurge
<1>15. CASE PurgeRemove
  BY <1>15 DEF PurgeRemove
<1>16. CASE PurgeRemoved
  BY <1>16 DEF PurgeRemoved
<1>17. CASE Abort
  BY <1>17 DEF Abort
<1> QED
  BY <1>1, <1>2, <1>3, <1>4, <1>5, <1>6, <1>7, <1>8, <1>9, <1>10, <1>11, <1>12,
     <1>13, <1>14, <1>15, <1>16, <1>17
  DEF Next, Commands, Build, Update, Stage, Finish, Purge

(* A plan is made to fit, and each file is crossed off as it is done.        *)
LEMMA PlanStep ==
    TypeOK /\ ControlFits /\ PlanFits /\ [Next]_vars => PlanFits'
<1> SUFFICES ASSUME TypeOK, ControlFits, PlanFits, [Next]_vars PROVE PlanFits'
  OBVIOUS
<1>1. CASE Environment \/ Reader \/ UNCHANGED vars
  BY <1>1, OutsiderStep DEF WorkVars, PlanFits
<1>2. CASE BuildOpen
  BY <1>2 DEF BuildOpen, ControlFits, PlanFits, NoFiles
<1>3. CASE PlanDirty
  <2> SUFFICES ASSUME NEW p \in Paths
               PROVE  /\ plan'[p] = "add" => files[p] = NoEntry /\ records[p] # Absent
                      /\ plan'[p] = "modify" => files[p] \in Entry
    BY <1>3 DEF PlanDirty, PlanFits
  <2>1. p \in ModifiedPaths(files, records, src) => files[p] # NoEntry
    BY DEF ModifiedPaths, NoEntry
  <2>2. p \in AddedPaths(files, records) => files[p] = NoEntry /\ records[p] # Absent
    BY DEF AddedPaths
  <2>3. files[p] \in Entry \cup {NoEntry}
    BY DEF TypeOK, FileMap
  <2> QED BY <1>3, <2>1, <2>2, <2>3 DEF PlanDirty
<1>4. ASSUME NEW p \in Paths, PlanPath(p) PROVE PlanFits'
  <2> DEFINE todo == PathPlan(files[p], records[p], src[p])
  <2>1. /\ todo = "add" => files[p] = NoEntry /\ records[p] # Absent
        /\ todo = "modify" => files[p] # NoEntry
    BY DEF PathPlan
  <2>2. files[p] \in Entry \cup {NoEntry}
    BY DEF TypeOK, FileMap
  <2>3. CASE todo \in {"refuse", "noop"}
    BY <1>4, <2>3 DEF PlanPath, PlanFits
  <2>4. CASE todo \notin {"refuse", "noop"}
    <3>1. plan' = [NoPlan EXCEPT ![p] = todo] /\ mode' = "path"
          /\ files' = files /\ records' = records
      BY <1>4, <2>4 DEF PlanPath
    <3> HIDE DEF todo
    <3> QED BY <2>1, <2>2, <3>1 DEF PlanFits, NoPlan
  <2> QED BY <2>3, <2>4
<1>5. ASSUME NEW p \in Paths, StageDelete(p) \/ StageModify(p) \/ StageAdd(p)
      PROVE  PlanFits'
  <2>1. /\ pc = "stage" /\ mode' = mode /\ records' = records
        /\ plan' = [plan EXCEPT ![p] = "none"]
        /\ \A q \in Paths : q # p => files'[q] = files[q]
    BY <1>5 DEF StageDelete, StageModify, StageAdd, TypeOK, FileMap
  <2> QED BY <2>1 DEF PlanFits, TypeOK
<1>6. CASE pc' # "stage"
  BY <1>6 DEF PlanFits
<1>7. CASE pc' = "stage" /\ (Commands /\ ~BuildOpen /\ ~Stage /\ ~PlanDirty
                              /\ ~\E p \in Paths : PlanPath(p))
  BY <1>7
  DEF Commands, Build, Update, Finish, Purge, Abort, StartBuild, BuildRemove,
      BuildRemoved, BuildCreateDir, StartUpdate, Commit, SaveManifest, Report,
      StartPurge, PurgeRemove, PurgeRemoved
<1> QED BY <1>1, <1>2, <1>3, <1>4, <1>5, <1>6, <1>7 DEF Next, Stage

-----------------------------------------------------------------------------
(* What a command prepares.                                                  *)

(* One file staged: its new entry and documents agree if the old ones did,   *)
(* and a build, which only adds, needs no orphan for it.                     *)
LEMMA StageOne ==
    ASSUME TypeOK, PlanFits, NEW p \in Paths, NEW old,
           StageDelete(p) \/ StageModify(p) \/ StageAdd(p),
           Agrees(p, old, files[p], staged[p], strat, pol)
    PROVE  /\ plan[p] # "modify" => Agrees(p, {}, files'[p], staged'[p], strat, pol)
           /\ Agrees(p, orphans', files'[p], staged'[p], strat, pol)
<1>1. p \in DOMAIN files /\ p \in DOMAIN staged /\ pc = "stage"
  BY DEF TypeOK, FileMap, DocMap, StageDelete, StageModify, StageAdd
<1>2. FreshDocs(records[p], src[p], strat, pol) \in Seq(Doc)
  BY FreshDocsType DEF TypeOK
<1>3. CASE StageDelete(p)
  <2>1. files'[p] = NoEntry /\ staged'[p] = << >>
    BY <1>1, <1>3 DEF StageDelete
  <2> QED BY <2>1 DEF Agrees, NoEntry
<1>4. CASE StageModify(p)
  <2>1. /\ plan[p] = "modify"
        /\ files'[p] = RevisedEntry(files[p], records[p], src[p])
        /\ staged'[p] = FreshDocs(records[p], src[p], strat, pol)
        /\ records[p] = Absent => p \in orphans'
    BY <1>1, <1>4 DEF StageModify
  <2>2. CASE records[p] = Absent
    BY <2>1, <2>2 DEF FreshDocs, Agrees
  <2>3. CASE records[p] # Absent
    <3>1. Agrees(p, {}, files'[p], staged'[p], strat, pol)
      BY <2>1, <2>3, FreshAgrees DEF RevisedEntry
    <3> QED BY <2>1, <3>1 DEF Agrees
  <2> QED BY <2>2, <2>3
<1>5. CASE StageAdd(p)
  <2>1. files[p] = NoEntry /\ records[p] # Absent
    BY <1>5 DEF StageAdd, PlanFits
  <2>2. staged[p] = << >>
    BY <2>1 DEF Agrees, NoEntry
  <2>3. /\ files'[p] = FreshEntry(records[p], src[p])
        /\ staged'[p] = staged[p] \o FreshDocs(records[p], src[p], strat, pol)
    BY <1>1, <1>5 DEF StageAdd
  <2>4. staged'[p] = FreshDocs(records[p], src[p], strat, pol)
    BY <1>2, <2>2, <2>3
  <2>5. Agrees(p, {}, files'[p], staged'[p], strat, pol)
    BY <2>1, <2>3, <2>4, FreshAgrees
  <2> QED BY <2>5 DEF Agrees
<1> QED BY <1>3, <1>4, <1>5

LEMMA PreparedStep ==
    TypeOK /\ ControlFits /\ PlanFits /\ ManifestAndDocsAgree /\ PreparedAgrees
      /\ [Next]_vars => PreparedAgrees'
<1> SUFFICES ASSUME TypeOK, ControlFits, PlanFits, ManifestAndDocsAgree,
                    PreparedAgrees, [Next]_vars
             PROVE  PreparedAgrees'
  OBVIOUS
<1>1. CASE Environment \/ Reader \/ UNCHANGED vars
  BY <1>1, OutsiderStep DEF WorkVars, PreparedAgrees
<1>2. CASE BuildOpen
  <2>1. /\ mode' = "build" /\ files' = NoFiles /\ staged' = NoDocs
    BY <1>2 DEF BuildOpen, ControlFits
  <2>2. \A p \in Paths : files'[p] = NoEntry /\ staged'[p] = << >>
    BY <2>1 DEF NoFiles, NoDocs
  <2> QED BY <2>1, <2>2, NoEntryAgrees DEF PreparedAgrees
<1>3. CASE StartUpdate /\ UpdateGates
  <2>1. /\ pc = "idle" /\ mode' = "update" /\ torn' = torn /\ orphans' = orphans
        /\ strat' = manifest.strat /\ pol' = manifest.policy
        /\ files' = manifest.files /\ staged' = docs
    BY <1>3 DEF StartUpdate, UpdateGates, histVars
  <2>2. ~torn => \A p \in Paths : Agrees(p, orphans, manifest.files[p], docs[p],
                                         manifest.strat, manifest.policy)
    BY <1>3, <2>1 DEF UpdateGates, ManifestAndDocsAgree, Rewriting
  <2> QED BY <2>1, <2>2 DEF PreparedAgrees
<1>4. CASE StartUpdate /\ ~UpdateGates
  BY <1>4 DEF StartUpdate, PreparedAgrees
<1>5. CASE PlanDirty
  BY <1>5 DEF PlanDirty, ControlFits, PreparedAgrees, histVars
<1>6. ASSUME NEW p \in Paths, PlanPath(p) PROVE PreparedAgrees'
  BY <1>6 DEF PlanPath, ControlFits, PreparedAgrees, histVars
<1>7. ASSUME NEW p \in Paths, StageDelete(p) \/ StageModify(p) \/ StageAdd(p)
      PROVE  PreparedAgrees'
  <2>1. /\ pc = "stage" /\ mode' = mode /\ strat' = strat /\ pol' = pol
        /\ torn' = torn
        /\ \A q \in Paths : q # p => /\ files'[q] = files[q]
                                     /\ staged'[q] = staged[q]
                                     /\ q \in orphans' <=> q \in orphans
    BY <1>7 DEF StageDelete, StageModify, StageAdd, TypeOK, FileMap, DocMap, histVars
  <2>2. CASE mode = "build"
    <3>1. plan[p] # "modify"
      BY <2>1, <2>2 DEF PlanFits
    <3>2. Agrees(p, {}, files[p], staged[p], strat, pol)
      BY <2>1, <2>2 DEF PreparedAgrees
    <3>3. Agrees(p, {}, files'[p], staged'[p], strat, pol)
      BY <1>7, <3>1, <3>2, StageOne
    <3> QED BY <2>1, <2>2, <3>3 DEF PreparedAgrees
  <2>3. CASE mode # "build" /\ ~torn
    <3>1. Agrees(p, orphans, files[p], staged[p], strat, pol)
      BY <2>1, <2>3 DEF PreparedAgrees
    <3>2. Agrees(p, orphans', files'[p], staged'[p], strat, pol)
      BY <1>7, <3>1, StageOne
    <3>3. ASSUME NEW q \in Paths, q # p
          PROVE  Agrees(q, orphans', files'[q], staged'[q], strat, pol)
      <4>1. Agrees(q, orphans, files[q], staged[q], strat, pol)
        BY <2>1, <2>3 DEF PreparedAgrees
      <4> QED BY <2>1, <3>3, <4>1 DEF Agrees
    <3>4. \A q \in Paths : Agrees(q, orphans', files'[q], staged'[q], strat', pol')
      BY <2>1, <3>2, <3>3
    <3> QED BY <2>1, <2>3, <3>4 DEF PreparedAgrees
  <2>4. CASE mode # "build" /\ torn
    BY <2>1, <2>4 DEF PreparedAgrees
  <2> QED BY <2>2, <2>3, <2>4
<1>8. CASE Commit
  BY <1>8 DEF Commit, PreparedAgrees, cmdVars, histVars
<1>9. CASE pc' \notin {"plan", "stage", "save"}
  BY <1>9 DEF PreparedAgrees
<1>10. CASE (\E s \in Strategies : StartBuild(s)) \/ BuildRemove \/ BuildRemoved
            \/ BuildCreateDir \/ SaveManifest \/ Report \/ Purge \/ Abort
  <2>1. pc' \notin {"plan", "stage", "save"}
    BY <1>10
    DEF StartBuild, BuildRemove, BuildRemoved, BuildCreateDir, SaveManifest,
        Report, Purge, StartPurge, PurgeRemove, PurgeRemoved, Abort
  <2> QED BY <2>1 DEF PreparedAgrees
<1> QED
  BY <1>1, <1>2, <1>3, <1>4, <1>5, <1>6, <1>7, <1>8, <1>10
  DEF Next, Commands, Build, Update, Stage, Finish

-----------------------------------------------------------------------------
(* The manifest and the documents.                                           *)

LEMMA AgreeStep ==
    TypeOK /\ ControlFits /\ PreparedAgrees /\ ManifestAndDocsAgree
      /\ [Next]_vars => ManifestAndDocsAgree'
<1> SUFFICES ASSUME TypeOK, ControlFits, PreparedAgrees, ManifestAndDocsAgree,
                    [Next]_vars
             PROVE  ManifestAndDocsAgree'
  OBVIOUS
<1>1. CASE Environment \/ Reader \/ UNCHANGED vars
  BY <1>1, OutsiderStep DEF WorkVars, ManifestAndDocsAgree, Rewriting
(* Steps that leave the disk alone and do not start from a rewrite.          *)
<1>2. ASSUME UNCHANGED << manifest, dir, docs, torn, orphans >>, ~Rewriting
      PROVE  ManifestAndDocsAgree'
  BY <1>2 DEF ManifestAndDocsAgree
<1>3. CASE (\E s \in Strategies : StartBuild(s)) \/ StartUpdate \/ PlanDirty
           \/ (\E p \in Paths : PlanPath(p)) \/ Report
  <2>1. UNCHANGED << manifest, dir, docs, torn, orphans >> /\ ~Rewriting
    BY <1>3
    DEF StartBuild, StartUpdate, PlanDirty, PlanPath, Report, Rewriting,
        diskVars, histVars
  <2> QED BY <1>2, <2>1
(* Steps into or within a rewrite.                                           *)
<1>4. CASE BuildRemove \/ BuildRemoved \/ BuildCreateDir \/ BuildOpen \/ Commit
  <2>1. Rewriting'
    BY <1>4
    DEF BuildRemove, BuildRemoved, BuildCreateDir, BuildOpen, Commit, Rewriting,
        ControlFits
  <2> QED BY <2>1 DEF ManifestAndDocsAgree
<1>5. ASSUME NEW p \in Paths, StageDelete(p) \/ StageModify(p) \/ StageAdd(p)
      PROVE  ManifestAndDocsAgree'
  <2>1. /\ UNCHANGED << manifest, dir, docs, torn, pc, mode >>
        /\ orphans \subseteq orphans'
    BY <1>5 DEF StageDelete, StageModify, StageAdd, diskVars, histVars
  <2>2. \A q \in Paths : Agrees(q, orphans, manifest.files[q], docs[q],
                                manifest.strat, manifest.policy)
          => Agrees(q, orphans', manifest.files[q], docs[q],
                    manifest.strat, manifest.policy)
    BY <2>1, AgreesWeaken
  <2> QED BY <2>1, <2>2 DEF ManifestAndDocsAgree, Rewriting
(* The second write of the pair.                                             *)
<1>6. CASE SaveManifest
  <2>1. /\ pc = "save" /\ dir = "open" /\ docs = staged
        /\ dir' = dir /\ docs' = docs
        /\ manifest' = [policy |-> pol, strat |-> strat, files |-> files]
    BY <1>6 DEF SaveManifest, ControlFits
  <2>2. /\ manifest'.files = files
        /\ manifest'.strat = strat /\ manifest'.policy = pol
    BY <2>1
  <2>3. CASE mode = "build"
    <3>1. \A p \in Paths : Agrees(p, {}, files[p], staged[p], strat, pol)
      BY <2>1, <2>3 DEF PreparedAgrees
    <3>2. \A p \in Paths : Agrees(p, orphans', files[p], staged[p], strat, pol)
      BY <3>1, AgreesWeaken
    <3> QED BY <2>1, <2>2, <3>2 DEF ManifestAndDocsAgree
  <2>4. CASE mode # "build"
    <3>1. torn' = torn /\ orphans' = orphans
      BY <1>6, <2>4 DEF SaveManifest, histVars
    <3>2. ~torn => \A p \in Paths :
                     Agrees(p, orphans, files[p], staged[p], strat, pol)
      BY <2>1, <2>4 DEF PreparedAgrees
    <3> QED BY <2>1, <2>2, <3>1, <3>2 DEF ManifestAndDocsAgree
  <2> QED BY <2>3, <2>4
<1>7. CASE Purge
  <2>1. manifest' = NoManifest
    BY <1>7 DEF Purge, StartPurge, PurgeRemove, PurgeRemoved, ControlFits
  <2> QED BY <2>1 DEF ManifestAndDocsAgree, NoManifest, NoFiles, NoEntry
<1>8. CASE Abort
  <2>1. /\ UNCHANGED << manifest, dir, docs, orphans >>
        /\ ~torn' => ~torn /\ ~Rewriting
    BY <1>8 DEF Abort, diskVars
  <2> QED BY <2>1 DEF ManifestAndDocsAgree
<1> QED
  BY <1>1, <1>3, <1>4, <1>5, <1>6, <1>7, <1>8
  DEF Next, Commands, Build, Update, Stage, Finish

-----------------------------------------------------------------------------
(* Readers.                                                                  *)

(* A handle that was opened settled holds documents of its policy only, and  *)
(* so does the evidence found through it.                                    *)
LEMMA SettledStep ==
    TypeOK /\ ManifestAndDocsAgree /\ SettledHandle /\ SettledReadersKeepPolicy
      /\ [Next]_vars => SettledHandle' /\ SettledReadersKeepPolicy'
<1> SUFFICES ASSUME TypeOK, ManifestAndDocsAgree, SettledHandle,
                    SettledReadersKeepPolicy, [Next]_vars
             PROVE  SettledHandle' /\ SettledReadersKeepPolicy'
  OBVIOUS
<1>1. CASE UNCHANGED << handle, evidence >>
  BY <1>1 DEF SettledHandle, SettledReadersKeepPolicy
<1>2. CASE ReaderGate \/ ReaderClose
  <2>1. evidence' = evidence
    BY <1>2 DEF ReaderGate, ReaderClose
  <2>2. NoHandle.settled = FALSE
    BY DEF NoHandle
  <2>3. CASE ReaderGate
    <3>1. handle' = [NoHandle EXCEPT !.state = "gated", !.policy = policy]
      BY <2>3 DEF ReaderGate
    <3>2. handle'.settled = NoHandle.settled
      BY <3>1 DEF NoHandle
    <3> QED BY <2>1, <2>2, <3>2 DEF SettledHandle, SettledReadersKeepPolicy
  <2>4. CASE ReaderClose
    <3>1. handle'.settled = NoHandle.settled
      BY <2>4 DEF ReaderClose
    <3> QED BY <2>1, <2>2, <3>1 DEF SettledHandle, SettledReadersKeepPolicy
  <2> QED BY <1>2, <2>3, <2>4
<1>3. CASE ReaderOpen
  <2>1. CASE dir = "open"
    <3>1. /\ handle'.docs = docs /\ handle'.policy = handle.policy
          /\ handle'.settled = Settled /\ evidence' = evidence
      BY <1>3, <2>1 DEF ReaderOpen, TypeOK, Handle
    <3>2. ASSUME Settled, NEW p \in Paths, NEW i \in DOMAIN docs[p]
          PROVE  docs[p][i].policy = handle.policy
      <4>1. Agrees(p, orphans, manifest.files[p], docs[p],
                   manifest.strat, manifest.policy)
        BY <3>2 DEF Settled, ManifestAndDocsAgree
      <4>2. docs[p] = << [sha |-> manifest.files[p].sha, strat |-> manifest.strat,
                          policy |-> manifest.policy] >>
        BY <3>2, <4>1 DEF Agrees
      <4>3. i = 1
        BY <3>2, <4>2
      <4> QED BY <3>2, <4>2, <4>3 DEF Settled
    <3> QED BY <3>1, <3>2 DEF SettledHandle, SettledReadersKeepPolicy
  <2>2. CASE dir # "open"
    BY <1>3, <2>2 DEF ReaderOpen, NoHandle, SettledHandle, SettledReadersKeepPolicy
  <2> QED BY <2>1, <2>2
<1>4. ASSUME NEW p \in Paths, ReaderHit(p)
      PROVE  SettledHandle' /\ SettledReadersKeepPolicy'
  BY <1>4 DEF ReaderHit, SettledHandle, SettledReadersKeepPolicy
<1>5. CASE Environment \/ Commands \/ UNCHANGED vars
  <2>1. UNCHANGED << handle, evidence >>
    BY <1>5
    DEF Environment, EditFile, EditIgnore, EditPolicy, Commands, Build, Update,
        Stage, Finish, Purge, Abort, StartBuild, BuildRemove, BuildRemoved,
        BuildCreateDir, BuildOpen, StartUpdate, PlanDirty, PlanPath,
        StageDelete, StageModify, StageAdd, Commit, SaveManifest, Report,
        StartPurge, PurgeRemove, PurgeRemoved, vars, readVars
  <2> QED BY <1>1, <2>1
<1> QED BY <1>2, <1>3, <1>4, <1>5 DEF Next, Reader

-----------------------------------------------------------------------------
(* Theorems.                                                                 *)

(* The strengthening is an invariant.                                        *)
THEOREM Inductive == Spec => []IndInv
<1>1. IndInv /\ [Next]_vars => IndInv'
  BY TypeStep, ControlStep, PlanStep, PreparedStep, AgreeStep, SettledStep
  DEF IndInv
<1> QED BY InitInd, <1>1, PTL DEF Spec

(* Every variable keeps its type.                                            *)
THEOREM TypeCorrect == Spec => []TypeOK
<1>1. IndInv => TypeOK
  BY DEF IndInv
<1> QED BY Inductive, <1>1, PTL

(* Manifest and documents agree outside a rewrite, unless a command died in  *)
(* one: no other crash and no edit of the tree can part them.                *)
THEOREM Agreement == Spec => []ManifestAndDocsAgree
<1>1. IndInv => ManifestAndDocsAgree
  BY DEF IndInv
<1> QED BY Inductive, <1>1, PTL

(* The policy gate holds for readers that opened a settled index.            *)
THEOREM SettledPolicy == Spec => []SettledReadersKeepPolicy
<1>1. IndInv => SettledReadersKeepPolicy
  BY DEF IndInv
<1> QED BY Inductive, <1>1, PTL

(* A clean, untorn index serves every scanned text file that is no orphan    *)
(* with its present content.                                                 *)
THEOREM CleanServes == Spec => []CleanIndexServesFiles
<1>1. IndInv => CleanIndexServesFiles
  <2> SUFFICES ASSUME IndInv, pc = "idle", ~torn,
                      Clean(manifest, policy, Scan(src, excluded), src),
                      NEW p \in Paths \ (excluded \cup orphans), src[p] \in Texts
               PROVE  \E i \in DOMAIN docs[p] : docs[p][i].sha = src[p]
    BY DEF CleanIndexServesFiles
  <2> DEFINE now == Scan(src, excluded)
             e   == manifest.files[p]
  <2>1. now[p] = src[p] /\ now[p] # Absent
    BY ContentsAssumption DEF Scan, Sha, Files
  <2>2. /\ manifest # NoManifest
        /\ DirtyPaths(manifest.files, now, src) = {}
    BY DEF Clean
  <2>3. e \in Entry \cup {NoEntry}
    BY <2>2 DEF IndInv, TypeOK, Manifest, FileMap
  <2>4. e # NoEntry
    BY <2>1, <2>2 DEF DirtyPaths, AddedPaths
  <2>5. src[p] \in Files /\ src[p] \notin {Outside, Absent}
    BY ContentsAssumption DEF Files
  <2>6. e.status # "skipped"
    BY <2>1, <2>2, <2>5 DEF DirtyPaths, ModifiedPaths, Indexable
  <2>7. e.status = "indexed"
    BY <2>3, <2>4, <2>6 DEF Entry
  <2>8. e.sha = src[p]
    BY <2>2, <2>5, <2>7 DEF DirtyPaths, ModifiedPaths
  <2>9. Agrees(p, orphans, e, docs[p], manifest.strat, manifest.policy)
    BY <2>2 DEF IndInv, ManifestAndDocsAgree, Rewriting
  <2>10. docs[p] = << [sha |-> e.sha, strat |-> manifest.strat,
                       policy |-> manifest.policy] >>
    BY <2>7, <2>9 DEF Agrees
  <2> QED BY <2>8, <2>10
<1> QED BY Inductive, <1>1, PTL

(* dirty, validate and status agree, whatever the state.                     *)
THEOREM CleanIsValid == Spec => []CleanImpliesValid
<1>1. IndInv => CleanImpliesValid
  <2> SUFFICES ASSUME IndInv PROVE CleanImpliesValid
    OBVIOUS
  <2>1. Valid(manifest, policy, src)
          <=> ~StatusRequiresRebuild(manifest, policy, src)
    BY DEF Valid, StatusRequiresRebuild, UnsafeFiles, GoneFiles, StaleFiles,
           IndexedPaths
  <2>2. ASSUME Clean(manifest, policy, Scan(src, excluded), src),
               StatusRequiresRebuild(manifest, policy, src)
        PROVE  FALSE
    <3>1. PICK p \in Paths :
            /\ manifest.files[p].status = "indexed"
            /\ \/ src[p] \in {Outside, Absent}
               \/ src[p] \in Files /\ src[p] # manifest.files[p].sha
      BY <2>2 DEF Clean, StatusRequiresRebuild
    <3>2. manifest.files[p] # NoEntry
      BY <3>1 DEF NoEntry
    <3> QED
      BY <2>2, <3>1, <3>2 DEF Clean, DirtyPaths, ModifiedPaths, DeletedPaths
  <2> QED BY <2>1, <2>2 DEF CleanImpliesValid
<1> QED BY Inductive, <1>1, PTL

-----------------------------------------------------------------------------
(* What an update leaves dirty.                                              *)

(* The plan of a dirty update leaves alone only what is settled, and deletes *)
(* exactly what it has to do with and is gone.                               *)
LEMMA PlanSettles ==
    ASSUME NEW p \in Paths, PlanDirty, records = Scan(src, excluded)
    PROVE  /\ plan'[p] = "none" => p \notin DirtyPaths(files, records, src)
           /\ plan'[p] = "delete" <=> plan'[p] # "none" /\ src[p] = Absent
<1>1. p \in DeletedPaths(files, src) <=> files[p] # NoEntry /\ src[p] = Absent
  BY DEF DeletedPaths
<1>2. p \in ModifiedPaths(files, records, src) => src[p] # Absent
  BY ContentsAssumption DEF ModifiedPaths, Files
<1>3. p \in AddedPaths(files, records) => files[p] = NoEntry /\ src[p] # Absent
  BY DEF AddedPaths, Scan, Sha
<1>4. plan'[p] = CASE p \in DeletedPaths(files, src)           -> "delete"
                   [] p \in ModifiedPaths(files, records, src) -> "modify"
                   [] p \in AddedPaths(files, records)         -> "add"
                   [] OTHER                                    -> "none"
  BY DEF PlanDirty
<1> QED BY <1>1, <1>2, <1>3, <1>4 DEF DirtyPaths

(* A file indexed, for the first time or again, under what the scan saw of   *)
(* it is not dirty.                                                          *)
LEMMA FreshIsClean ==
    ASSUME NEW p \in Paths, NEW entries, NEW known, Utf8(src[p]),
           entries[p] = FreshEntry(known, src[p])
    PROVE  p \notin DirtyPaths(entries, records, src)
<1> DEFINE e == entries[p]
<1>1. src[p] \in Files /\ src[p] \notin {Absent, Outside, Locked}
  BY ContentsAssumption DEF Utf8, Files
<1>2. e.sha = src[p] /\ e.status = (IF src[p] = Empty THEN "skipped" ELSE "indexed")
  BY DEF FreshEntry
<1>3. Empty \notin Texts /\ e # NoEntry
  <2>1. e.sha # Absent
    BY <1>1, <1>2
  <2>2. Empty \notin Texts
    BY ContentsAssumption
  <2> QED BY <2>1, <2>2 DEF NoEntry
<1>4. Sha(src[p]) = e.sha
  BY <1>1, <1>2 DEF Sha
<1>5. p \notin ModifiedPaths(entries, records, src)
  BY <1>1, <1>2, <1>3, <1>4 DEF ModifiedPaths, Indexable
<1> QED BY <1>1, <1>3, <1>5 DEF DirtyPaths, DeletedPaths, AddedPaths

(* One file done is one path settled.                                        *)
LEMMA StageSettles ==
    ASSUME TypeOK, PlanFits, NEW p \in Paths, records = Scan(src, excluded),
           plan[p] = "delete" <=> plan[p] # "none" /\ src[p] = Absent,
           StageDelete(p) \/ StageModify(p) \/ StageAdd(p)
    PROVE  SettledPath(files', p)
<1> SUFFICES ASSUME p \notin excluded, Ordinary(src[p])
             PROVE  p \notin DirtyPaths(files', records, src)
  BY DEF SettledPath
<1>1. records[p] = Sha(src[p])
  BY DEF Scan
<1>2. CASE StageDelete(p)
  <2>1. files'[p] = NoEntry /\ src[p] = Absent
    BY <1>2 DEF StageDelete, TypeOK, FileMap
  <2>2. records[p] = Absent
    BY <1>1, <2>1 DEF Sha
  <2> QED
    BY <2>1, <2>2 DEF NoEntry, DirtyPaths, ModifiedPaths, DeletedPaths, AddedPaths
<1>3. CASE StageModify(p) \/ StageAdd(p)
  <2>1. src[p] # Absent /\ Utf8(src[p])
    BY <1>3 DEF StageModify, StageAdd, Ordinary
  <2>2. records[p] # Absent
    BY <1>1, <2>1, ContentsAssumption DEF Sha, Utf8, Files
  <2>3. \E known : files'[p] = FreshEntry(known, src[p])
    <3>1. CASE StageModify(p)
      BY <2>2, <3>1 DEF StageModify, RevisedEntry, TypeOK, FileMap
    <3>2. CASE StageAdd(p)
      BY <3>2 DEF StageAdd, TypeOK, FileMap
    <3> QED BY <1>3, <3>1, <3>2
  <2> QED BY <2>1, <2>3, FreshIsClean
<1> QED BY <1>2, <1>3

(* A path is dirty or not by its own entry.                                  *)
LEMMA DirtyByEntry ==
    ASSUME NEW p \in Paths, NEW one, NEW other, one[p] = other[p]
    PROVE  SettledPath(one, p) <=> SettledPath(other, p)
BY DEF SettledPath, DirtyPaths, ModifiedPaths, DeletedPaths, AddedPaths

(* What is settled stays settled as long as nothing is edited.                *)
LEMMA SettlesStep ==
    TypeOK /\ PlanFits /\ ControlFits /\ UpdateSettles /\ [Next]_vars => UpdateSettles'
<1> SUFFICES ASSUME TypeOK, PlanFits, ControlFits, UpdateSettles, [Next]_vars, quiet'
             PROVE  UpdateSettles'
  BY DEF UpdateSettles
<1>1. CASE Environment
  BY <1>1 DEF Environment, EditFile, EditIgnore, EditPolicy
<1>2. CASE Reader \/ UNCHANGED vars
  <2>1. UNCHANGED << src, excluded, manifest, pc, mode, records, plan, files, quiet >>
    BY <1>2
    DEF Reader, ReaderGate, ReaderOpen, ReaderHit, ReaderClose, vars, envVars,
        diskVars, cmdVars
  <2> QED BY <2>1 DEF UpdateSettles, SettledPath
<1>3. CASE StartUpdate
  BY <1>3 DEF StartUpdate, UpdateSettles, envVars
<1>4. CASE PlanDirty
  <2>1. /\ quiet /\ pc = "plan" /\ pc' = "stage" /\ mode' = "dirty"
        /\ UNCHANGED << src, excluded, records, files >>
    BY <1>4 DEF PlanDirty, envVars
  <2>2. mode # "build"
    BY <1>4, <2>1 DEF ControlFits
  <2>3. records = Scan(src, excluded)
    BY <2>1, <2>2 DEF UpdateSettles
  <2>4. ASSUME NEW p \in Paths
        PROVE  /\ plan'[p] = "none" => SettledPath(files, p)'
               /\ plan'[p] = "delete" <=> plan'[p] # "none" /\ src[p] = Absent
    BY <1>4, <2>1, <2>3, PlanSettles DEF SettledPath
  <2> QED BY <2>1, <2>3, <2>4 DEF UpdateSettles
<1>5. ASSUME NEW p \in Paths, PlanPath(p) PROVE UpdateSettles'
  <2>1. /\ quiet /\ pc = "plan" /\ pc' \in {"stage", "idle"} /\ mode' = "path"
        /\ UNCHANGED << src, excluded >>
        /\ pc' = "stage" => records' = records
    BY <1>5 DEF PlanPath, envVars
  <2>2. mode # "build"
    BY <2>1 DEF ControlFits
  <2> QED BY <2>1, <2>2 DEF UpdateSettles
<1>6. ASSUME NEW p \in Paths, StageDelete(p) \/ StageModify(p) \/ StageAdd(p)
      PROVE  UpdateSettles'
  <2>1. /\ quiet /\ pc = "stage" /\ pc' = "stage" /\ mode' = mode
        /\ UNCHANGED << src, excluded, records >>
        /\ plan' = [plan EXCEPT ![p] = "none"]
        /\ \A q \in Paths : q # p => files'[q] = files[q]
    BY <1>6 DEF StageDelete, StageModify, StageAdd, envVars, TypeOK, FileMap
  <2>2. mode # "build" => records = Scan(src, excluded)
    BY <2>1 DEF UpdateSettles
  <2>3. ASSUME mode = "dirty", NEW q \in Paths
        PROVE  /\ plan'[q] = "none" => SettledPath(files, q)'
               /\ plan'[q] = "delete" <=> plan'[q] # "none" /\ src[q] = Absent
    <3>1. /\ plan[q] = "none" => SettledPath(files, q)
          /\ plan[q] = "delete" <=> plan[q] # "none" /\ src[q] = Absent
      BY <2>1, <2>3 DEF UpdateSettles
    <3>2. SettledPath(files, q)' <=> SettledPath(files', q)
      BY <2>1 DEF SettledPath
    <3>3. CASE q = p
      BY <1>6, <2>1, <2>2, <2>3, <3>1, <3>2, <3>3, StageSettles DEF TypeOK
    <3>4. CASE q # p
      BY <2>1, <3>1, <3>2, <3>4, DirtyByEntry DEF TypeOK
    <3> QED BY <3>3, <3>4
  <2> QED BY <2>1, <2>2, <2>3 DEF UpdateSettles
<1>7. CASE Commit
  BY <1>7 DEF Commit, UpdateSettles, SettledPath, NoPlan, envVars, cmdVars
<1>8. CASE SaveManifest
  <2>1. CASE mode = "build"
    BY <1>8, <2>1 DEF SaveManifest, UpdateSettles
  <2>2. CASE mode # "build"
    <3>1. /\ quiet /\ pc = "save" /\ pc' = "report" /\ mode' = mode
          /\ UNCHANGED << src, excluded, records >> /\ manifest'.files = files
      BY <1>8, <2>2 DEF SaveManifest, envVars, cmdVars
    <3> QED BY <2>2, <3>1 DEF UpdateSettles, SettledPath
  <2> QED BY <2>1, <2>2
<1>9. CASE Report \/ Abort \/ Purge
  BY <1>9
  DEF Report, Abort, Purge, StartPurge, PurgeRemove, PurgeRemoved, UpdateSettles
<1>10. CASE Build
  BY <1>10
  DEF Build, StartBuild, BuildRemove, BuildRemoved, BuildCreateDir, BuildOpen,
      UpdateSettles, ControlFits
<1> QED
  BY <1>1, <1>2, <1>3, <1>4, <1>5, <1>6, <1>7, <1>8, <1>9, <1>10
  DEF Next, Commands, Update, Stage, Finish

(* A dirty update that nothing disturbed leaves dirty only what it cannot    *)
(* settle, for every tree, manifest and policy and in whatever order the     *)
(* files are staged: unreadable files and files no longer scanned.           *)
THEOREM UpdatesSettle == Spec => UpdateSettlesOrdinaryFiles
<1>1. Init => UpdateSettles
  BY DEF Init, UpdateSettles
<1>2. IndInv /\ UpdateSettles /\ [Next]_vars => UpdateSettles'
  BY SettlesStep DEF IndInv
<1>3. ASSUME UpdateSettles, [Next]_vars, pc = "report", pc' = "idle",
             aborts' = aborts, mode = "dirty", quiet,
             NEW p \in DirtyPaths(manifest.files, Scan(src, excluded), src)
      PROVE  p \in excluded \/ ~Ordinary(src[p])
  <2>1. records = Scan(src, excluded)
    BY <1>3 DEF UpdateSettles
  <2>2. p \in Paths
    BY DEF DirtyPaths, ModifiedPaths, DeletedPaths, AddedPaths
  <2> QED BY <1>3, <2>1, <2>2 DEF UpdateSettles, SettledPath
<1>4. UpdateSettles /\ [Next]_vars =>
        ((pc = "report" /\ pc' = "idle" /\ aborts' = aborts /\ mode = "dirty" /\ quiet) =>
           \A p \in DirtyPaths(manifest.files, Scan(src, excluded), src) :
               p \in excluded \/ ~Ordinary(src[p]))
  BY <1>3
<1> QED BY Inductive, <1>1, <1>2, <1>4, PTL DEF Spec, UpdateSettlesOrdinaryFiles
=============================================================================
