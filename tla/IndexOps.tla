------------------------------ MODULE IndexOps ------------------------------
(***************************************************************************)
(* The per-file decisions of the persistent BM25 index: what the scanner   *)
(* records, what becomes of a file that is indexed for the first time or   *)
(* again, and what the status, dirty and validate commands say of a        *)
(* manifest.  Source: crates/openlocus-index/src/persistent.rs and         *)
(* crates/openlocus-repo/src/scan.rs.                                      *)
(*                                                                         *)
(* A file is what is found at a repository path:                           *)
(*   Texts    non-empty UTF-8 contents, one constant per content;          *)
(*   Blobs    contents that read_to_string rejects (not UTF-8);            *)
(*   Empty    a file with no line;                                         *)
(*   Absent   nothing there;                                               *)
(*   Outside  a symbolic link whose target leaves the source root, which   *)
(*            validate_path rejects;                                       *)
(*   Locked   something that exists and cannot be read.                    *)
(* blake3 is taken to be free of collisions: the hash of a content is the  *)
(* content.                                                                *)
(***************************************************************************)
EXTENDS Naturals, Sequences

CONSTANTS
    Paths,       \* repository-relative paths
    Texts, Blobs, Empty, Absent, Outside, Locked,
    Policies,    \* policy files; the policy hash is the policy
    Strategies   \* chunk strategies: line windows, AST chunks

ASSUME ContentsAssumption ==
    /\ Texts \cap Blobs = {}
    /\ {Empty, Absent, Outside, Locked} \cap (Texts \cup Blobs) = {}
    /\ Empty \notin {Absent, Outside, Locked}
    /\ Absent \notin {Outside, Locked}
    /\ Outside # Locked
    /\ Absent \notin Policies

Files    == Texts \cup Blobs \cup {Empty}
Contents == Files \cup {Absent, Outside, Locked}

(* What read_to_string accepts, and what std::fs::read(..).ok() hashes to:   *)
(* Absent stands for "no hash".                                             *)
Utf8(c) == c \in Texts \cup {Empty}
Sha(c)  == IF c \in Files THEN c ELSE Absent

-----------------------------------------------------------------------------
(* The scan: a record for each regular, readable file the policy and the     *)
(* ignore files do not exclude, with its hash; Absent where there is none.   *)

Records == [Paths -> Files \cup {Absent}]

Scan(src, excluded) ==
    [p \in Paths |-> IF p \in excluded THEN Absent ELSE Sha(src[p])]

-----------------------------------------------------------------------------
(* Manifest entries and index documents.  The documents of one file are its  *)
(* chunks, which are added and deleted together: one Doc stands for them.    *)
(* docs[p] is a sequence because nothing in the index makes it a set.        *)

NoEntry == [sha |-> Absent, status |-> "none"]
Entry   == [sha : Files, status : {"indexed", "skipped"}]
FileMap == [Paths -> Entry \cup {NoEntry}]
NoFiles == [p \in Paths |-> NoEntry]

Manifest   == [policy : Policies, strat : Strategies, files : FileMap]
NoManifest == [policy |-> Absent, strat |-> Absent, files |-> NoFiles]

Doc    == [sha : Texts, strat : Strategies, policy : Policies]
DocMap == [Paths -> Seq(Doc)]
NoDocs == [p \in Paths |-> << >>]

(* Broken variants of the next definition, for the sensitivity of the        *)
(* properties: a failed read hashed again; an empty file keeping its hash.   *)
FreshEntryRehashed(known, c) ==
    IF Utf8(c)
    THEN [sha |-> c, status |-> IF c = Empty THEN "skipped" ELSE "indexed"]
    ELSE [sha |-> Sha(c), status |-> "skipped"]

FreshEntryEmptyKeepsHash(known, c) ==
    IF c \in Texts
    THEN [sha |-> c, status |-> "indexed"]
    ELSE [sha |-> known, status |-> "skipped"]

(* Index content c of a file for the first time, known to the caller by the  *)
(* hash known: text is indexed, an empty file is skipped under its own hash, *)
(* anything unreadable or unsafe is skipped under the hash already known.    *)
FreshEntry(known, c) ==
    IF Utf8(c)
    THEN [sha |-> c, status |-> IF c = Empty THEN "skipped" ELSE "indexed"]
    ELSE [sha |-> known, status |-> "skipped"]

(* The same for a file that has an entry e already; without a scan record    *)
(* the entry is left as it is.                                               *)
RevisedEntry(e, record, c) ==
    IF record = Absent THEN e ELSE FreshEntry(e.sha, c)

(* The documents added for content c.                                        *)
FreshDocs(record, c, strat, policy) ==
    IF record # Absent /\ c \in Texts
    THEN << [sha |-> c, strat |-> strat, policy |-> policy] >>
    ELSE << >>

-----------------------------------------------------------------------------
(* dirty_index: the paths an update has to look at.                          *)

Indexable(record, c) == record # Absent /\ c \in Texts

(* Broken variants: a skipped file is only looked at when its hash changed;  *)
(* an unsafe path is passed over.                                            *)
ModifiedPathsNoPromotion(files, records, src) ==
    {p \in Paths : \/ files[p].status = "indexed" /\ src[p] = Outside
                  \/ /\ files[p].status # "none" /\ src[p] \in Files
                     /\ src[p] # files[p].sha}

ModifiedPathsUnsafeIgnored(files, records, src) ==
    {p \in Paths : /\ files[p].status # "none" /\ src[p] \notin {Outside, Absent}
                  /\ \/ src[p] \in Files /\ src[p] # files[p].sha
                     \/ files[p].status = "skipped" /\ Indexable(records[p], src[p])}

ModifiedPaths(files, records, src) ==
    {p \in Paths :
        LET e == files[p]
            c == src[p]
        IN \/ e.status = "indexed" /\ c = Outside
           \/ e.status = "indexed" /\ c \in Files /\ c # e.sha
           \/ /\ e.status = "skipped" /\ c \notin {Outside, Absent}
              /\ Indexable(records[p], c) \/ Sha(c) # e.sha}

DeletedPaths(files, src) == {p \in Paths : files[p] # NoEntry /\ src[p] = Absent}

AddedPaths(files, records) ==
    {p \in Paths : files[p] = NoEntry /\ records[p] # Absent}

DirtyPaths(files, records, src) ==
    ModifiedPaths(files, records, src) \cup DeletedPaths(files, src)
        \cup AddedPaths(files, records)

Clean(manifest, policy, records, src) ==
    /\ manifest # NoManifest
    /\ manifest.policy = policy
    /\ DirtyPaths(manifest.files, records, src) = {}

(* status_index: a rebuild is asked for when any indexed file is unsafe,     *)
(* gone or has another hash.                                                 *)
StatusRequiresRebuild(manifest, policy, src) ==
    \/ manifest = NoManifest
    \/ manifest.policy # policy
    \/ \E p \in Paths :
          /\ manifest.files[p].status = "indexed"
          /\ \/ src[p] \in {Outside, Absent}
             \/ src[p] \in Files /\ src[p] # manifest.files[p].sha

(* validate_index: the three lists, and the verdict.                         *)
IndexedPaths(files)    == {p \in Paths : files[p].status = "indexed"}
UnsafeFiles(files, src) == {p \in IndexedPaths(files) : src[p] = Outside}
GoneFiles(files, src)   == {p \in IndexedPaths(files) : src[p] = Absent}
StaleFiles(files, src)  ==
    {p \in IndexedPaths(files) : src[p] \in Files \ {files[p].sha}}

Valid(manifest, policy, src) ==
    /\ manifest # NoManifest
    /\ manifest.policy = policy
    /\ UnsafeFiles(manifest.files, src) = {}
    /\ GoneFiles(manifest.files, src) = {}
    /\ StaleFiles(manifest.files, src) = {}

-----------------------------------------------------------------------------
(* update --path p: what is to be done with the one path.                    *)

PathPlan(e, record, c) ==
    CASE c = Outside                                    -> "refuse"
      [] c = Absent /\ e # NoEntry                      -> "delete"
      [] c = Absent /\ e = NoEntry                      -> "refuse"
      [] c \notin {Outside, Absent} /\ record = Absent  -> "refuse"
      [] c \notin {Outside, Absent} /\ record # Absent /\ e = NoEntry -> "add"
      [] OTHER ->
            IF Sha(c) = e.sha /\ (e.status = "skipped" => c \notin Texts)
            THEN "noop" ELSE "modify"
=============================================================================
