---------------------------- MODULE FeatureCache ----------------------------
(***************************************************************************)
(* The files behind a market feature cache: the archives that are          *)
(* downloaded and verified, and the pair of row file and manifest that is  *)
(* published under a lock.                                                 *)
(*                                                                         *)
(* Several processes build the same cache.  Each downloads the archive     *)
(* into a file of its own, verifies it and puts it in place; parses the    *)
(* archive that is in place into a row file of its own; takes the lock;    *)
(* removes the manifest, puts its rows in place and writes their manifest. *)
(* The lock is a file made with O_EXCL.  A builder that meets one older    *)
(* than a minute removes it, whoever made it.                              *)
(*                                                                         *)
(* An archive is a version and whether its bytes are those the exchange    *)
(* published.  The rows of a builder are the archive they were parsed      *)
(* from; a manifest names the builder whose rows it describes.             *)
(***************************************************************************)
EXTENDS Naturals

CONSTANTS
    Builders,
    NoBuilder,
    Versions      \* bound: how often the exchange publishes the archive

ASSUME VersionsAssumption == Versions \in Nat \ {0}
ASSUME NoBuilderAssumption == NoBuilder \notin Builders

Archives == [version : 0..Versions, intact : BOOLEAN]
NoArchive == [version |-> 0, intact |-> FALSE]

VARIABLES
    remote,       \* the version the exchange serves, and whether it parses
    archive,      \* the archive in place
    jsonl,        \* whose rows are in place
    manifest,     \* whose rows the manifest describes
    lockOwner,    \* who made the lock file
    lockOld,      \* the lock file is older than stale_seconds
    at,           \* where a builder is
    temporary,    \* the archive a builder has downloaded
    sha,          \* the version whose hash download returned
    parsed,       \* the archive the builder's rows are from
    outcome,      \* how the builder ended
    broken        \* history: the lock file of a builder inside was removed

cacheFiles == <<archive, jsonl, manifest>>
cacheLock == <<lockOwner, lockOld>>
building == <<temporary, sha, parsed>>
cacheVars == <<remote, cacheFiles, cacheLock, at, building, outcome, broken>>

Steps == {"download", "fetch", "verify", "parse", "lock", "stale", "unlink", "replace",
          "manifest", "release", "failing", "cleanup", "validate", "ended", "dead"}

CacheTypeOK ==
    /\ remote \in [version : 1..Versions, parses : BOOLEAN]
    /\ archive \in Archives
    /\ jsonl \in Builders \union {NoBuilder}
    /\ manifest \in Builders \union {NoBuilder}
    /\ lockOwner \in Builders \union {NoBuilder}
    /\ lockOld \in BOOLEAN
    /\ at \in [Builders -> Steps]
    /\ temporary \in [Builders -> Archives]
    /\ sha \in [Builders -> 0..Versions]
    /\ parsed \in [Builders -> Archives]
    /\ outcome \in [Builders -> {"none", "done", "error", "timeout", "invalid"}]
    /\ broken \in BOOLEAN

CacheInit ==
    /\ remote \in [version : {1}, parses : BOOLEAN]
    /\ archive = NoArchive
    /\ jsonl = NoBuilder
    /\ manifest = NoBuilder
    /\ lockOwner = NoBuilder
    /\ lockOld = FALSE
    /\ at = [b \in Builders |-> "download"]
    /\ temporary = [b \in Builders |-> NoArchive]
    /\ sha = [b \in Builders |-> 0]
    /\ parsed = [b \in Builders |-> NoArchive]
    /\ outcome = [b \in Builders |-> "none"]
    /\ broken = FALSE

-----------------------------------------------------------------------------
Moves(b, step) == at' = [at EXCEPT ![b] = step]
Ends(b, how) == Moves(b, "ended") /\ outcome' = [outcome EXCEPT ![b] = how]
MovesOn(b, step) == Moves(b, step) /\ UNCHANGED outcome

(* Body and checksum of a version that the exchange has published agree. *)
Verified(a) == a.intact /\ a.version = remote.version

(* ArchiveDownloader.download with an archive in place: its hash against the *)
(* checksum of the exchange, when that can be had, then its content.         *)
CheckArchive(b) ==
    /\ at[b] = "download"
    /\ \/ /\ Verified(archive) /\ remote.parses
          /\ MovesOn(b, "parse")
          /\ sha' = [sha EXCEPT ![b] = archive.version]
       \/ ~Verified(archive) /\ MovesOn(b, "fetch") /\ UNCHANGED sha
       \/ archive # NoArchive /\ Ends(b, "error") /\ UNCHANGED sha
    /\ UNCHANGED <<remote, cacheFiles, cacheLock, temporary, parsed, broken>>

(* The body is streamed to the builder's own file, intact or not; the        *)
(* connection fails; or the exchange has no such archive, which leaves the   *)
(* rows without the source.                                                  *)
FetchArchive(b) ==
    /\ at[b] = "fetch"
    /\ \/ /\ \E intact \in BOOLEAN :
               temporary' = [temporary EXCEPT ![b] = [version |-> remote.version, intact |-> intact]]
          /\ MovesOn(b, "verify")
       \/ Ends(b, "error") /\ UNCHANGED temporary
       \/ MovesOn(b, "lock") /\ UNCHANGED temporary
    /\ UNCHANGED <<remote, cacheFiles, cacheLock, sha, parsed, broken>>

(* Variant: the archive is put in place and verified there. *)
VerifyInPlace(b) ==
    /\ at[b] = "verify"
    /\ archive' = temporary[b]
    /\ IF Verified(temporary[b]) /\ remote.parses
       THEN /\ sha' = [sha EXCEPT ![b] = temporary[b].version]
            /\ MovesOn(b, "parse")
       ELSE Ends(b, "error") /\ UNCHANGED sha
    /\ temporary' = [temporary EXCEPT ![b] = NoArchive]
    /\ UNCHANGED <<remote, jsonl, manifest, cacheLock, parsed, broken>>

(* Checksum and validate_archive, then os.replace; an error, also one of the *)
(* connection, removes the builder's file.                                   *)
VerifyArchive(b) ==
    /\ at[b] = "verify"
    /\ \/ /\ Verified(temporary[b]) /\ remote.parses
          /\ archive' = temporary[b]
          /\ sha' = [sha EXCEPT ![b] = temporary[b].version]
          /\ MovesOn(b, "parse")
       \/ Ends(b, "error") /\ UNCHANGED <<archive, sha>>
    /\ temporary' = [temporary EXCEPT ![b] = NoArchive]
    /\ UNCHANGED <<remote, jsonl, manifest, cacheLock, parsed, broken>>

(* _parse_archive and _write_feature_rows: the rows are those of the archive *)
(* that is in place now.                                                     *)
ParseArchive(b) ==
    /\ at[b] = "parse"
    /\ \/ parsed' = [parsed EXCEPT ![b] = archive] /\ MovesOn(b, "lock")
       \/ Ends(b, "error") /\ UNCHANGED parsed
    /\ UNCHANGED <<remote, cacheFiles, cacheLock, temporary, sha, broken>>

-----------------------------------------------------------------------------
(* _publication_lock *)

TakeLock(b) ==
    /\ at[b] = "lock"
    /\ lockOwner = NoBuilder
    /\ lockOwner' = b
    /\ lockOld' = FALSE
    /\ MovesOn(b, "unlink")
    /\ UNCHANGED <<remote, cacheFiles, building, broken>>

(* The file is there: it is old, or the deadline passes. *)
MeetLock(b) ==
    /\ at[b] = "lock"
    /\ lockOwner # NoBuilder
    /\ \/ lockOld /\ MovesOn(b, "stale")
       \/ ~lockOld /\ Ends(b, "timeout")
    /\ UNCHANGED <<remote, cacheFiles, cacheLock, building, broken>>

Holding(b) == at[b] \in {"unlink", "replace", "manifest", "release", "failing"}

(* Between stat and unlink the file may have become another one. *)
BreakLock(b) ==
    /\ at[b] = "stale"
    /\ lockOwner' = NoBuilder
    /\ lockOld' = FALSE
    /\ broken' = (broken \/ (lockOwner # NoBuilder /\ Holding(lockOwner)))
    /\ MovesOn(b, "lock")
    /\ UNCHANGED <<remote, cacheFiles, building>>

(* Only a lock file with the builder's token is removed. *)
GiveBack(b) ==
    /\ lockOwner' = IF lockOwner = b THEN NoBuilder ELSE lockOwner
    /\ lockOld' = IF lockOwner = b THEN FALSE ELSE lockOld

-----------------------------------------------------------------------------
(* write_feature_cache, inside the lock *)

(* Variant: the old manifest stays until the new one replaces it. *)
UnlinkNothing(b) ==
    /\ at[b] = "unlink"
    /\ UNCHANGED manifest
    /\ MovesOn(b, "replace")
    /\ UNCHANGED <<remote, archive, jsonl, cacheLock, building, broken>>

UnlinkManifest(b) ==
    /\ at[b] = "unlink"
    /\ \/ manifest' = NoBuilder /\ MovesOn(b, "replace")
       \/ MovesOn(b, "failing") /\ UNCHANGED manifest
    /\ UNCHANGED <<remote, archive, jsonl, cacheLock, building, broken>>

ReplaceRows(b) ==
    /\ at[b] = "replace"
    /\ \/ jsonl' = b /\ MovesOn(b, "manifest")
       \/ MovesOn(b, "failing") /\ UNCHANGED jsonl
    /\ UNCHANGED <<remote, archive, manifest, cacheLock, building, broken>>

(* _atomic_json *)
WriteManifest(b) ==
    /\ at[b] = "manifest"
    /\ \/ manifest' = b /\ MovesOn(b, "release")
       \/ MovesOn(b, "failing") /\ UNCHANGED manifest
    /\ UNCHANGED <<remote, archive, jsonl, cacheLock, building, broken>>

ReleaseCacheLock(b) ==
    /\ at[b] = "release"
    /\ GiveBack(b)
    /\ MovesOn(b, "validate")
    /\ UNCHANGED <<remote, cacheFiles, building, broken>>

(* An exception leaves the with block first, and then its handler removes    *)
(* the manifest that is there.                                               *)
LeaveLock(b) ==
    /\ at[b] = "failing"
    /\ GiveBack(b)
    /\ MovesOn(b, "cleanup")
    /\ UNCHANGED <<remote, cacheFiles, building, broken>>

CleanUp(b) ==
    /\ at[b] = "cleanup"
    /\ manifest' = NoBuilder
    /\ Ends(b, "error")
    /\ UNCHANGED <<remote, archive, jsonl, cacheLock, building, broken>>

(* validate_cache_pair, which the build script calls last. *)
ValidPair == manifest # NoBuilder /\ manifest = jsonl

ValidatePair(b) ==
    /\ at[b] = "validate"
    /\ Ends(b, IF ValidPair THEN "done" ELSE "invalid")
    /\ UNCHANGED <<remote, cacheFiles, cacheLock, building, broken>>

-----------------------------------------------------------------------------
BuilderDies(b) ==
    /\ at[b] \notin {"ended", "dead"}
    /\ MovesOn(b, "dead")
    /\ UNCHANGED <<remote, cacheFiles, cacheLock, building, broken>>

CacheLockAges ==
    /\ lockOwner # NoBuilder /\ ~lockOld
    /\ lockOld' = TRUE
    /\ UNCHANGED <<remote, cacheFiles, lockOwner, at, building, outcome, broken>>

(* The exchange publishes the archive of the period again. *)
Republish ==
    /\ remote.version < Versions
    /\ \E parses \in BOOLEAN :
         remote' = [version |-> remote.version + 1, parses |-> parses]
    /\ UNCHANGED <<cacheFiles, cacheLock, at, building, outcome, broken>>

BuilderStep(b) ==
    \/ CheckArchive(b) \/ FetchArchive(b) \/ VerifyArchive(b) \/ ParseArchive(b)
    \/ TakeLock(b) \/ MeetLock(b) \/ BreakLock(b)
    \/ UnlinkManifest(b) \/ ReplaceRows(b) \/ WriteManifest(b) \/ ReleaseCacheLock(b)
    \/ LeaveLock(b) \/ CleanUp(b) \/ ValidatePair(b)

CacheNext ==
    \/ \E b \in Builders : BuilderStep(b) \/ BuilderDies(b)
    \/ CacheLockAges \/ Republish

CacheSpec == CacheInit /\ [][CacheNext]_cacheVars

-----------------------------------------------------------------------------
(* A manifest on disk describes the rows on disk, and they were parsed from  *)
(* bytes that the exchange published: builders that die or fail at any step, *)
(* and one that takes over the lock of a dead one, leave no mixed pair and   *)
(* no unverified archive.  Only a lock taken from a builder that is still    *)
(* inside, slower than stale_seconds, or faster than another one's unlink,   *)
(* can mix two publications, and then the reader's hash check refuses them.  *)
PublishedPairIsSound ==
    /\ CacheTypeOK
    /\ manifest # NoBuilder /\ ~broken => manifest = jsonl
    /\ archive # NoArchive => archive.intact
    /\ jsonl # NoBuilder /\ parsed[jsonl] # NoArchive => parsed[jsonl].intact
=============================================================================
