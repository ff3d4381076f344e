---------------------------- MODULE PendingView ----------------------------
(***************************************************************************)
(* The plugin looks at the pending directory while the updater works in it *)
(* (crates/deviceout-update/src/pending.rs, pending_ready).  It does not   *)
(* take the updater's mutex; it hashes the installer only when the lengths *)
(* and times of the two files, here a stamp for each, are not those it     *)
(* remembers.  The directory changes as PendingDir.tla says.               *)
(***************************************************************************)
EXTENDS PendingDir

VARIABLES
    setup_stamp, manifest_stamp,  \* the files' metadata, NoStamp when there is no file
    reader,                       \* the call of pending_ready under way
    cache                         \* READY

NoStamp == 0
Stamps == 1..4   \* the file's, the reader's, the cache's, and one to spare

stamp_vars == <<setup_stamp, manifest_stamp>>
view_vars == <<dir_vars, stamp_vars, reader, cache>>

Idle == [pc |-> "idle", setup |-> NoStamp, manifest |-> NoStamp, found |-> NoVersion]

ViewInit ==
    /\ DirInit
    /\ setup_stamp = NoStamp /\ manifest_stamp = NoStamp
    /\ reader = Idle
    /\ cache = [setup |-> NoStamp, manifest |-> NoStamp, ready |-> NoVersion]

\* A written file has a stamp that neither the old one nor anything remembered has.
Unused(inUse) == CHOOSE n \in Stamps : n \notin inUse

WriteSetup ==
    /\ \E v \in Versions : PutSetup(v)
    /\ setup_stamp' = Unused({setup_stamp, reader.setup, cache.setup})
    /\ UNCHANGED manifest_stamp

WriteManifest ==
    /\ PutManifest
    /\ manifest_stamp' = Unused({manifest_stamp, reader.manifest, cache.manifest})
    /\ UNCHANGED setup_stamp

RemoveFile ==
    \/ RemoveSetup /\ setup_stamp' = NoStamp /\ UNCHANGED manifest_stamp
    \/ RemoveManifest /\ manifest_stamp' = NoStamp /\ UNCHANGED setup_stamp

Write == (WriteSetup \/ WriteManifest \/ RemoveFile) /\ UNCHANGED <<reader, cache>>

-----------------------------------------------------------------------------
(* pending_ready: the stamps, the lookup, verify_pending, READY *)

ReadSetupStamp ==
    /\ reader.pc = "idle" /\ setup # NoVersion
    /\ reader' = [reader EXCEPT !.pc = "stamp", !.setup = setup_stamp]
    /\ UNCHANGED cache

ReadManifestStamp ==
    /\ reader.pc = "stamp"
    /\ LET hit == cache.setup = reader.setup /\ cache.manifest = manifest_stamp
       IN  reader' = IF manifest = NoVersion \/ hit THEN Idle
                     ELSE [reader EXCEPT !.pc = "manifest", !.manifest = manifest_stamp]
    /\ UNCHANGED cache

read_manifest ==
    /\ reader.pc = "manifest"
    /\ reader' = [reader EXCEPT !.pc = "hash", !.found = manifest]
    /\ UNCHANGED cache

HashSetup ==
    /\ reader.pc = "hash"
    /\ reader' = [reader EXCEPT !.pc = "store", !.found = IF setup = @ THEN @ ELSE NoVersion]
    /\ UNCHANGED cache

StoreReadyNow ==               \* a slip: the stamps are read when the verdict is stored
    /\ reader.pc = "store"
    /\ cache' = [setup |-> setup_stamp, manifest |-> manifest_stamp, ready |-> reader.found]
    /\ reader' = Idle

StoreReady ==
    /\ reader.pc = "store"
    /\ cache' = [setup |-> reader.setup, manifest |-> reader.manifest, ready |-> reader.found]
    /\ reader' = Idle

ReaderStep ==
    /\ ReadSetupStamp \/ ReadManifestStamp \/ read_manifest \/ HashSetup \/ StoreReady
    /\ UNCHANGED <<dir_vars, stamp_vars>>

ViewNext == Write \/ ReaderStep

ViewSpec == ViewInit /\ [][ViewNext]_view_vars

-----------------------------------------------------------------------------
(* Properties *)

\* Every variable has its type.
ViewTypeOK ==
    /\ setup_stamp \in {NoStamp} \cup Stamps /\ (setup_stamp = NoStamp <=> setup = NoVersion)
    /\ manifest_stamp \in {NoStamp} \cup Stamps /\ (manifest_stamp = NoStamp <=> manifest = NoVersion)
    /\ reader.found \in 0..MaxVersion /\ cache.ready \in 0..MaxVersion

\* What the plugin remembers of the pending directory is right whenever it
\* would be used, when its stamps are those of the files: it does not offer an
\* installer that is half replaced, nor hide one that is there, for good.
CacheHonest ==
    /\ setup # NoVersion /\ manifest # NoVersion
    /\ cache.setup = setup_stamp /\ cache.manifest = manifest_stamp
    => cache.ready = verify_pending
=============================================================================
