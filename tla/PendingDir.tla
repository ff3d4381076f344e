----------------------------- MODULE PendingDir -----------------------------
(***************************************************************************)
(* What the updater promises of its pending directory, to whoever reads it *)
(* without the mutex: an installer arrives whole and with the content that *)
(* was published, a manifest is written only for the installer that lies   *)
(* there, and either file may go away.  Updater.tla implements DirSpec;    *)
(* PendingView.tla is what the plugin reads of it.                         *)
(*                                                                         *)
(* Versions are numbers in semver order, and a file is the version it is   *)
(* of.                                                                     *)
(***************************************************************************)
EXTENDS Integers

CONSTANT MaxVersion  \* bound: versions published

ASSUME PendingDirAssumption == MaxVersion \in Nat \ {0}

VARIABLES setup, manifest

dir_vars == <<setup, manifest>>

NoVersion == 0     \* no file, nothing installed, known or published
Versions == 1..MaxVersion

\* What verify_pending finds while nobody writes: the version of an installer
\* that is the one its manifest names.
verify_pending == IF setup = manifest THEN manifest ELSE NoVersion

DirInit == setup = NoVersion /\ manifest = NoVersion

PutSetup(v) == setup' = v /\ UNCHANGED manifest

PutManifest == setup # NoVersion /\ manifest' = setup /\ UNCHANGED setup

RemoveSetup == setup' = NoVersion /\ UNCHANGED manifest
RemoveManifest == manifest' = NoVersion /\ UNCHANGED setup

DirNext == (\E v \in Versions : PutSetup(v)) \/ PutManifest \/ RemoveSetup \/ RemoveManifest

DirSpec == DirInit /\ [][DirNext]_dir_vars
=============================================================================
