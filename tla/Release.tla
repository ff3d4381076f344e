------------------------------- MODULE Release -------------------------------
(***************************************************************************)
(* cargo xtask package (xtask, package.rs and publish.rs): it builds the   *)
(* plug-in and the updater, has Inno Setup pack them, writes the feed and  *)
(* its signature, and uploads the three files.  Any step may fail, and the *)
(* next command starts from what the last one left.                        *)
(*                                                                         *)
(* What a file holds is named by the source it was built from; a hash and  *)
(* a signature are named by what they are of.                              *)
(***************************************************************************)
EXTENDS Integers

CONSTANTS MaxEdits, MaxReleases     \* bounds: changes of the source, and commands

ASSUME ReleaseAssumption == MaxEdits \in Nat

VARIABLES
    source,     \* the source: [version, edit]
    built,      \* target/: the bundle and the updater, each the source it is of, or Missing
    rel_out,    \* packaging/out: setup (per version), json and sig, or Missing
    server,     \* the repository: the same
    rel_cmd,    \* the command: at which step, and its switches
    redone,     \* ghost: the setup that the feed on the server names was put again
    rel_runs

release_vars == <<source, built, rel_out, server, rel_cmd, redone, rel_runs>>

Missing == [is |-> "none"]
Source(t) == [is |-> "build", version |-> t.version, edit |-> t.edit]
Releases == 1..(MaxEdits + 1)

\* A setup is packed from both; the feed names a version and a setup's hash.
Setup(bundle, updater) == [is |-> "setup", bundle |-> bundle, updater |-> updater]
Feed(version, setup) == [is |-> "feed", version |-> version, sha256 |-> setup]
Sign(feed) == [is |-> "sig", of |-> feed]

NothingOut == [setup |-> [v \in Releases |-> Missing], json |-> Missing, sig |-> Missing]
NoRelease == [at |-> "idle", no_build |-> FALSE, upload |-> FALSE, result |-> "none"]

-----------------------------------------------------------------------------
ReleaseInit ==
    /\ source = [version |-> 1, edit |-> 1]
    /\ built = [bundle |-> Missing, updater |-> Missing]
    /\ rel_out = NothingOut /\ server = NothingOut
    /\ rel_cmd = NoRelease /\ redone = FALSE /\ rel_runs = 0

Goes(at) == rel_cmd' = [rel_cmd EXCEPT !.at = at]
ReleaseEnds(result) == rel_cmd' = [rel_cmd EXCEPT !.at = "idle", !.result = result]
Fails == ReleaseEnds("error") /\ UNCHANGED <<source, built, rel_out, server, redone, rel_runs>>

\* A developer changes the source, and may raise the version.
EditSource ==
    /\ rel_cmd.at = "idle" /\ source.edit <= MaxEdits
    /\ \E v \in {source.version, source.version + 1} : source' = [version |-> v, edit |-> source.edit + 1]
    /\ UNCHANGED <<built, rel_out, server, rel_cmd, redone, rel_runs>>

package ==
    /\ rel_cmd.at = "idle" /\ rel_runs < MaxReleases /\ rel_runs' = rel_runs + 1
    /\ \E skip, up \in BOOLEAN :
            rel_cmd' = [at |-> IF skip THEN "check" ELSE "bundle", no_build |-> skip,
                    upload |-> up, result |-> "none"]
    /\ UNCHANGED <<source, built, rel_out, server, redone>>

BuildBundle ==
    /\ rel_cmd.at = "bundle"
    /\ \/ built' = [built EXCEPT !.bundle = Source(source)] /\ Goes("updater")
          /\ UNCHANGED <<source, rel_out, server, redone, rel_runs>>
       \/ Fails

BuildUpdater ==
    /\ rel_cmd.at = "updater"
    /\ \/ built' = [built EXCEPT !.updater = Source(source)] /\ Goes("check")
          /\ UNCHANGED <<source, rel_out, server, redone, rel_runs>>
       \/ Fails

\* Only that the files are there is looked at.
FindBuilt ==
    /\ rel_cmd.at = "check"
    /\ IF Missing \in {built.bundle, built.updater} THEN Fails
       ELSE Goes("iscc") /\ UNCHANGED <<source, built, rel_out, server, redone, rel_runs>>

\* ISCC replaces the setup of this version, or fails or is not found.  That
\* none of this version is where it is looked for ends the command without an
\* error.  (An older one there would be taken for it: the script's OutputDir and
\* OutputBaseFilename, which name that very file, keep ISCC from writing another.)
Pack ==
    /\ rel_cmd.at = "iscc"
    /\ \/ /\ rel_out' = [rel_out EXCEPT !.setup[source.version] = Setup(built.bundle, built.updater)]
          /\ Goes("json") /\ UNCHANGED <<source, built, server, redone, rel_runs>>
       \/ /\ rel_out.setup[source.version] = Missing /\ ReleaseEnds("elsewhere")
          /\ UNCHANGED <<source, built, rel_out, server, redone, rel_runs>>
       \/ Fails

\* The signing key is read before either file is written.
WriteJson ==
    /\ rel_cmd.at = "json"
    /\ \/ /\ rel_out' = [rel_out EXCEPT !.json = Feed(source.version, rel_out.setup[source.version])]
          /\ Goes("sig") /\ UNCHANGED <<source, built, server, redone, rel_runs>>
       \/ Fails

WriteSig ==
    /\ rel_cmd.at = "sig"
    /\ \/ /\ rel_out' = [rel_out EXCEPT !.sig = Sign(rel_out.json)]
          /\ IF rel_cmd.upload THEN Goes("put setup") ELSE ReleaseEnds("ok")
          /\ UNCHANGED <<source, built, server, redone, rel_runs>>
       \/ Fails

Names(feed, version) == feed # Missing /\ feed.version = version

\* publish::upload: each file is read when its turn comes; of a file that has
\* arrived the answer may be lost.
put(step, what, next) ==
    /\ rel_cmd.at = step
    /\ \/ /\ server' = what /\ (next \/ ReleaseEnds("error"))
          /\ redone' = CASE step = "put setup" -> redone \/ Names(server.json, source.version)
                         [] step = "put json" -> FALSE
                         [] OTHER -> redone
          /\ UNCHANGED <<source, built, rel_out, rel_runs>>
       \/ Fails

upload ==
    \/ put("put setup", [server EXCEPT !.setup[source.version] = rel_out.setup[source.version]], Goes("put sig"))
    \/ put("put sig", [server EXCEPT !.sig = rel_out.sig], Goes("put json"))
    \/ put("put json", [server EXCEPT !.json = rel_out.json], ReleaseEnds("ok"))

ReleaseNext ==
    \/ EditSource \/ package \/ BuildBundle \/ BuildUpdater \/ FindBuilt
    \/ Pack \/ WriteJson \/ WriteSig \/ upload

ReleaseSpec == ReleaseInit /\ [][ReleaseNext]_release_vars

-----------------------------------------------------------------------------
Installable(s) == s.json # Missing /\ s.sig = Sign(s.json)
Intact(s) == s.setup[s.json.version] = s.json.sha256

(***************************************************************************)
(* An upload that reports success has left a feed that is signed, names    *)
(* the version, and whose hash is that of the setup beside it, whatever    *)
(* earlier commands failed at; and the setup holds the plug-in and the     *)
(* updater of that version, of one source, unless --no-build was given.    *)
(***************************************************************************)
UploadedWhole ==
    rel_cmd.at = "idle" /\ rel_cmd.result = "ok" /\ rel_cmd.upload =>
        /\ Installable(server) /\ Intact(server)
        /\ ~rel_cmd.no_build => LET s == server.json.sha256 IN
                /\ s.bundle = s.updater
                /\ s.bundle.version = server.json.version

(***************************************************************************)
(* What users can see while an upload is under way, or after it has failed: *)
(* a feed whose signature holds names a setup that is there and has the    *)
(* hash, so that a check that has passed leads to an installer. Packaging  *)
(* the published version again is the one exception, for its setup is      *)
(* replaced before its feed.                                               *)
(***************************************************************************)
FeedNamesItsSetup == Installable(server) => Intact(server) \/ redone
=============================================================================
