----------------------------- MODULE AutoUpdate -----------------------------
(***************************************************************************)
(* How a node replaces itself by a newer version: otnodeUpdateCommand and  *)
(* the auto-updater (modules/auto-updater).                                *)
(*                                                                         *)
(* Beside the directories of the versions there is the link "current",     *)
(* which the service manager starts the node from.  An update downloads an *)
(* archive, unpacks and installs it in a directory of its own, moves the   *)
(* link and ends the process.  The process may die between any two steps.  *)
(* Releases of the branch only get newer, also while an update runs.       *)
(***************************************************************************)
EXTENDS Naturals

CONSTANTS Newest, MaxUpdFaults      \* bounds: versions 1..Newest; failures

ASSUME UpdAssumption == Newest \in Nat \ {0} /\ MaxUpdFaults \in Nat

Versions == 1..Newest

VARIABLES
    remote,         \* version of the branch in the repository
    directory,      \* by name: what is in it, 0 if it does not exist: a record
                    \* of the version of the code and how far it is installed
    link,           \* the directory "current" points to, 0 if there is none
    archive,        \* the downloaded zip file, by the name it will get
    extracted,      \* TmpExtractionPath: versions unpacked into it
    runsFrom,       \* the directory of the running process, 0 if none runs
    updateAt,
    newVersion,     \* what update() read
    updFaults

updDisk == <<directory, link, archive, extracted>>
updVars == <<remote, updDisk, runsFrom, updateAt, newVersion, updFaults>>

Nothing == [version |-> 0, state |-> "none"]
Holds(v, s) == [version |-> v, state |-> s]
States == {"none", "unpacked", "configured", "installed", "broken"}

UpdInit ==
    /\ remote = 1
    /\ directory = [d \in Versions |-> IF d = 1 THEN Holds(1, "installed") ELSE Nothing]
    /\ link = 1 /\ archive = [d \in Versions |-> 0] /\ extracted = {}
    /\ runsFrom = 0 /\ updateAt = "idle" /\ newVersion = 0 /\ updFaults = 0

UpdFault == updFaults < MaxUpdFaults /\ updFaults' = updFaults + 1
CurrentVersion == directory[runsFrom].version   \* readAppVersion

(* An error is caught, and the command repeats. *)
UpdateFails ==
    /\ runsFrom # 0 /\ updateAt # "idle"
    /\ UpdFault /\ updateAt' = "idle"
    /\ UNCHANGED <<remote, updDisk, runsFrom, newVersion>>

Release ==
    /\ remote < Newest
    /\ remote' = remote + 1
    /\ UNCHANGED <<updDisk, runsFrom, updateAt, newVersion, updFaults>>

(* The service manager; code without its dependencies does not start. *)
NodeStarts ==
    /\ runsFrom = 0 /\ link # 0
    /\ directory[link].state = "installed"
    /\ runsFrom' = link /\ updateAt' = "idle"
    /\ UNCHANGED <<remote, updDisk, newVersion, updFaults>>

ProcessDies ==
    /\ runsFrom # 0
    /\ UpdFault /\ runsFrom' = 0 /\ updateAt' = "idle"
    /\ UNCHANGED <<remote, updDisk, newVersion>>

-----------------------------------------------------------------------------
(* At startup and then every 15 minutes.  A version that could not be read is
   no version, and comparing it raises an error. *)
CompareVersions ==
    /\ runsFrom # 0 /\ updateAt = "idle"
    /\ remote # CurrentVersion
    /\ ~(remote < CurrentVersion)
    /\ updateAt' = "read"
    /\ UNCHANGED <<remote, updDisk, runsFrom, newVersion, updFaults>>

(* update() reads the version of the branch once more. *)
ReadRemoteVersion ==
    /\ runsFrom # 0 /\ updateAt = "read"
    /\ newVersion' = remote /\ updateAt' = "download"
    /\ UNCHANGED <<remote, updDisk, runsFrom, updFaults>>

(* The archive of the branch: what it holds by now.  A stream that breaks off
   settles nothing: the command stays here, with what came so far on disk. *)
DownloadUpdate ==
    /\ runsFrom # 0 /\ updateAt = "download"
    /\ \/ /\ archive' = [archive EXCEPT ![newVersion] = remote]
          /\ updateAt' = "unzip" /\ UNCHANGED updFaults
       \/ UpdFault /\ updateAt' = "stalled" /\ UNCHANGED archive
    /\ UNCHANGED <<remote, directory, link, extracted, runsFrom, newVersion>>

(* All archives of a branch unpack to one folder, over what is there. *)
UnzipFile ==
    /\ runsFrom # 0 /\ updateAt = "unzip"
    /\ extracted' = extracted \cup {archive[newVersion]}
    /\ archive' = [archive EXCEPT ![newVersion] = 0]
    /\ updateAt' = "move"
    /\ UNCHANGED <<remote, directory, link, runsFrom, newVersion, updFaults>>

Destination == newVersion

(* Mutant: the link is moved before the version is installed. *)
AfterMove_Link == "unlink"

AfterMove == "copy"

(* What an interrupted update left is replaced.  The version is the one of
   package.json, which the newest archive overwrote. *)
MoveAndCleanExtractedData ==
    /\ runsFrom # 0 /\ updateAt = "move"
    /\ directory' = [directory EXCEPT ![Destination] =
           Holds(CHOOSE v \in extracted : \A w \in extracted : w <= v, "unpacked")]
    /\ extracted' = {} /\ updateAt' = AfterMove
    /\ UNCHANGED <<remote, link, archive, runsFrom, newVersion, updFaults>>

CopyConfigFiles ==
    /\ runsFrom # 0 /\ updateAt = "copy"
    /\ directory' = [directory EXCEPT ![newVersion].state = "configured"]
    /\ updateAt' = "install"
    /\ UNCHANGED <<remote, link, archive, extracted, runsFrom, newVersion, updFaults>>

(* npm has ended; an exit code or a message without "ERROR" in it goes unseen. *)
InstallDependencies ==
    /\ runsFrom # 0 /\ updateAt = "install"
    /\ \/ directory' = [directory EXCEPT ![newVersion].state = "installed"]
          /\ UNCHANGED updFaults
       \/ UpdFault /\ directory' = [directory EXCEPT ![newVersion].state = "broken"]
    /\ updateAt' = "unlink"
    /\ UNCHANGED <<remote, link, archive, extracted, runsFrom, newVersion>>

(* The link is removed and made again, which is two steps. *)
RemoveSymlink ==
    /\ runsFrom # 0 /\ updateAt = "unlink"
    /\ link' = 0 /\ updateAt' = "link"
    /\ UNCHANGED <<remote, directory, archive, extracted, runsFrom, newVersion,
                   updFaults>>

EnsureSymlink ==
    /\ runsFrom # 0 /\ updateAt = "link"
    /\ link' = newVersion /\ updateAt' = "clean"
    /\ UNCHANGED <<remote, directory, archive, extracted, runsFrom, newVersion,
                   updFaults>>

(* By name: neither the new version nor the one package.json says is running. *)
RemoveOldVersions ==
    /\ runsFrom # 0 /\ updateAt = "clean"
    /\ directory' = [d \in Versions |->
           IF d \in {newVersion, CurrentVersion} THEN directory[d] ELSE Nothing]
    /\ updateAt' = "exit"
    /\ UNCHANGED <<remote, link, archive, extracted, runsFrom, newVersion, updFaults>>

(* The file UPDATED is written, and process.exit; if it cannot be written the
   node goes on and updates again (UpdateFails). *)
NodeWillRestart ==
    /\ runsFrom # 0 /\ updateAt = "exit"
    /\ runsFrom' = 0 /\ updateAt' = "idle"
    /\ UNCHANGED <<remote, updDisk, newVersion, updFaults>>

UpdNext ==
    \/ Release \/ NodeStarts \/ ProcessDies \/ UpdateFails
    \/ CompareVersions \/ ReadRemoteVersion \/ DownloadUpdate \/ UnzipFile
    \/ MoveAndCleanExtractedData \/ CopyConfigFiles \/ InstallDependencies
    \/ RemoveSymlink \/ EnsureSymlink \/ RemoveOldVersions \/ NodeWillRestart

UpdSpec == UpdInit /\ [][UpdNext]_updVars

-----------------------------------------------------------------------------
UpdTypeOK ==
    /\ remote \in Versions /\ link \in 0..Newest /\ runsFrom \in 0..Newest
    /\ directory \in [Versions -> [version : 0..Newest, state : States]]
    /\ archive \in [Versions -> 0..Newest] /\ extracted \subseteq Versions
    /\ newVersion \in 0..Newest /\ updFaults \in 0..MaxUpdFaults
    /\ updateAt \in {"idle", "read", "download", "stalled", "unzip", "move", "copy",
                     "install", "unlink", "link", "clean", "exit"}

(* Until the link is moved an update touches nothing of the version that runs,
   so an update that fails or dies before can be started over: whatever was
   released meanwhile and whatever earlier updates left behind. *)
RunningVersionStays ==
    (runsFrom # 0 /\ link = runsFrom) => directory[link].state = "installed"

(* The link is only ever set to a directory that went through all steps of an
   update: its code is there, with the configuration, and npm has ended. *)
LinkedWasInstalled ==
    [][(link' # link /\ link' # 0)
        => directory[link'].state \in {"installed", "broken"}]_updVars

(* No update goes back: the code that "current" points at is never older than
   the code of the process that set it. *)
NeverOlder ==
    [][(link' # link /\ link' # 0)
        => directory[link'].version > directory[runsFrom].version]_updVars

(* Between its removal and its making there is no link (ot-auto-updater.js,
   lines 70-72), and a node without one is not started again: it takes a
   failure or a death of the process right there, in no other step is the link
   let go. *)
LinkMissing == link = 0 => updateAt = "link" \/ updFaults > 0

(* A running version that the link points at is whole, whatever updates failed
   or died before; the link is made only to a directory that went through all
   steps and holds newer code, though an npm that failed unnoticed may have
   left it so that it does not start; and the link is gone only where a failure
   fell between the removal and the making. *)
UpdateKept == []RunningVersionStays /\ []LinkMissing /\ LinkedWasInstalled /\ NeverOlder
=============================================================================
