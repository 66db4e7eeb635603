---------------------------- MODULE StoredFiles ----------------------------
(* How the desktop writes its files.  Those of connections.ts, devices.ts,  *)
(* trusted.ts and credentials.ts are written in a queue, one write behind   *)
(* the other; the settings of settings.ts are not.                          *)
EXTENDS Naturals, FiniteSets

(***************************************************************************)
(* A queued file: each write goes into a temporary file that is then       *)
(* renamed, with the data as it is when its turn comes.  A write may fail, *)
(* and the program may be killed, between any two steps.                   *)
(***************************************************************************)
CONSTANTS
    MaxVersion,     \* bound: changes to the data
    MaxQueue        \* bound: writes waiting

ASSUME FileAssumption == MaxVersion \in Nat /\ MaxQueue \in Nat \ {0}

VARIABLES
    data,       \* the version in memory
    queued,     \* writes that wait behind the one under way
    writer,     \* the one under way: "none", "turn", "open", "whole"
    text,       \* what it wrote, or is writing
    tmp, file,  \* what the two files hold
    failed      \* history: the last write to end failed

fileVars == <<data, queued, writer, text, tmp, file, failed>>

Half == MaxVersion + 1  \* the beginning of some version
-----------------------------------------------------------------------------
FileInit ==
    /\ data = 0 /\ queued = 0 /\ writer = "none" /\ text = 0
    /\ tmp = Half /\ file = 0 /\ failed = FALSE

(* Mutant: while one write is under way no other is asked for.             *)
PersistUnlessBusy ==
    /\ queued' = queued
    /\ writer' = IF writer = "none" THEN "turn" ELSE writer
(* persist().                                                              *)
Persist ==
    /\ queued < MaxQueue
    /\ IF writer = "none" THEN writer' = "turn" /\ UNCHANGED queued
       ELSE queued' = queued + 1 /\ UNCHANGED writer

(* A change, and the write it calls for.                                   *)
Changes ==
    /\ data < MaxVersion /\ data' = data + 1
    /\ Persist
    /\ UNCHANGED <<text, tmp, file, failed>>

(* writeFile empties the temporary file,                                   *)
Opens ==
    /\ writer = "turn" /\ writer' = "open"
    /\ text' = data /\ tmp' = Half
    /\ UNCHANGED <<data, queued, file, failed>>
(* and fills it.                                                           *)
Fills ==
    /\ writer = "open" /\ writer' = "whole"
    /\ tmp' = text
    /\ UNCHANGED <<data, queued, text, file, failed>>

Following == IF queued = 0 THEN writer' = "none" /\ UNCHANGED queued
             ELSE writer' = "turn" /\ queued' = queued - 1

(* Mutant: straight into the file, as it is being written.                 *)
RenamesEarly ==
    /\ writer \in {"open", "whole"}
    /\ file' = tmp /\ failed' = FALSE
    /\ Following
    /\ UNCHANGED <<data, text, tmp>>
Renames ==
    /\ writer = "whole"
    /\ file' = tmp /\ failed' = FALSE
    /\ Following
    /\ UNCHANGED <<data, text, tmp>>

(* A failed write blocks none of the later ones.                           *)
WriteFails ==
    /\ writer # "none"
    /\ failed' = TRUE
    /\ Following
    /\ UNCHANGED <<data, text, tmp, file>>

(* Killed, and load() at the next start.                                   *)
StartsAgain ==
    /\ data' = file /\ queued' = 0 /\ writer' = "none" /\ failed' = FALSE
    /\ UNCHANGED <<text, tmp, file>>

FileNext == Changes \/ Opens \/ Fills \/ Renames \/ WriteFails \/ StartsAgain
FileSpec == FileInit /\ [][FileNext]_fileVars
-----------------------------------------------------------------------------
(* A file that is never half of anything, and never goes back: the promise *)
(* of Durable (persist of the four stores).                                *)
File == INSTANCE Durable WITH memory <- data, disk <- file
FileIsDurable == File!Spec

(* When nothing is under way and the last write went well, the file holds  *)
(* all that was changed: no change counts on a write that had already      *)
(* taken its copy (connections.ts:178: the last one queued always wins).   *)
QuietMeansSaved == writer = "none" /\ ~failed => file = data

(***************************************************************************)
(* SettingsStore: each update changes the settings in memory, then makes   *)
(* the directory, writes one temporary file, whichever update it is, and   *)
(* renames it.  Updates are not queued, so the steps of two overlap; a     *)
(* write may fail; the program may be killed between any two steps.        *)
(***************************************************************************)
CONSTANTS
    Updating,       \* updates that may be under way at once
    Choice,         \* what else than remote access is set, with its default
    DefaultChoice,
    MaxUpdates      \* bound: updates

ASSUME SettingsAssumption == DefaultChoice \in Choice /\ MaxUpdates \in Nat

VARIABLES
    settings,       \* in memory
    stage,          \* of each update: "none", "mkdir", "open", "write" or "rename"
    written,        \* the text it writes
    inode,          \* the file it has open
    content,        \* of each inode
    atFile, atTmp,  \* the inodes that settings.json and its .tmp are; NoInode
    confirmed,      \* history: the settings of the last update that resolved
    overlapped,     \* history: an update began while another was under way
    updates

disk == <<content, atFile, atTmp>>
settingsVars == <<settings, stage, written, inode, disk, confirmed, overlapped, updates>>

Torn == [json |-> FALSE]     \* not the JSON of any settings
NoInode == 0
Settings == [enabled : BOOLEAN, choice : Choice]
DEFAULT_SETTINGS == [enabled |-> FALSE, choice |-> DefaultChoice]
UnderWay == {u \in Updating : stage[u] # "none"}
Free == CHOOSE i \in 1 .. MaxUpdates + 1 :
            i \notin {atFile, atTmp} /\ \A u \in UnderWay : stage[u] \in {"write", "rename"} => inode[u] # i
-----------------------------------------------------------------------------
SettingsInit ==
    /\ settings = DEFAULT_SETTINGS /\ stage = [u \in Updating |-> "none"]
    /\ written = [u \in Updating |-> DEFAULT_SETTINGS] /\ inode = [u \in Updating |-> NoInode]
    /\ content = [i \in 1 .. MaxUpdates + 1 |-> Torn] /\ atFile = NoInode /\ atTmp = NoInode
    /\ confirmed = DEFAULT_SETTINGS /\ overlapped = FALSE /\ updates = 0

Goes(u, next) == stage' = [stage EXCEPT ![u] = next]

(* update(): merged into what is in memory, at once.                       *)
UpdateSettings(u, merged) ==
    /\ stage[u] = "none" /\ Goes(u, "mkdir") /\ updates < MaxUpdates /\ updates' = updates + 1
    /\ settings' = merged /\ overlapped' = (overlapped \/ UnderWay # {})
    /\ UNCHANGED <<written, inode, disk, confirmed>>
(* The directory is there: the text is what is in memory by now.           *)
Stringifies(u) ==
    /\ stage[u] = "mkdir" /\ Goes(u, "open") /\ written' = [written EXCEPT ![u] = settings]
    /\ UNCHANGED <<settings, inode, disk, confirmed, overlapped, updates>>

(* Mutant: no temporary file.                                              *)
OpensFile(u) ==
    LET i == IF atFile = NoInode THEN Free ELSE atFile
    IN inode' = [inode EXCEPT ![u] = i] /\ atFile' = i /\ atTmp' = i /\ content' = [content EXCEPT ![i] = Torn]
(* writeFile() opens the temporary file, made or emptied,                  *)
OpensTmp(u) ==
    LET i == IF atTmp = NoInode THEN Free ELSE atTmp
    IN inode' = [inode EXCEPT ![u] = i] /\ atTmp' = i /\ content' = [content EXCEPT ![i] = Torn] /\ UNCHANGED atFile
OpensSettings(u) ==
    /\ stage[u] = "open" /\ Goes(u, "write") /\ OpensTmp(u)
    /\ UNCHANGED <<settings, written, confirmed, overlapped, updates>>
(* and fills it from the beginning; a longer text another update has put   *)
(* there meanwhile keeps its end.                                          *)
FillsSettings(u) ==
    /\ stage[u] = "write" /\ Goes(u, "rename")
    /\ \E now \in {written[u]} \cup (IF content[inode[u]] \in {Torn, written[u]} THEN {} ELSE {Torn}) :
          content' = [content EXCEPT ![inode[u]] = now]
    /\ UNCHANGED <<settings, written, inode, atFile, atTmp, confirmed, overlapped, updates>>
(* A step fails: the change stays in memory.                               *)
SettingsWriteFails(u) ==
    /\ stage[u] # "none" /\ Goes(u, "none")
    /\ UNCHANGED <<settings, written, inode, disk, confirmed, overlapped, updates>>
(* rename(): there is no file once another update has renamed it.          *)
RenamesSettings(u) ==
    /\ stage[u] = "rename" /\ Goes(u, "none")
    /\ IF atTmp = NoInode THEN UNCHANGED <<atFile, atTmp, confirmed>>
       ELSE atFile' = atTmp /\ atTmp' = NoInode /\ confirmed' = written[u]
    /\ UNCHANGED <<settings, written, inode, content, overlapped, updates>>

(* load(): anything but settings gives the defaults.                       *)
Sanitized(raw) == IF raw = Torn THEN DEFAULT_SETTINGS ELSE raw
Loaded == Sanitized(IF atFile = NoInode THEN Torn ELSE content[atFile])
SettingsRestart ==
    /\ settings' = Loaded /\ stage' = [u \in Updating |-> "none"]
    /\ UNCHANGED <<written, inode, disk, confirmed, overlapped, updates>>

SettingsNext ==
    \/ SettingsRestart
    \/ \E u \in Updating :
        \/ Stringifies(u) \/ OpensSettings(u) \/ FillsSettings(u) \/ SettingsWriteFails(u) \/ RenamesSettings(u)
        \/ \E merged \in Settings : UpdateSettings(u, merged)
-----------------------------------------------------------------------------
(* The next start finds the settings of the last update that said it had   *)
(* saved them (settings.ts:160-162), however it and later ones fared, but  *)
(* for updates that overlapped.                                            *)
ConfirmedIsSaved == overlapped \/ Loaded = confirmed

(* Without the exception it does not hold: of two updates that overlap one *)
(* renames what the other is still filling, and the other finds no file.   *)
SettledIsSaved == UnderWay = {} => Loaded = confirmed
=============================================================================
