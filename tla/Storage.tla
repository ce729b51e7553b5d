------------------------------- MODULE Storage -------------------------------
(***************************************************************************)
(* The JSON files that outlive the program: NvmStore of nvm.rs, one file   *)
(* per plant model, and save_json_atomic / load_json_or_default of         *)
(* config.rs, the calibrations.                                            *)
(*                                                                         *)
(* A save writes a file of its own, syncs it and renames it over the old   *)
(* one.  Each step is an action: the power may go between any two, and two *)
(* connections may save one calibration at the same time; they then share  *)
(* the temporary file.  What a file holds is one value, or Torn: empty, or *)
(* partly written, so that it does not parse.                              *)
(***************************************************************************)
EXTENDS Integers, SequencesExt, FiniteSetsExt

CONSTANTS
    NvmFiles,    \* the files of NvmStore
    ConfigFiles, \* the files of PlatformConfig
    Savers,      \* the tasks that save
    None,        \* no value, no file
    Torn         \* contents that do not parse

VARIABLES
    disk,    \* per file: what its name and its temporary name stand for, and what a
             \* rename that is not on the disk yet has replaced
    saves,   \* per saver: the save it is in
    crossed  \* history: the files that two saved at the same time

storageVars == <<disk, saves, crossed>>

Files == NvmFiles \cup ConfigFiles

ASSUME StorageAssumption == NvmFiles \cap ConfigFiles = {} /\ None # Torn

Inode(v, onDisk) == [holds |-> v, synced |-> onDisk]

OnlyNamed(i) == [name |-> i, tmp |-> None, undone |-> {}]

Stored(v) == OnlyNamed(IF v = None THEN None ELSE Inode(v, TRUE))

\* load and load_json_or_default: what does not exist or parse is the default.
Loaded(f, default) ==
    IF disk[f].name = None \/ disk[f].name.holds = Torn THEN default ELSE disk[f].name.holds

-----------------------------------------------------------------------------
(* save and save_json_atomic.                                              *)

Saves(s) == saves[s] # None

BeginSave(s, f, v) ==
    /\ saves' = [saves EXCEPT ![s] = [file |-> f, value |-> v, stage |-> "create", fd |-> None]]
    /\ crossed' = crossed \cup {g \in {f} : \E r \in Savers \ {s} : Saves(r) /\ saves[r].file = f}

At(s, stage) == Saves(s) /\ saves[s].stage = stage

Advance(s, stage, fd) == saves' = [saves EXCEPT ![s].stage = stage, ![s].fd = fd]

\* The file s writes to has been given its name by another's rename, or removed.
Target(s) == IF saves[s].fd = "gone" THEN None ELSE disk[saves[s].file][saves[s].fd]

Put(s, inode) ==
    IF saves[s].fd = "gone" THEN UNCHANGED disk
    ELSE disk' = [disk EXCEPT ![saves[s].file][saves[s].fd] = inode]

\* Creating a file that exists empties it.
CreateTmp(s) ==
    /\ At(s, "create")
    /\ disk' = [disk EXCEPT ![saves[s].file].tmp = Inode(Torn, FALSE)]
    /\ Advance(s, "write", "tmp")
    /\ UNCHANGED crossed

\* Over what another has written, a shorter text leaves the end of the longer one.
WriteTmp(s) ==
    /\ At(s, "write")
    /\ \E v \in {saves[s].value} \cup
                {x \in {Torn} : Target(s) # None /\ Target(s).holds # Torn} :
        Put(s, Inode(v, FALSE))
    /\ Advance(s, "sync", saves[s].fd)
    /\ UNCHANGED crossed

\* Wrong: renames a file that is not on the disk.
SyncLater(s) ==
    /\ At(s, "sync")
    /\ Advance(s, "rename", saves[s].fd)
    /\ UNCHANGED <<disk, crossed>>

SyncTmp(s) ==
    /\ At(s, "sync")
    /\ IF Target(s) = None THEN UNCHANGED disk ELSE Put(s, Inode(Target(s).holds, TRUE))
    /\ Advance(s, "rename", saves[s].fd)
    /\ UNCHANGED crossed

\* What the other savers of f hold open after f's names have moved.
Reopened(s, f, move) ==
    [r \in Savers |->
        IF r = s THEN None
        ELSE IF Saves(r) /\ saves[r].file = f /\ saves[r].fd # None
        THEN [saves[r] EXCEPT !.fd = move[@]] ELSE saves[r]]

RenameTmp(s) ==
    /\ At(s, "rename")
    /\ LET f == saves[s].file IN
        /\ disk[f].tmp # None
        /\ disk' = [disk EXCEPT ![f] = [name |-> @.tmp, tmp |-> None, undone |-> {@.name}]]
        /\ saves' = Reopened(s, f, [tmp |-> "name", name |-> "gone", gone |-> "gone"])
    /\ UNCHANGED crossed

\* A step fails: no space, no permission, or nothing left to rename.  NvmStore
\* removes its temporary file; for a calibration it stays.
FailSave(s) ==
    /\ Saves(s)
    /\ LET f == saves[s].file IN
        IF f \in NvmFiles
        THEN /\ disk' = [disk EXCEPT ![f].tmp = None]
             /\ saves' = Reopened(s, f, [tmp |-> "gone", name |-> "name", gone |-> "gone"])
        ELSE /\ saves' = [saves EXCEPT ![s] = None]
             /\ UNCHANGED disk
    /\ UNCHANGED crossed

NothingToRename(s) ==
    /\ At(s, "rename")
    /\ disk[saves[s].file].tmp = None
    /\ FailSave(s)

SaveStep(s) ==
    CreateTmp(s) \/ WriteTmp(s) \/ SyncTmp(s) \/ RenameTmp(s) \/ NothingToRename(s)

-----------------------------------------------------------------------------
(* A power cut.  What was not synced may be lost, and the last rename may  *)
(* be undone; a temporary file that is left over is emptied by the next.   *)

OnDisk(i, lost) == IF i = None \/ i.synced THEN i ELSE Inode(IF lost THEN Torn ELSE i.holds, TRUE)

AfterCut(f, undo, lost) ==
    OnlyNamed(OnDisk(IF undo /\ disk[f].undone # {} THEN CHOOSE i \in disk[f].undone : TRUE
                  ELSE disk[f].name, lost))

\* reset (--reset-nvm) removes the NVM's files.
CutDisk(removed) ==
    /\ \E undo \in SUBSET {f \in Files : disk[f].undone # {}},
          lost \in SUBSET {f \in Files : \E i \in {disk[f].name} \cup disk[f].undone :
                                              i # None /\ ~i.synced} :
        disk' = [f \in Files |-> IF f \in removed THEN Stored(None)
                                 ELSE AfterCut(f, f \in undo, f \in lost)]
    /\ saves' = [s \in Savers |-> None]
    /\ UNCHANGED crossed

\* A file never holds half of a save, nor will it after a power cut
\* (nvm.rs:36-41, config.rs:821-822), unless two saved it at the same time.
NoTornFile ==
    \A f \in Files \ crossed : \A i \in {disk[f].name} \cup disk[f].undone :
        i = None \/ (i.synced /\ i.holds # Torn)
=============================================================================
