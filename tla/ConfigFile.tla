----------------------------- MODULE ConfigFile -----------------------------
(***************************************************************************)
(* config.json: processes that start (Runtime.Run up to the save), load    *)
(* it, reconcile it with the installed layouts and replace it through a    *)
(* temporary file (internal/config), a user who edits it, crashes of a     *)
(* process, and losses of power that keep only what was flushed.           *)
(***************************************************************************)
EXTENDS Naturals, FiniteSets

CONSTANTS Processes,     \* laylit and the session helper of one user
          Layouts,       \* layout identifiers
          Names,         \* display names
          Colors,        \* valid colors
          DefaultColor,  \* DefaultColor
          Absent,        \* there is no such file
          Invalid,       \* a file that Load refuses, as a user may leave it
          Torn           \* a file of which only a part was written

ASSUME DefaultColorAssumption == DefaultColor \in Colors

VARIABLES
  file,      \* config.json: a config, Absent, Invalid or Torn
  durable,   \* its content has reached the disk
  installed, \* the layouts Windows reports: names of some of Layouts
  pc,        \* pc[p]: where process p is, see Steps
  value,     \* value[p]: the config p is going to save, Empty when idle
  temporary, \* temporary[p]: its temporary file: a config, Absent or Torn
  synced,    \* synced[p]: that file was flushed
  \* history only
  changed    \* changed[p]: entries that were added or got another color by
             \* somebody else since p loaded, everything if it was spoiled

world == <<file, durable, installed>>
process == <<pc, value, temporary, synced>>
vars == <<world, process, changed>>

Settings == [name : Names, color : Colors]
Over(S) == UNION {[ids -> S] : ids \in SUBSET Layouts}
Configs == Over(Settings)
ASSUME ContentsAssumption ==
  /\ {Absent, Invalid, Torn} \cap Configs = {}
  /\ Absent # Invalid /\ Absent # Torn /\ Invalid # Torn

Steps == {"idle", "create", "write", "sync", "replace"}

TypeOK ==
  /\ file \in Configs \cup {Absent, Invalid, Torn}
  /\ durable \in BOOLEAN
  /\ installed \in Over(Names)
  /\ pc \in [Processes -> Steps]
  /\ value \in [Processes -> Configs]
  /\ temporary \in [Processes -> Configs \cup {Absent, Torn}]
  /\ synced \in [Processes -> BOOLEAN]
  /\ changed \in [Processes -> SUBSET Layouts]

Empty == [id \in {} |-> DefaultColor]

Init ==
  /\ file = Absent
  /\ durable = TRUE
  /\ installed \in Over(Names)
  /\ pc = [p \in Processes |-> "idle"]
  /\ value = [p \in Processes |-> Empty]
  /\ temporary = [p \in Processes |-> Absent]
  /\ synced = [p \in Processes |-> FALSE]
  /\ changed = [p \in Processes |-> {}]

Present == file \notin {Absent, Invalid, Torn}
Entries == IF Present THEN file ELSE Empty

-----------------------------------------------------------------------------
(* Mutant: a name that is refreshed resets the color.                      *)
Reconcile_ResetsColor(config) ==
  [id \in DOMAIN config \cup DOMAIN installed |->
     [name |-> IF id \in DOMAIN installed THEN installed[id]
                                          ELSE config[id].name,
      color |-> IF id \in DOMAIN config /\ (id \in DOMAIN installed =>
                                           config[id].name = installed[id])
                  THEN config[id].color ELSE DefaultColor]]

(* Mutant: an entry whose layout is absent for a while is deleted.         *)
Reconcile_DropsAbsent(config) ==
  [id \in DOMAIN installed |->
     [name |-> installed[id],
      color |-> IF id \in DOMAIN config THEN config[id].color
                                        ELSE DefaultColor]]

(* Mutant: a new entry is left without a color.                            *)
Reconcile_NoColor(config) ==
  [id \in DOMAIN config \cup DOMAIN installed |->
     IF id \in DOMAIN config THEN config[id]
     ELSE [name |-> installed[id], color |-> Absent]]

(* Installed layouts are added, names refreshed, colors kept.              *)
Reconcile(config) ==
  [id \in DOMAIN config \cup DOMAIN installed |->
     [name |-> IF id \in DOMAIN installed THEN installed[id]
                                          ELSE config[id].name,
      color |-> IF id \in DOMAIN config THEN config[id].color
                                        ELSE DefaultColor]]

Differs(config) ==
  \E id \in DOMAIN installed :
    id \in DOMAIN config => config[id].name # installed[id]

(* Load and Reconcile at the start: a file that cannot be read stops it,   *)
(* one that is up to date is not saved.                                    *)
Start(p) ==
  /\ pc[p] = "idle"
  /\ Present \/ file = Absent
  /\ file = Absent \/ Differs(Entries)
  /\ value' = [value EXCEPT ![p] = Reconcile(Entries)]
  /\ pc' = [pc EXCEPT ![p] = "create"]
  /\ UNCHANGED <<world, temporary, synced, changed>>

(* CreateTemp: the file exists and is empty.                               *)
CreateTemporary(p) ==
  /\ pc[p] = "create"
  /\ temporary' = [temporary EXCEPT ![p] = Torn]
  /\ synced' = [synced EXCEPT ![p] = FALSE]
  /\ pc' = [pc EXCEPT ![p] = "write"]
  /\ UNCHANGED <<world, value, changed>>

(* Mutant: no Sync before the replacement.                                 *)
WriteTemporary_Unsynced(p) ==
  /\ pc[p] = "write"
  /\ temporary' = [temporary EXCEPT ![p] = value[p]]
  /\ pc' = [pc EXCEPT ![p] = "replace"]
  /\ UNCHANGED <<world, value, synced, changed>>

WriteTemporary(p) ==
  /\ pc[p] = "write"
  /\ temporary' = [temporary EXCEPT ![p] = value[p]]
  /\ pc' = [pc EXCEPT ![p] = "sync"]
  /\ UNCHANGED <<world, value, synced, changed>>

SyncTemporary(p) ==
  /\ pc[p] = "sync"
  /\ synced' = [synced EXCEPT ![p] = TRUE]
  /\ pc' = [pc EXCEPT ![p] = "replace"]
  /\ UNCHANGED <<world, value, temporary, changed>>

(* The start of p is over: what it loaded is forgotten.                    *)
StartEnds(p) ==
  /\ pc' = [pc EXCEPT ![p] = "idle"]
  /\ value' = [value EXCEPT ![p] = Empty]
  /\ temporary' = [temporary EXCEPT ![p] = Absent]
  /\ synced' = [synced EXCEPT ![p] = FALSE]

NewIn(config) ==
  {id \in DOMAIN config :
     id \in DOMAIN Entries => Entries[id].color # config[id].color}

(* MoveFileEx: what is new in the file is news to everybody else.          *)
Replace(p) ==
  /\ pc[p] = "replace"
  /\ file' = temporary[p]
  /\ durable' = synced[p]
  /\ StartEnds(p)
  /\ changed' = [q \in Processes |->
                   IF q = p \/ pc[q] = "idle" THEN {}
                   ELSE changed[q] \cup NewIn(value[p])]
  /\ UNCHANGED installed

(* Any call of Save may fail, and removes the temporary file; or the       *)
(* process crashes, and leaves it where nobody reads it.                   *)
SaveFails(p) ==
  /\ pc[p] # "idle"
  /\ StartEnds(p)
  /\ changed' = [changed EXCEPT ![p] = {}]
  /\ UNCHANGED world

Process(p) ==
  \/ Start(p)
  \/ CreateTemporary(p)
  \/ WriteTemporary(p)
  \/ SyncTemporary(p)
  \/ Replace(p)
  \/ SaveFails(p)

-----------------------------------------------------------------------------
(* Every process ends, and of a file that was not flushed a part is left.  *)
PowerLoss ==
  /\ file' = IF durable THEN file ELSE Torn
  /\ durable' = TRUE
  /\ pc' = [p \in Processes |-> "idle"]
  /\ value' = [p \in Processes |-> Empty]
  /\ temporary' = [p \in Processes |-> Absent]
  /\ synced' = [p \in Processes |-> FALSE]
  /\ changed' = [p \in Processes |-> {}]
  /\ UNCHANGED installed

Edited(ids) ==
  /\ changed' = [p \in Processes |->
                   IF pc[p] = "idle" THEN {} ELSE changed[p] \cup ids]
  /\ durable' = TRUE
  /\ UNCHANGED <<installed, process>>

(* The user picks another color for a layout.                              *)
Recolor(id, color) ==
  /\ Present /\ id \in DOMAIN file
  /\ file' = [file EXCEPT ![id].color = color]
  /\ Edited({id})

(* The user makes a mistake, or deletes a file that Load refuses.          *)
Spoil == Present /\ file' = Invalid /\ Edited(Layouts)
Delete == file = Invalid /\ file' = Absent /\ Edited(Layouts)

(* Windows reports other layouts or names.                                 *)
Install ==
  /\ installed' \in Over(Names) \ {installed}
  /\ UNCHANGED <<file, durable, process, changed>>

User ==
  \/ \E id \in Layouts, color \in Colors : Recolor(id, color)
  \/ Spoil
  \/ Delete
  \/ Install

Next ==
  \/ \E p \in Processes : Process(p)
  \/ PowerLoss
  \/ User

Spec == Init /\ [][Next]_vars

-----------------------------------------------------------------------------
(* "an atomic same-directory temporary-file replacement": whatever crashes *)
(* or loses power at any step of a save, config.json is never half a file. *)
NeverTorn == file # Torn

(* A save keeps every entry of the file, with its color, that nobody added *)
(* or recolored since its process loaded it: entries of layouts that are   *)
(* absent for a while, and those an edit of another entry left alone.      *)
SaveKeepsColors ==
  [][\A p \in Processes : Replace(p) /\ Present =>
       \A id \in DOMAIN file \ changed[p] :
         id \in DOMAIN file' /\ file'[id].color = file[id].color]_vars
=============================================================================
