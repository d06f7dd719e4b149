-------------------------- MODULE ConfigFile_proof --------------------------
(***************************************************************************)
(* What TLAPS proves of ConfigFile, for every set of processes, layouts,   *)
(* names and colors.                                                       *)
(***************************************************************************)
EXTENDS ConfigFile, TLAPS

(* What replaces config.json is the value to save, and was flushed.        *)
Flushed ==
  /\ durable = TRUE
  /\ \A p \in Processes :
       /\ pc[p] \in {"sync", "replace"} => temporary[p] = value[p]
       /\ pc[p] = "replace" => synced[p] = TRUE

(* What a process is going to save keeps every entry of config.json that   *)
(* nobody added or recolored since it loaded the file.                     *)
Keeps(p) ==
  Present => \A id \in DOMAIN file \ changed[p] :
               id \in DOMAIN value[p] /\ value[p][id].color = file[id].color

Kept == \A p \in Processes : pc[p] # "idle" => Keeps(p)

IInv == TypeOK /\ Flushed /\ NeverTorn /\ Kept

USE DefaultColorAssumption, ContentsAssumption

(* A config is a function from layouts to settings.                        *)
LEMMA ConfigShape ==
  ASSUME NEW config
  PROVE  config \in Configs <=>
           /\ config = [id \in DOMAIN config |-> config[id]]
           /\ DOMAIN config \subseteq Layouts
           /\ \A id \in DOMAIN config : config[id] \in Settings
  BY DEF Configs, Over

LEMMA NamesShape ==
  ASSUME NEW names \in Over(Names)
  PROVE  /\ DOMAIN names \subseteq Layouts
         /\ \A id \in DOMAIN names : names[id] \in Names
  BY DEF Over

LEMMA SettingShape ==
  ASSUME NEW name \in Names, NEW color \in Colors
  PROVE  /\ [name |-> name, color |-> color] \in Settings
         /\ [name |-> name, color |-> color].color = color
  BY DEF Settings

(* Reconcile makes a config of a config, and keeps its colors.             *)
LEMMA ReconcileKeeps ==
  ASSUME NEW config \in Configs, installed \in Over(Names)
  PROVE  /\ Reconcile(config) \in Configs
         /\ DOMAIN config \subseteq DOMAIN Reconcile(config)
         /\ \A id \in DOMAIN config :
              Reconcile(config)[id].color = config[id].color
<1> DEFINE result == Reconcile(config)
           ids == DOMAIN config \cup DOMAIN installed
           nameOf(id) == IF id \in DOMAIN installed THEN installed[id]
                                                    ELSE config[id].name
           colorOf(id) == IF id \in DOMAIN config THEN config[id].color
                                                  ELSE DefaultColor
<1>1. result = [id \in ids |-> result[id]] /\ DOMAIN result = ids
  BY DEF Reconcile
<1>2. \A id \in ids : result[id] = [name |-> nameOf(id), color |-> colorOf(id)]
  BY DEF Reconcile
<1>3. ids \subseteq Layouts
  BY ConfigShape, NamesShape
<1>4. ASSUME NEW id \in ids PROVE nameOf(id) \in Names /\ colorOf(id) \in Colors
  <2>1. id \in DOMAIN installed => installed[id] \in Names
    BY NamesShape
  <2>2. id \in DOMAIN config => /\ config[id].name \in Names
                                /\ config[id].color \in Colors
    BY ConfigShape DEF Settings
  <2>. QED
    BY <2>1, <2>2
<1>5. \A id \in DOMAIN config : id \in ids /\ colorOf(id) = config[id].color
  OBVIOUS
<1> HIDE DEF result, ids, nameOf, colorOf
<1>6. ASSUME NEW id \in ids
      PROVE  result[id] \in Settings /\ result[id].color = colorOf(id)
  <2>1. result[id] = [name |-> nameOf(id), color |-> colorOf(id)]
    BY <1>2
  <2>2. nameOf(id) \in Names /\ colorOf(id) \in Colors
    BY <1>4
  <2>. QED
    BY <2>1, <2>2, SettingShape
<1>7. result \in Configs
  BY <1>1, <1>3, <1>6, ConfigShape
<1>8. DOMAIN config \subseteq DOMAIN result
  BY <1>1, <1>5
<1>. QED
  BY <1>5, <1>6, <1>7, <1>8 DEF result

LEMMA EmptyIsConfig == Empty \in Configs /\ DOMAIN Empty = {}
  BY ConfigShape DEF Empty

(* Another color leaves a config, with the other entries as they were.     *)
LEMMA RecolorKeeps ==
  ASSUME NEW config \in Configs, NEW id \in DOMAIN config, NEW color \in Colors
  PROVE  /\ [config EXCEPT ![id].color = color] \in Configs
         /\ DOMAIN [config EXCEPT ![id].color = color] = DOMAIN config
         /\ \A other \in DOMAIN config \ {id} :
              [config EXCEPT ![id].color = color][other] = config[other]
<1> DEFINE result == [config EXCEPT ![id].color = color]
<1>1. /\ result = [other \in DOMAIN config |-> result[other]]
      /\ DOMAIN result = DOMAIN config
      /\ \A other \in DOMAIN config \ {id} : result[other] = config[other]
      /\ result[id] = [config[id] EXCEPT !.color = color]
  BY ConfigShape
<1>2. result[id] \in Settings
  BY <1>1, ConfigShape DEF Settings
<1>3. result \in Configs
  BY <1>1, <1>2, ConfigShape
<1>. QED
  BY <1>1, <1>3

-----------------------------------------------------------------------------
LEMMA InitInvariant == Init => IInv
  BY EmptyIsConfig
     DEF Init, IInv, TypeOK, Steps, Flushed, NeverTorn, Kept, Keeps, Present

(* Every step keeps the invariant.                                         *)
LEMMA Step == IInv /\ [Next]_vars => IInv'
<1> SUFFICES ASSUME IInv, [Next]_vars PROVE IInv'
  OBVIOUS
<1> USE DEF IInv, TypeOK, Steps, Flushed, NeverTorn, Kept, Keeps, Present,
            vars, world, process
<1>1. ASSUME NEW p \in Processes, Start(p) PROVE IInv'
  <2> DEFINE loaded == Entries
  <2>1. loaded \in Configs /\ (Present => loaded = file)
    BY EmptyIsConfig DEF Entries
  <2>2. /\ Reconcile(loaded) \in Configs
        /\ DOMAIN loaded \subseteq DOMAIN Reconcile(loaded)
        /\ \A id \in DOMAIN loaded :
             Reconcile(loaded)[id].color = loaded[id].color
    BY <2>1, ReconcileKeeps
  <2>3. value' = [value EXCEPT ![p] = Reconcile(loaded)]
    BY <1>1 DEF Start
  <2>. HIDE DEF loaded
  <2>4. TypeOK'
    BY <1>1, <2>2, <2>3 DEF Start
  <2>5. Flushed' /\ NeverTorn'
    BY <1>1, <2>3 DEF Start
  <2>6. ASSUME NEW q \in Processes, q # p, pc'[q] # "idle" PROVE Keeps(q)'
    BY <1>1, <2>3, <2>6 DEF Start
  <2>7. Keeps(p)'
    BY <1>1, <2>1, <2>2, <2>3 DEF Start
  <2>. QED
    BY <2>4, <2>5, <2>6, <2>7
<1>2. ASSUME NEW p \in Processes, CreateTemporary(p) PROVE IInv'
  BY <1>2 DEF CreateTemporary
<1>3. ASSUME NEW p \in Processes, WriteTemporary(p) PROVE IInv'
  BY <1>3 DEF WriteTemporary
<1>4. ASSUME NEW p \in Processes, SyncTemporary(p) PROVE IInv'
  BY <1>4 DEF SyncTemporary
<1>5. ASSUME NEW p \in Processes, Replace(p) PROVE IInv'
  <2> DEFINE saved == value[p]
  <2>1. file' \in Configs /\ file' = saved /\ durable' = TRUE
    BY <1>5 DEF Replace
  <2>2. DOMAIN saved \subseteq Layouts
    BY <2>1, ConfigShape
  <2>3. NewIn(saved) \subseteq Layouts
    BY <2>2 DEF NewIn
  <2>4. TypeOK' /\ Flushed' /\ NeverTorn'
    BY <1>5, <2>1, <2>3, EmptyIsConfig DEF Replace, StartEnds
  <2>5. ASSUME NEW q \in Processes, pc'[q] # "idle",
               NEW id \in DOMAIN file' \ changed'[q]
        PROVE  id \in DOMAIN value'[q] /\ value'[q][id].color = file'[id].color
    <3>1. /\ q # p /\ pc[q] # "idle" /\ value'[q] = value[q]
          /\ id \notin changed[q] /\ id \notin NewIn(saved)
      BY <1>5, <2>5 DEF Replace, StartEnds
    <3>2. id \in DOMAIN Entries /\ Entries[id].color = saved[id].color
      BY <2>1, <3>1 DEF NewIn
    <3>3. Present /\ Entries = file
      BY <3>2, EmptyIsConfig DEF Entries
    <3>. QED
      BY <2>1, <3>1, <3>2, <3>3
  <2>. QED
    BY <2>4, <2>5
<1>6. ASSUME NEW p \in Processes, SaveFails(p) PROVE IInv'
  BY <1>6, EmptyIsConfig DEF SaveFails, StartEnds
<1>7. CASE PowerLoss
  BY <1>7, EmptyIsConfig DEF PowerLoss
<1>9. ASSUME NEW id \in Layouts, NEW color \in Colors, Recolor(id, color)
      PROVE  IInv'
  <2>1. file \in Configs /\ id \in DOMAIN file
    BY <1>9 DEF Recolor
  <2>2. /\ file' \in Configs
        /\ DOMAIN file' = DOMAIN file
        /\ \A other \in DOMAIN file \ {id} : file'[other] = file[other]
    BY <1>9, <2>1, RecolorKeeps DEF Recolor
  <2>3. TypeOK' /\ Flushed' /\ NeverTorn'
    BY <1>9, <2>2 DEF Recolor, Edited
  <2>4. ASSUME NEW q \in Processes, pc'[q] # "idle" PROVE Keeps(q)'
    BY <1>9, <2>2, <2>4, ZenonT(60) DEF Recolor, Edited
  <2>. QED
    BY <2>3, <2>4
<1>10. CASE Spoil
  BY <1>10 DEF Spoil, Edited
<1>11. CASE Delete
  BY <1>11 DEF Delete, Edited
<1>12. CASE Install
  BY <1>12 DEF Install
<1>13. CASE UNCHANGED vars
  BY <1>13
<1>. QED
  BY <1>1, <1>2, <1>3, <1>4, <1>5, <1>6, <1>7, <1>9, <1>10, <1>11,
     <1>12, <1>13
  DEF Next, Process, User

(* The inductive invariant: types, what a replacement is made of, and what *)
(* a save under way keeps.                                                 *)
THEOREM InvariantHolds == Spec => []IInv
  BY InitInvariant, Step, PTL DEF Spec

(* Type correctness: what Run saves is a config, for every set of          *)
(* processes, layouts, names and colors.                                   *)
THEOREM TypeCorrect == Spec => []TypeOK
<1>1. IInv => TypeOK
  BY DEF IInv
<1>. QED
  BY <1>1, InvariantHolds, PTL

(* config.json is whole, whatever crashes: Save replaces it by a temporary *)
(* file that was written and flushed.                                      *)
THEOREM Whole == Spec => []NeverTorn
<1>1. IInv => NeverTorn
  BY DEF IInv
<1>. QED
  BY <1>1, InvariantHolds, PTL

(* A save keeps every entry and color that nobody else added or changed    *)
(* since its process loaded the file (SaveKeepsColors).                    *)
THEOREM ColorsKept == Spec => SaveKeepsColors
<1> DEFINE SavesKept ==
      \A p \in Processes : Replace(p) /\ Present =>
        \A id \in DOMAIN file \ changed[p] :
          id \in DOMAIN file' /\ file'[id].color = file[id].color
<1>1. IInv /\ [Next]_vars => [SavesKept]_vars
  BY DEF IInv, TypeOK, Flushed, Kept, Keeps, Replace
<1>. QED
  BY <1>1, InvariantHolds, PTL DEF Spec, SaveKeepsColors

-----------------------------------------------------------------------------
(* The fields of what Reconcile returns.                                   *)
LEMMA ReconcileFields ==
  ASSUME NEW config \in Configs, installed \in Over(Names)
  PROVE  /\ DOMAIN Reconcile(config) = DOMAIN config \cup DOMAIN installed
         /\ \A id \in DOMAIN installed :
              Reconcile(config)[id].name = installed[id]
         /\ \A id \in DOMAIN config \ DOMAIN installed :
              Reconcile(config)[id].name = config[id].name
BY DEF Reconcile

(* The changed flag of Reconcile is exact, and what it returns needs no    *)
(* other save: a start writes config.json only if its content changes, and *)
(* a second start with the same layouts does not write it at all.          *)
THEOREM ReconcileSettles ==
  ASSUME NEW config \in Configs, installed \in Over(Names)
  PROVE  /\ Differs(config) <=> Reconcile(config) # config
         /\ ~Differs(Reconcile(config))
<1> DEFINE result == Reconcile(config)
<1>1. /\ DOMAIN result = DOMAIN config \cup DOMAIN installed
      /\ \A id \in DOMAIN installed : result[id].name = installed[id]
      /\ \A id \in DOMAIN config \ DOMAIN installed :
           result[id].name = config[id].name
  BY ReconcileFields
<1>2. /\ result \in Configs
      /\ \A id \in DOMAIN config : result[id].color = config[id].color
  BY ReconcileKeeps
<1> HIDE DEF result
<1>3. ~Differs(result)
  BY <1>1 DEF Differs
<1>4. ASSUME Differs(config) PROVE result # config
  BY <1>3, <1>4
<1>5. ASSUME ~Differs(config) PROVE result = config
  <2>1. DOMAIN result = DOMAIN config
    BY <1>1, <1>5 DEF Differs
  <2>2. ASSUME NEW id \in DOMAIN config PROVE result[id] = config[id]
    <3>1. result[id].name = config[id].name
      BY <1>1, <1>5 DEF Differs
    <3>2. result[id].color = config[id].color
      BY <1>2
    <3>3. result[id] \in Settings /\ config[id] \in Settings
      BY <1>2, <2>1, ConfigShape
    <3>. QED
      BY <3>1, <3>2, <3>3 DEF Settings
  <2>3. /\ result = [id \in DOMAIN result |-> result[id]]
        /\ config = [id \in DOMAIN config |-> config[id]]
    BY <1>2, ConfigShape
  <2>. QED
    BY <2>1, <2>2, <2>3
<1>. QED
  BY <1>3, <1>4, <1>5 DEF result
=============================================================================
