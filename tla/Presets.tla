------------------------------- MODULE Presets -------------------------------
(* presets.py: what a preset looks for and what the search for it finds.     *)
EXTENDS World

CONSTANTS
    PresetTable,   \* name -> the names of directories and of files it has, and
                   \* those of dir_names with a slash, as sequences of names
    Aliases        \* other name -> name

AllDev == "all-dev"

(* get_preset: None stands for FastDeleteError. *)
GetPreset(name) ==
    LET canonical == IF name \in DOMAIN Aliases THEN Aliases[name] ELSE name
    IN  CASE canonical = AllDev ->
                 [dirs  |-> UNION {PresetTable[p].dirs : p \in DOMAIN PresetTable},
                  files |-> UNION {PresetTable[p].files : p \in DOMAIN PresetTable},
                  nested |-> UNION {PresetTable[p].nested : p \in DOMAIN PresetTable}]
          [] canonical \in DOMAIN PresetTable -> PresetTable[canonical]
          [] OTHER -> None

(* os.walk takes a link to a directory for a directory but never enters it.  *)
DirLike(n) == Entry[n].kind \in {"dir", "dirlink"}

(* A basename is never one of preset.nested: d in dir_names_set.             *)
MatchedDir(preset, n)  == DirLike(n) /\ Entry[n].name \in preset.dirs
MatchedFile(preset, n) == ~DirLike(n) /\ Entry[n].name \in preset.files

(* Mutant: the walk enters the directories it has matched. *)
WalkedAll(root, preset) ==
    {d \in Dirs \cap Within(root) : Up[d] \cap Within(root) \cap Unreadable = {}}

(* The directories the walk lists: nothing below a match, nothing below what *)
(* cannot be read.                                                           *)
Walked(root, preset) ==
    {d \in Dirs \cap Within(root) :
        /\ Up[d] \cap Within(root) \cap Unreadable = {}
        /\ \A a \in Between(root, d) : ~MatchedDir(preset, a)}

(* find_preset_targets: the files, which go first, and the directories.      *)
FindPresetTargets(root, preset) ==
    LET seen == IF root \in Dirs
                THEN {n \in Below(root) : Parent[n] \in Walked(root, preset)} ELSE {}
    IN  <<{n \in seen : MatchedFile(preset, n)}, {n \in seen : MatchedDir(preset, n)}>>
==============================================================================
