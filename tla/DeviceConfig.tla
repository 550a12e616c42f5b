----------------------------- MODULE DeviceConfig -----------------------------
(***************************************************************************)
(* The per-device configuration (per_device_config.rs): the file at the    *)
(* root of a card that says which of its directories become transfers.     *)
(*                                                                         *)
(* A card is a tree of nodes. What a path is called does not matter here,  *)
(* only what lies below it, so nodes are opaque and the shape of the tree  *)
(* is given by constants. What a card holds at some time is a set of nodes.*)
(***************************************************************************)
EXTENDS FiniteSets

CONSTANTS
    Nodes,       \* files and directories the card may hold
    Files,       \* those that are files
    Root,        \* the card's root
    ConfigFile,  \* the configuration file
    Children,    \* the nodes in each directory
    Under,       \* the nodes at or below each node
    Name,        \* the last component of each node's path
    WholeCard    \* an override without an input path

ASSUME TreeAssumption ==
    /\ IsFiniteSet(Nodes)
    /\ Files \subseteq Nodes /\ Root \in Nodes \ Files
    /\ Children \in [Nodes -> SUBSET Nodes]
    /\ Under \in [Nodes -> SUBSET Nodes]
    /\ \A n \in Nodes : n \in Under[n]
    /\ \A n \in Files : Under[n] = {n}
    /\ \A n \in Nodes : \A a, b \in Children[n] : Name[a] = Name[b] => a = b
ASSUME ConfigFileAssumption ==
    /\ ConfigFile \in Children[Root] \cap Files
    /\ \A n \in Nodes : ConfigFile \in Under[n] => n \in {Root, ConfigFile}
    /\ \A n \in Nodes : Children[n] \cap {Root, ConfigFile} # {} => n = Root
    /\ Root \notin Children[Root]
ASSUME WholeCardAssumption == WholeCard \notin Nodes

(***************************************************************************)
(* A configuration: whether the file is absent (or unreadable), bad (it    *)
(* does not parse, or has the wrong type or version), or read; its         *)
(* transfer entries, each with its input paths and whether the devices and *)
(* media it names are known; ignored_dirs and ignore_unhandled_dirs.       *)
(***************************************************************************)
ConfigType ==
    [state : {"absent", "bad", "read"},
     entries : SUBSET [paths : SUBSET Nodes, known : BOOLEAN],
     ignored : SUBSET Nodes, lax : BOOLEAN]

\* An entry without input paths is a transfer of the whole card, an empty list of them as
\* well; a path the card does not have is skipped.
EntryOverrides(entry, card) ==
    IF entry.paths = {} THEN {WholeCard} ELSE entry.paths \cap card

\* Overrides that are alike count as one.
Overrides(config, card) ==
    UNION {EntryOverrides(entry, card) : entry \in config.entries}

\* Mutant: a configured path covers its directory even if the card does not have it.
UnhandledDirsAsConfigured(config, card) ==
    LET overrides == Overrides(config, card)
        configured == UNION {entry.paths : entry \in config.entries} IN
    IF WholeCard \in overrides \/ overrides = {} THEN {}
    ELSE {n \in (Children[Root] \cap card) \ Files :
            n \notin config.ignored /\ configured \cap Under[n] = {}}

\* check_for_unhandled_dirs: top-level directories no override lies in. Files at the root
\* are not looked at; an override of "/" itself has no component and covers nothing.
UnhandledDirs(config, card) ==
    LET overrides == Overrides(config, card) IN
    IF WholeCard \in overrides \/ overrides = {} THEN {}
    ELSE {n \in (Children[Root] \cap card) \ Files :
            n \notin config.ignored /\ overrides \cap Under[n] = {}}

\* load_per_device_config fails; an absent file is no error.
Rejected(config, card) ==
    \/ config.state = "bad"
    \/ config.state = "read" /\ \E entry \in config.entries : ~entry.known
    \/ config.state = "read" /\ ~config.lax /\ UnhandledDirs(config, card) # {}

\* The overrides the mount thread makes transfers of: one for the whole card if there are
\* none, because the file is absent, was rejected, or names only paths the card lacks.
EffectiveOverrides(config, card) ==
    LET overrides == Overrides(config, card) IN
    IF config.state # "read" \/ Rejected(config, card) \/ overrides = {}
    THEN {WholeCard} ELSE overrides
=============================================================================
