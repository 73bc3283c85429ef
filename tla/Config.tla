------------------------------- MODULE Config -------------------------------
(***************************************************************************)
(* cmd/bbrs: parseConfig, which lays six layers of settings over each      *)
(* other.  The project's config.toml is found through the source that the  *)
(* other layers name, so they are consulted for it before they are         *)
(* applied.                                                                *)
(***************************************************************************)
EXTENDS Paths, Naturals

CONSTANTS
    Settings,    \* names of the settings, "source" and "destination" among them
    Pointers,    \* port and verbose: config.toml can tell a zero from nothing
    Defaults,    \* the coded defaults
    Layers,      \* what a file, the environment or the command line may say
    Unset,       \* it says nothing of a setting
    Zero,        \* of each setting, the empty string or list
    Resolve      \* the directory each source names, or Invalid

ASSUME SettingsAssumption ==
    /\ {"source", "destination", "include", "ignore"} \subseteq Settings
    /\ Pointers \subseteq Settings \ {"source", "destination"}
    /\ \A k \in Settings : Defaults[k] # Unset

\* Every source there may be is resolved; a destination is text.
Speaks(layer) ==
    /\ DOMAIN layer = Settings
    /\ layer["source"] \in DOMAIN Resolve \cup {Unset}
    /\ layer["destination"] \in Text \cup {Unset}

ASSUME ValuesAssumption ==
    /\ \A layer \in Layers \cup {Defaults} : Speaks(layer)
    /\ \A source \in DOMAIN Resolve : Resolve[source] # Unset
    /\ Unset # Invalid /\ Unset \notin Text

VARIABLES
    step,        \* what is read next, or "done", "failed", "version", "planned"
    layers,      \* history: what each layer that was read says
    cfg,         \* the settings so far
    projectDir   \* directory whose config.toml was read

vars == <<step, layers, cfg, projectDir>>

Rank == [defaults |-> 0, system |-> 1, user |-> 2, project |-> 3, process |-> 4, cli |-> 5]
Sources == DOMAIN Rank
Silent == [k \in Settings |-> Unset]

\* Every setting has a value at every step.
TypeOK ==
    /\ step \in {"cli", "system", "user", "process", "project", "check",
                 "done", "failed", "version", "planned"}
    /\ DOMAIN layers = Sources /\ \A l \in Sources : DOMAIN layers[l] = Settings
    /\ DOMAIN cfg = Settings /\ \A k \in Settings : cfg[k] # Unset

Init ==
    /\ step = "cli"
    /\ layers = [l \in Sources |-> IF l = "defaults" THEN Defaults ELSE Silent]
    /\ cfg = Defaults
    /\ projectDir = Invalid

LayerOnly(settings, layer) == layer                                       \* mutant
\* applyPartialConfig, applyExplicitCLIConfig: what the layer sets.
Overlay(settings, layer) ==
    [k \in Settings |-> IF layer[k] = Unset THEN settings[k] ELSE layer[k]]

\* applyFileConfig: there is no source in config.toml, and no empty text or list.
Told(file) ==
    [k \in Settings |-> IF k = "source" \/ (k \notin Pointers /\ file[k] = Zero[k])
                        THEN Unset ELSE file[k]]

\* A flag or a value does not parse, or a file cannot be read.
ReadFails ==
    /\ step \in {"cli", "system", "user", "process", "project"}
    /\ step' = "failed"
    /\ UNCHANGED <<layers, cfg, projectDir>>

Version ==
    /\ step = "cli"
    /\ step' = "version"
    /\ UNCHANGED <<layers, cfg, projectDir>>

Keep(source, layer) == layers' = [layers EXCEPT ![source] = layer]

\* What flags, a file or the environment say: nothing, if no flag is set or there is
\* no such file.
Said == Layers \cup {Silent}

parseCLI ==
    /\ step = "cli"
    /\ \E layer \in Said : Keep("cli", layer)
    /\ step' = "system"
    /\ UNCHANGED <<cfg, projectDir>>

applyEnvFile(source, next) ==
    /\ step = source
    /\ \E layer \in Said :
          Keep(source, layer) /\ cfg' = Overlay(cfg, layer)
    /\ step' = next
    /\ UNCHANGED projectDir

loadProcessEnv ==
    /\ step = "process"
    /\ \E layer \in Said : Keep("process", layer)
    /\ step' = "project"
    /\ UNCHANGED <<cfg, projectDir>>

SourceOfFlags == Overlay(cfg, layers["cli"])["source"]                    \* mutant
ProjectSource == Overlay(Overlay(cfg, layers["process"]), layers["cli"])["source"]

FileLast(file) ==                                                         \* mutant
    Overlay(Overlay(Overlay(cfg, layers["process"]), layers["cli"]), Told(file))
Merge(file) ==
    Overlay(Overlay(Overlay(cfg, Told(file)), layers["process"]), layers["cli"])

\* config.Load, and all that is left to apply.
LoadProject ==
    /\ step = "project"
    /\ Resolve[ProjectSource] # Invalid
    /\ projectDir' = Resolve[ProjectSource]
    /\ \E file \in Said : Keep("project", Told(file)) /\ cfg' = Merge(file)
    /\ step' = "check"

NoSource ==
    /\ step = "project"
    /\ Resolve[ProjectSource] = Invalid
    /\ step' = "failed"
    /\ UNCHANGED <<layers, cfg, projectDir>>

\* A setting as the rest of the program sees it.
Final(k, value) ==
    CASE k = "source" -> Resolve[value]
      [] k = "destination" -> NormalizeRemotePath(value)
      [] OTHER -> value

Check ==
    /\ step = "check"
    /\ cfg' = [k \in Settings |-> Final(k, cfg[k])]
    /\ step' = IF cfg'["source"] = Invalid \/ cfg'["destination"] = Invalid
               THEN "failed" ELSE "done"
    /\ UNCHANGED <<layers, projectDir>>

Next ==
    \/ parseCLI \/ Version \/ applyEnvFile("system", "user") \/ applyEnvFile("user", "process")
    \/ loadProcessEnv \/ LoadProject \/ NoSource \/ Check \/ ReadFails

Spec == Init /\ [][Next]_vars

-----------------------------------------------------------------------------
(* Properties. *)

\* README.md, "Configuration precedence": each setting is what the highest layer
\* that sets it says, in whatever order the code reads and applies the layers.
Wins(l, k) ==
    /\ layers[l][k] # Unset
    /\ \A m \in Sources : Rank[m] > Rank[l] => layers[m][k] = Unset

HighestLayerWins ==
    step = "done" => \A l \in Sources, k \in Settings :
                        Wins(l, k) => cfg[k] = Final(k, layers[l][k])

\* The config.toml that was read is the one of the directory that is synced, though
\* it was looked for before the layers were merged.
OwnProjectFile == step = "done" => projectDir = cfg["source"]
=============================================================================
