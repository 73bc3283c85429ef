--------------------------- MODULE StartupProofs ----------------------------
(***************************************************************************)
(* For any settings, layers and trees: each setting is what the highest    *)
(* layer says, the config.toml that was read is the one of the source, and *)
(* a destination that was accepted serves every tree it is planned with.   *)
(***************************************************************************)
EXTENDS Startup, PathsProofs

Over(l, k, below) == IF layers[l][k] = Unset THEN below ELSE layers[l][k]

\* What the files outside the project say of k, and what all layers say.
EnvSays(k) == Over("user", k, Over("system", k, Defaults[k]))
AllSay(k)  == Over("cli", k, Over("process", k, Over("project", k, EnvSays(k))))

Reading == {"cli", "system", "user", "process", "project"}

\* Layer l has not been read.
Unread(l) ==
    \/ l = "project" /\ step \in Reading
    \/ l = "process" /\ step \in Reading \ {"project"}
    \/ l = "user"    /\ step \in {"cli", "system", "user"}
    \/ l = "system"  /\ step \in {"cli", "system"}
    \/ l = "cli"     /\ step = "cli"

LayersInv ==
    /\ layers = [l \in Sources |-> layers[l]]
    /\ layers["defaults"] = Defaults
    /\ \A l \in Sources, k \in Settings : Unread(l) => layers[l][k] = Unset
    /\ layers["project"]["source"] = Unset

CfgInv ==
    /\ step \in Reading => \A k \in Settings : cfg[k] = EnvSays(k)
    /\ step = "check" => \A k \in Settings : cfg[k] = AllSay(k)
    /\ step \in {"done", "planned"} => \A k \in Settings : cfg[k] = Final(k, AllSay(k))
    /\ step \in {"check", "done", "planned"} => projectDir = Resolve[AllSay("source")]

Inv == LayersInv /\ CfgInv

LEMMA SourceNames == /\ Sources = {"defaults", "system", "user", "project", "process", "cli"}
               /\ "source" \in Settings
  BY SettingsAssumption DEF Sources, Rank

LEMMA InitInv == StartupInit => Inv
  BY SourceNames DEF StartupInit, Init, Inv, LayersInv, CfgInv, Reading, Unread, Silent, EnvSays, Over

LEMMA NextInv == Inv /\ [Next]_vars => Inv'
<1> SUFFICES ASSUME Inv, [Next]_vars PROVE Inv'
  OBVIOUS
<1> USE SourceNames DEF Inv, LayersInv, CfgInv, Reading, Unread
<1>1. CASE parseCLI
  BY <1>1 DEF parseCLI, Keep, EnvSays, Over
<1>2. CASE Version
  BY <1>2 DEF Version
<1>3. CASE applyEnvFile("system", "user")
  BY <1>3 DEF applyEnvFile, Keep, Overlay, EnvSays, Over
<1>4. CASE applyEnvFile("user", "process")
  BY <1>4 DEF applyEnvFile, Keep, Overlay, EnvSays, Over
<1>5. CASE loadProcessEnv
  BY <1>5 DEF loadProcessEnv, Keep, EnvSays, Over
<1>6. CASE LoadProject
  <2>1. PICK file \in Said : /\ layers' = [layers EXCEPT !["project"] = Told(file)]
                             /\ cfg' = Merge(file)
    BY <1>6 DEF LoadProject, Keep
  <2>2. /\ step = "project" /\ step' = "check"
        /\ projectDir' = Resolve[ProjectSource]
    BY <1>6 DEF LoadProject
  <2>3. LayersInv'
    BY <2>1, <2>2 DEF Told
  <2>4. \A k \in Settings : cfg'[k] = AllSay(k)'
    BY <2>1, <2>2 DEF Merge, Overlay, Told, AllSay, EnvSays, Over
  <2>5. ProjectSource = AllSay("source")'
    BY <2>1, <2>2 DEF ProjectSource, Overlay, Told, AllSay, EnvSays, Over
  <2>6. QED BY <2>2, <2>3, <2>4, <2>5
<1>7. CASE NoSource
  BY <1>7 DEF NoSource
<1>8. CASE Check
  BY <1>8 DEF Check, AllSay, EnvSays, Over
<1>9. CASE ReadFails
  BY <1>9 DEF ReadFails
<1>10. CASE UNCHANGED vars
  BY <1>10 DEF vars, EnvSays, AllSay, Over
<1> QED
  BY <1>1, <1>2, <1>3, <1>4, <1>5, <1>6, <1>7, <1>8, <1>9, <1>10 DEF Next

LEMMA PlanKeepsInv == Inv /\ BuildPlan => Inv'
  BY SourceNames DEF Inv, LayersInv, CfgInv, Reading, Unread, BuildPlan, AllSay, EnvSays, Over

LEMMA InvInvariant == StartupSpec => []Inv
<1>1. Inv /\ [StartupNext]_<<vars, plan>> => Inv'
  BY NextInv, PlanKeepsInv DEF StartupNext, vars
<1> QED
  BY InitInv, <1>1, PTL DEF StartupSpec

LEMMA RankOrder ==
  ASSUME NEW l \in Sources, NEW k \in Settings, Wins(l, k), LayersInv
  PROVE  AllSay(k) = layers[l][k]
<1>1. /\ Rank["defaults"] = 0 /\ Rank["system"] = 1 /\ Rank["user"] = 2
      /\ Rank["project"] = 3 /\ Rank["process"] = 4 /\ Rank["cli"] = 5
  BY DEF Rank
<1> QED
  BY <1>1, SourceNames DEF Wins, AllSay, EnvSays, Over, LayersInv

(***************************************************************************)
(* HighestLayerWins: whatever the layers say, the settings the program     *)
(* works with are those of README.md's "Configuration precedence".         *)
(***************************************************************************)
THEOREM PrecedenceHolds == StartupSpec => []HighestLayerWins
<1>1. Inv => HighestLayerWins
  BY RankOrder DEF Inv, CfgInv, HighestLayerWins
<1> QED
  BY InvInvariant, <1>1, PTL

LEMMA FinalSource == \A value : Final("source", value) = Resolve[value]
  BY DEF Final

(***************************************************************************)
(* OwnProjectFile: the source that is looked up before the layers are      *)
(* merged is the one the merge ends up with.                               *)
(***************************************************************************)
THEOREM ProjectFileIsOwn == StartupSpec => []OwnProjectFile
<1>1. Inv => OwnProjectFile
  BY FinalSource, SourceNames DEF Inv, CfgInv, OwnProjectFile
<1> QED
  BY InvInvariant, <1>1, PTL

-----------------------------------------------------------------------------
(* Every setting has a value, and the destination is normalized. *)

HasAll(settings) == Speaks(settings) /\ \A k \in Settings : settings[k] # Unset

ValuesInv ==
    /\ TypeOK
    /\ \A l \in Sources : Speaks(layers[l])
    /\ step \in Reading \cup {"check"} => HasAll(cfg)
    /\ step \in {"done", "planned"} => Normal(cfg["destination"])

LEMMA OverlayHasAll ==
  ASSUME NEW settings, NEW layer, HasAll(settings), Speaks(layer)
  PROVE  HasAll(Overlay(settings, layer))
BY SettingsAssumption DEF HasAll, Speaks, Overlay

LEMMA LayersSpeak ==
  /\ Speaks(Silent) /\ HasAll(Defaults)
  /\ \A file \in Said : Speaks(file) /\ Speaks(Told(file))
<1>1. Speaks(Silent)
  BY SettingsAssumption DEF Speaks, Silent
<1>2. \A file \in Said : Speaks(file)
  BY <1>1, ValuesAssumption DEF Said
<1>3. \A file : Speaks(file) => Speaks(Told(file))
  BY SettingsAssumption DEF Speaks, Told
<1>4. HasAll(Defaults)
  BY ValuesAssumption, SettingsAssumption DEF HasAll
<1>5. QED BY <1>1, <1>2, <1>3, <1>4

\* Check leaves a value for each setting, and accepts only a normal destination.
LEMMA CheckValues ==
  ASSUME ValuesInv, Inv, Check
  PROVE  ValuesInv'
<1>1. /\ HasAll(cfg)
      /\ cfg' = [k \in Settings |-> Final(k, cfg[k])]
      /\ step' \in {"done", "failed"}
      /\ step' = "done" => cfg'["destination"] # Invalid
      /\ UNCHANGED layers
  BY DEF Check, ValuesInv
<1>2. "source" \in Settings /\ "destination" \in Settings
  BY SettingsAssumption
<1>3. cfg["destination"] \in Text /\ cfg["source"] \in DOMAIN Resolve
  BY <1>1, <1>2 DEF HasAll, Speaks
<1>4. Final("destination", cfg["destination"]) = NormalizeRemotePath(cfg["destination"])
  BY DEF Final
<1>5. Final("destination", cfg["destination"]) # Unset
  <2>1. CASE NormalizeRemotePath(cfg["destination"]) = Invalid
    BY <1>4, <2>1, ValuesAssumption
  <2>2. CASE NormalizeRemotePath(cfg["destination"]) # Invalid
    <3>1. Normal(NormalizeRemotePath(cfg["destination"]))
      BY <1>3, <2>2, NormalizedIsNormal
    <3>2. QED BY <1>4, <3>1, ValuesAssumption DEF Normal
  <2>3. QED BY <2>1, <2>2
<1>6. Final("source", cfg["source"]) # Unset
  BY <1>3, ValuesAssumption, FinalSource
<1>7. \A k \in Settings \ {"source", "destination"} : Final(k, cfg[k]) = cfg[k]
  BY DEF Final
<1>8. \A k \in Settings : cfg'[k] # Unset
  BY <1>1, <1>5, <1>6, <1>7 DEF HasAll
<1>9. step' = "done" => Normal(cfg'["destination"])
  BY <1>1, <1>2, <1>3, <1>4, NormalizedIsNormal
<1>10. TypeOK'
  BY <1>1, <1>8 DEF ValuesInv, TypeOK
<1>11. QED BY <1>1, <1>9, <1>10 DEF ValuesInv, Reading, Speaks

LEMMA NextValues == ValuesInv /\ Inv /\ [Next]_vars => ValuesInv'
<1> SUFFICES ASSUME ValuesInv, Inv, [Next]_vars PROVE ValuesInv'
  OBVIOUS
<1>1. layers = [l \in Sources |-> layers[l]]
  BY DEF Inv, LayersInv
<1>2. ASSUME NEW l \in Sources, NEW layer, Speaks(layer), layers' = [layers EXCEPT ![l] = layer]
      PROVE  /\ \A m \in Sources : Speaks(layers'[m])
             /\ DOMAIN layers' = Sources
             /\ \A m \in Sources : DOMAIN layers'[m] = Settings
  <2>1. \A m \in Sources : layers'[m] = IF m = l THEN layer ELSE layers[m]
    BY <1>1, <1>2
  <2>2. DOMAIN layers' = Sources
    BY <1>1, <1>2
  <2>3. QED BY <1>2, <2>1, <2>2 DEF ValuesInv, Speaks
<1>3. HasAll(cfg') => DOMAIN cfg' = Settings /\ \A k \in Settings : cfg'[k] # Unset
  BY DEF HasAll, Speaks
<1>4. ASSUME NEW l \in Sources, NEW layer, Speaks(layer), layers' = [layers EXCEPT ![l] = layer],
             HasAll(cfg'),
             step' \in Reading \cup {"check"}
      PROVE  ValuesInv'
  BY <1>2, <1>3, <1>4 DEF ValuesInv, TypeOK, Reading, HasAll, Speaks
<1>5. ASSUME UNCHANGED <<layers, cfg>>, step' \in {"failed", "version"} PROVE ValuesInv'
  BY <1>5 DEF ValuesInv, TypeOK, Reading, Speaks
<1>6. CASE parseCLI
  <2>1. PICK layer \in Said : layers' = [layers EXCEPT !["cli"] = layer]
    BY <1>6 DEF parseCLI, Keep
  <2>2. Speaks(layer)
    BY LayersSpeak
  <2>3. step' = "system" /\ HasAll(cfg')
    BY <1>6 DEF parseCLI, ValuesInv, Reading, HasAll, Speaks
  <2>4. QED BY <1>4, <2>1, <2>2, <2>3, SourceNames DEF Reading
<1>7. ASSUME NEW l \in {"system", "user"}, NEW next \in {"user", "process"}, applyEnvFile(l, next)
      PROVE  ValuesInv'
  <2>1. PICK layer \in Said : layers' = [layers EXCEPT ![l] = layer] /\ cfg' = Overlay(cfg, layer)
    BY <1>7 DEF applyEnvFile, Keep
  <2>2. Speaks(layer) /\ HasAll(cfg)
    BY <1>7, LayersSpeak DEF applyEnvFile, ValuesInv, Reading
  <2>3. HasAll(cfg') /\ step' = next
    BY <1>7, <2>1, <2>2, OverlayHasAll DEF applyEnvFile
  <2>4. QED BY <1>4, <2>1, <2>2, <2>3, SourceNames DEF Reading
<1>8. CASE loadProcessEnv
  <2>1. PICK layer \in Said : layers' = [layers EXCEPT !["process"] = layer]
    BY <1>8 DEF loadProcessEnv, Keep
  <2>2. Speaks(layer)
    BY LayersSpeak
  <2>3. step' = "project" /\ HasAll(cfg')
    BY <1>8 DEF loadProcessEnv, ValuesInv, Reading, HasAll, Speaks
  <2>4. QED BY <1>4, <2>1, <2>2, <2>3, SourceNames DEF Reading
<1>9. CASE LoadProject
  <2>1. PICK file \in Said : /\ layers' = [layers EXCEPT !["project"] = Told(file)]
                             /\ cfg' = Merge(file)
    BY <1>9 DEF LoadProject, Keep
  <2>2. Speaks(Told(file)) /\ HasAll(cfg) /\ Speaks(layers["process"]) /\ Speaks(layers["cli"])
    BY <1>9, LayersSpeak, SourceNames DEF LoadProject, ValuesInv, Reading
  <2>3. HasAll(cfg') /\ step' = "check"
    BY <1>9, <2>1, <2>2, OverlayHasAll DEF LoadProject, Merge
  <2>4. QED BY <1>4, <2>1, <2>2, <2>3, SourceNames DEF Reading
<1>10. CASE Version \/ NoSource \/ ReadFails
  BY <1>5, <1>10 DEF Version, NoSource, ReadFails
<1>11. CASE Check
  BY <1>11, CheckValues
<1>12. CASE UNCHANGED vars
  BY <1>12 DEF vars, ValuesInv, TypeOK, HasAll, Speaks
<1>13. QED BY <1>6, <1>7, <1>8, <1>9, <1>10, <1>11, <1>12 DEF Next

LEMMA ValuesInvariant == StartupSpec => []ValuesInv
<1>1. StartupInit => ValuesInv
  <2> SUFFICES ASSUME StartupInit PROVE ValuesInv
    OBVIOUS
  <2>1. /\ step = "cli" /\ cfg = Defaults
        /\ layers = [l \in Sources |-> IF l = "defaults" THEN Defaults ELSE Silent]
    BY DEF StartupInit, Init
  <2>2. \A l \in Sources : Speaks(layers[l])
    BY <2>1, LayersSpeak DEF HasAll
  <2>3. QED BY <2>1, <2>2, LayersSpeak DEF ValuesInv, TypeOK, HasAll, Speaks
<1>2. ValuesInv /\ BuildPlan => ValuesInv'
  BY DEF BuildPlan, ValuesInv, TypeOK, HasAll, Speaks, Reading
<1>3. ValuesInv /\ Inv /\ [StartupNext]_<<vars, plan>> => ValuesInv'
  BY <1>2, NextValues DEF StartupNext, vars
<1>4. QED BY <1>1, <1>3, InvInvariant, PTL DEF StartupSpec

\* Whatever the layers leave out, and whatever Resolve and NormalizeRemotePath make of
\* source and destination, no setting is ever without a value.
THEOREM SettingsHaveValues == StartupSpec => []TypeOK
<1>1. ValuesInv => TypeOK
  BY DEF ValuesInv
<1>2. QED BY <1>1, ValuesInvariant, PTL

-----------------------------------------------------------------------------
(* The first plan. *)

Entries == tree.files \cup tree.bare
ToUpload == Desired(Include, Declarations, Ignore, tree.files)

PlanInv ==
    step = "planned" =>
        /\ tree \in Trees
        /\ \/ /\ desired = Invalid
              /\ WalkFails(Ignore, Entries) \/ \E p \in ToUpload : Refused(p)
           \/ /\ desired = ToUpload
              /\ ~WalkFails(Ignore, Entries) /\ \A p \in ToUpload : ~Refused(p)
              /\ \E names \in Remotes :
                    deletes = BuildDeletes(cfg["destination"], Include, Declarations, ToUpload, names)

LEMMA PlanInvariant == StartupSpec => []PlanInv
<1>1. StartupInit => PlanInv
  BY DEF StartupInit, Init, PlanInv
<1>2. BuildPlan => PlanInv'
  BY DEF BuildPlan, PlanInv, Entries, ToUpload, Include, Ignore, Refused
<1>3. PlanInv /\ [Next]_vars /\ UNCHANGED plan => PlanInv'
  <2> SUFFICES ASSUME PlanInv, [Next]_vars, UNCHANGED plan PROVE PlanInv'
    OBVIOUS
  <2>1. CASE UNCHANGED vars
    BY <2>1 DEF vars, plan, PlanInv, Entries, ToUpload, Include, Ignore, Refused
  <2>2. CASE Next
    <3>1. step' # "planned"
      BY <2>2 DEF Next, parseCLI, Version, applyEnvFile, loadProcessEnv, LoadProject, NoSource,
                  Check, ReadFails
    <3>2. QED BY <3>1 DEF PlanInv
  <2>3. QED BY <2>1, <2>2
<1>4. PlanInv /\ [StartupNext]_<<vars, plan>> => PlanInv'
  BY <1>2, <1>3 DEF StartupNext
<1>5. QED BY <1>1, <1>4, PTL DEF StartupSpec

\* The files of a plan are files of the tree that no pattern ignores.
LEMMA PlannedFiles ==
  ASSUME tree \in Trees, ~WalkFails(Ignore, Entries)
  PROVE  /\ ToUpload = {p \in tree.files : ~ignoredPath(Ignore, p) /\ Match(Include, Declarations, p)}
         /\ \A p \in ToUpload : Normal(p) /\ p # <<>>
<1>1. \A p \in tree.files : Normal(p) /\ p # <<>>
  BY TreesAssumption
<1>2. ~WalkFails(Ignore, tree.files)
  BY WalkFailsForMore DEF Entries
<1>3. WalkSource(Ignore, tree.files) = {p \in tree.files : ~ignoredPath(Ignore, p)}
  BY <1>1, <1>2, WalkFinds
<1>4. QED BY <1>1, <1>3 DEF ToUpload, Desired

\* The watcher lets an event of a file through exactly if a full pass would upload
\* the file, for any patterns: the two decide in different ways, one by the ignored
\* directories on the path, the other by not entering them.
THEOREM EventsFollowWalk == StartupSpec => []EventsAgreeWithWalk
<1>1. PlanInv => EventsAgreeWithWalk
  BY PlannedFiles DEF PlanInv, EventsAgreeWithWalk
<1>2. QED BY <1>1, PlanInvariant, PTL

\* A destination that was accepted at startup lets every tree be planned, but for
\* names like C:.
THEOREM DestinationServes == StartupSpec => []AcceptedDestinationServes
<1>1. PlanInv /\ ValuesInv => AcceptedDestinationServes
  <2> SUFFICES ASSUME PlanInv, ValuesInv, step = "planned", desired = Invalid
               PROVE  Drivelike(cfg["destination"]) \/ \E p \in Entries : Drivelike(p)
    BY DEF AcceptedDestinationServes, Entries
  <2>1. tree \in Trees /\ \A p \in Entries : Normal(p) /\ p # <<>>
    BY TreesAssumption DEF PlanInv, Entries
  <2>2. CASE WalkFails(Ignore, Entries)
    BY <2>1, <2>2, WalkFailsForDrive
  <2>3. CASE ~WalkFails(Ignore, Entries)
    <3>1. ToUpload \in SUBSET tree.files /\ tree.files \subseteq Entries
      BY <2>1, <2>3, PlannedFiles DEF Entries
    <3>2. desired # ToUpload
      BY <2>1, <3>1, TreesAssumption
    <3>3. PICK p \in ToUpload : Refused(p)
      BY <2>3, <3>2 DEF PlanInv
    <3>4. Normal(cfg["destination"]) /\ Normal(p) /\ p # <<>>
      BY <2>1, <3>1 DEF ValuesInv
    <3>5. Drivelike(cfg["destination"]) \/ Drivelike(p)
      <4>1. SUFFICES ASSUME ~Drivelike(cfg["destination"]), ~Drivelike(p) PROVE FALSE
        OBVIOUS
      <4>2. /\ JoinDestinationFile(cfg["destination"], p) = cfg["destination"] \o p
            /\ Normal(cfg["destination"] \o p)
        BY <3>4, <4>1, JoinLeadsBack, JoinedIsInside
      <4>3. QED BY <3>3, <4>2, InvalidAssumption DEF Refused, Normal
    <3>6. QED BY <3>1, <3>5
  <2>4. QED BY <2>2, <2>3
<1>2. QED BY <1>1, PlanInvariant, ValuesInvariant, PTL

\* The names that files are uploaded under lead back to them, so that no two files
\* share one, and no file that is wanted is deleted.
THEOREM UploadsLeadBack == StartupSpec => []UploadsAreRecognised
<1>1. PlanInv /\ ValuesInv => UploadsAreRecognised
  <2> DEFINE dest == cfg["destination"]
             relative(remote) == RelativeToDestination(dest, remote)
  <2> SUFFICES ASSUME PlanInv, ValuesInv, step = "planned", desired # Invalid
               PROVE  /\ \A p \in desired : relative(JoinDestinationFile(dest, p)) = p
                      /\ \A remote \in deletes : /\ relative(remote) \notin desired
                                                 /\ relative(remote) = Invalid => Drivelike(remote)
    BY DEF UploadsAreRecognised
  <2>1. /\ tree \in Trees /\ desired = ToUpload
        /\ ~WalkFails(Ignore, Entries) /\ \A p \in ToUpload : ~Refused(p)
    BY DEF PlanInv
  <2>2. Normal(dest)
    BY DEF ValuesInv
  <2>3. \A p \in desired : Normal(p) /\ p # <<>> /\ p # Invalid
    BY <2>1, PlannedFiles, InvalidAssumption DEF Normal
  <2>4. \A p \in desired : JoinDestinationFile(dest, p) = dest \o p /\ relative(dest \o p) = p
    <3> SUFFICES ASSUME NEW p \in desired
                 PROVE  JoinDestinationFile(dest, p) = dest \o p /\ relative(dest \o p) = p
      OBVIOUS
    <3>1. JoinDestinationFile(dest, p) # Invalid
      BY <2>1 DEF Refused
    <3>2. QED BY <2>2, <2>3, <3>1, JoinLeadsBack
  <2>5. ASSUME NEW remote \in deletes
        PROVE  relative(remote) \notin desired /\ (relative(remote) = Invalid => Drivelike(remote))
    <3>1. PICK names \in Remotes :
             deletes = BuildDeletes(dest, Include, Declarations, ToUpload, names)
      BY <2>1 DEF PlanInv
    <3>2. PICK name \in names : /\ remote = NormalizeRemoteFilePath(name)
                               /\ RelativeToDestination(dest, name) # Invalid
      BY <2>5, <3>1 DEF BuildDeletes
    <3>3. remote \notin {JoinDestinationFile(dest, p) : p \in desired}
      BY <2>1, <2>5, <3>1 DEF BuildDeletes
    <3>4. name \in Text
      BY TreesAssumption
    <3>5. CASE Drivelike(remote)
      <4>1. relative(remote) = Invalid
        BY <2>2, <3>2, <3>4, <3>5, RemoteLeadsBack
      <4>2. QED BY <2>3, <3>5, <4>1
    <3>6. CASE ~Drivelike(remote)
      <4>1. relative(remote) \in Text /\ remote = dest \o relative(remote)
        BY <2>2, <3>2, <3>4, <3>6, RemoteLeadsBack
      <4>2. relative(remote) # Invalid
        BY <4>1, InvalidAssumption
      <4>3. relative(remote) \notin desired
        BY <2>4, <3>3, <4>1
      <4>4. QED BY <4>2, <4>3
    <3>7. QED BY <3>5, <3>6
  <2>6. QED BY <2>4, <2>5
<1>2. QED BY <1>1, PlanInvariant, ValuesInvariant, PTL
=============================================================================
