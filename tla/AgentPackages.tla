--------------------------- MODULE AgentPackages ---------------------------
(***************************************************************************)
(* The files of an agent package: what the generator writes from a brief   *)
(* (foundry/generator.py, schemas/agent_package.py) and what the validator *)
(* finds in them (foundry/validator.py).                                   *)
(*                                                                         *)
(* A package is a function from file names to contents, of one agent.  Of  *)
(* the ten files the five are kept in which a maturity, a depth or the     *)
(* outcome of an evaluation is written; CONTRACT.md, SOUL.md and the rest  *)
(* are written beside SKILL.md and say the same in every generation.       *)
(*                                                                         *)
(* A brief is a record: approved, the agent's depth and escalation target, *)
(* and the depths of the transitions the agent owns.                       *)
(***************************************************************************)
EXTENDS Integers, Sequences, FiniteSets

Maturities == <<"draft", "tested", "validated">>

Skill    == "SKILL.md"
Capsule  == "process_capsule.yaml"
Evals    == "evals.yaml"
Log      == "learning_log.md"
Manifest == "manifest.json"

\* PACKAGE_FILES, in the order the generator writes them.
PackageFiles == <<Skill, Capsule, Evals, Log, Manifest>>
FileNames    == {PackageFiles[i] : i \in DOMAIN PackageFiles}

Absent    == [content |-> "absent"]
Truncated == [content |-> "truncated"]   \* a write that did not get to the end
Readable(text) == text \notin {Absent, Truncated}

(***************************************************************************)
(* The generator.                                                          *)
(***************************************************************************)
\* Two of the numbered directories make a C-Pax workspace.
WorkspaceProfile(workspace) ==
    IF workspace.markers >= 2 THEN "c-pax" ELSE "generic"

\* generate_packages refuses, and says why, before it touches a package.
Buildable(brief, workspace, explicit_paths) ==
    /\ brief.approved
    /\ brief.depth_level # 5
    /\ WorkspaceProfile(workspace) = "c-pax" => workspace.doctrine
    /\ WorkspaceProfile(workspace) = "generic" => explicit_paths
    /\ brief.owned # <<>>

\* Routine transitions are rules; the others are worked at the agent's depth.
StepDepths(brief) ==
    [i \in DOMAIN brief.owned |-> IF brief.owned[i] = "ROUTINE" THEN 0 ELSE brief.depth_level]

BuildCapsule(brief) ==
    [maturity |-> "draft", depth_level |-> brief.depth_level,
     steps |-> StepDepths(brief), targets |-> {brief.escalation_target}]

\* What one generation puts into every file.
Generated(brief) ==
    [f \in FileNames |->
        CASE f \in {Skill, Manifest} -> [maturity |-> "draft", depth_level |-> brief.depth_level]
          [] f = Capsule -> BuildCapsule(brief)
          [] f = Evals   -> [overall |-> "pending"]
          [] f = Log     -> [promotions |-> <<>>]]

(***************************************************************************)
(* The validator: the findings, by name.                                   *)
(***************************************************************************)
MissingFiles(pkg) == {<<"missing", f>> : f \in {x \in FileNames : pkg[x] = Absent}}

\* The schema of a capsule: no step above the agent's depth.
CapsuleHolds(capsule) ==
    /\ Readable(capsule)
    /\ \A i \in DOMAIN capsule.steps : capsule.steps[i] <= capsule.depth_level

Unparsed(pkg) ==
    {<<"invalid", f>> : f \in {x \in {Skill, Manifest} : ~Readable(pkg[x])}}
    \cup (IF CapsuleHolds(pkg[Capsule]) THEN {} ELSE {<<"invalid", Capsule>>})

\* A depth or a maturity must be the same wherever it is declared.
Disagreements(pkg) ==
    IF Unparsed(pkg) # {} THEN {}
    ELSE {<<"disagrees", key>> : key \in
            {k \in {"maturity", "depth_level"} :
                ~\A f, g \in {Skill, Capsule, Manifest} : pkg[f][k] = pkg[g][k]}}

\* Beyond draft the evals must say that they pass.
UnprovenMaturity(pkg) ==
    IF Readable(pkg[Evals])
    THEN IF /\ Readable(pkg[Manifest])
            /\ pkg[Manifest].maturity # "draft"
            /\ pkg[Evals].overall # "pass"
         THEN {<<"unproven", Evals>>} ELSE {}
    ELSE {<<"mandatory checks missing", Evals>>}

ValidatePackage(pkg) ==
    IF MissingFiles(pkg) # {} THEN MissingFiles(pkg)
    ELSE Unparsed(pkg) \cup Disagreements(pkg) \cup UnprovenMaturity(pkg)
=============================================================================
