------------------------------ MODULE Metadata ------------------------------
(***************************************************************************)
(* The metadata writer of internal/pkg/build/metadata.go, followed over a  *)
(* lineage of builds of one image: every build starts from the previous    *)
(* image (a --update of a sandbox, or a localimage bootstrap), runs        *)
(* stage.insertMetadata on the bundle's rootfs, and the result becomes the *)
(* image only if the rest of the build succeeds.                           *)
(*                                                                         *)
(* File contents are abstracted to their provenance: a label value or a    *)
(* script is the number of the build that wrote it and the source it came  *)
(* from.  Build-date formatting, JSON encoding and shebang handling are    *)
(* left out: no property here tells their outputs apart.                   *)
(***************************************************************************)
EXTENDS Integers, SequencesExt, FiniteSets

CONSTANTS
    UserKeys,     \* label keys a recipe or APPTAINER_LABELS may use
    MaxBuilds,    \* builds in the lineage
    RecipeKeys,   \* the label keys recipes declare, a subset of Keys
    SectionChoices \* the --section selections builds are run with

ASSUME MaxBuilds \in Nat \ {0}

\* The keys addBuildLabels sets: "auto" stands for the ones it always sets
\* (schema-version, build-date, version, build-arch), "usage" for the help
\* keys and "deffile" for the org.label-schema.usage.singularity.deffile.*
\* keys.
AutoKeys == {"auto", "usage", "deffile"}
Keys     == UserKeys \cup AutoKeys
Builds   == 1..MaxBuilds
HistIdx  == 0..MaxBuilds

\* The --section values that select metadata sections.
MetaSections == {"help", "labels", "environment", "runscript"}

ASSUME RecipeKeys \subseteq Keys /\ SectionChoices \subseteq SUBSET MetaSections

Sources == {"base", "buildfile", "auto", "recipe"}
NoVal   == [src |-> "none", b |-> 0]
Vals    == [src : Sources, b : 0..MaxBuilds] \cup {NoVal}

\* The metadata part of a rootfs: runscript.help, labels.json,
\* .build.labels, Singularity, bootstrap_history/, 90-environment.sh and the
\* run/start/test scripts.  0 means the file is absent.
Rootfs == [help : 0..MaxBuilds, labels : [Keys -> Vals],
           buildLabels : SUBSET UserKeys, hasBuildLabels : BOOLEAN,
           singularity : 0..MaxBuilds, history : [HistIdx -> 0..MaxBuilds],
           env : Seq(Builds), scripts : 0..MaxBuilds]

VARIABLES
    image,      \* the metadata of the last image of the lineage
    rootfs,     \* the bundle rootfs of the build in progress
    n,          \* number of the current (or last) build
    opts,       \* Opts of the build: update, force, sections
    recipe,     \* the recipe: help, environment, labels it declares
    pc,         \* the step of insertMetadata, or "idle" between builds
    committed   \* builds whose result became the image

vars == <<image, rootfs, n, opts, recipe, pc, committed>>

Steps == {"idle", "help", "labels", "definition", "env", "scripts", "inspect",
          "finish"}

TypeOK ==
    /\ image \in Rootfs /\ rootfs \in Rootfs
    /\ n \in 0..MaxBuilds
    /\ opts \in [update : BOOLEAN, force : BOOLEAN, sections : SUBSET MetaSections]
    /\ recipe \in [help : BOOLEAN, env : BOOLEAN, run : BOOLEAN, labels : SUBSET Keys]
    /\ pc \in Steps
    /\ committed \subseteq Builds

NoOpts   == [update |-> FALSE, force |-> FALSE, sections |-> MetaSections]
NoRecipe == [help |-> FALSE, env |-> FALSE, run |-> FALSE, labels |-> {}]

\* The base image may carry a labels.json with any of the user keys, and
\* with the automatic ones if an earlier build wrote it.
BaseLabels ==
    {[k \in Keys |-> IF k \in ks THEN [src |-> "base", b |-> 0] ELSE NoVal] :
        ks \in {u \cup a : u \in SUBSET UserKeys, a \in {{}, AutoKeys}}}

Init ==
    /\ image \in {[help |-> 0, labels |-> l, buildLabels |-> {},
                   hasBuildLabels |-> FALSE, singularity |-> 0,
                   history |-> [i \in HistIdx |-> 0], env |-> <<>>,
                   scripts |-> 0] : l \in BaseLabels}
    /\ rootfs = image
    /\ n = 0
    /\ opts = NoOpts
    /\ recipe = NoRecipe
    /\ pc = "idle"
    /\ committed = {}

\* Bundle.RunSection: the section was selected with --section (all by default).
RunSection(s) == s \in opts.sections

Val(src) == [src |-> src, b |-> n]

\* Between builds nothing of the last build is kept but the image.
EndBuild ==
    /\ pc' = "idle"
    /\ rootfs' = image'
    /\ opts' = NoOpts
    /\ recipe' = NoRecipe

\* A step of insertMetadata: it either does its work and moves on, or
\* returns an error that aborts the build; the bundle is then discarded.
Fail == UNCHANGED <<image, n, committed>> /\ EndBuild

Advance(to) == pc' = to /\ UNCHANGED <<image, n, opts, recipe, committed>>

-----------------------------------------------------------------------------
(* A build of the lineage: its bundle starts as a copy of the image, and   *)
(* the %post script may leave a .build.labels file (APPTAINER_LABELS).     *)
BuildStart ==
    /\ pc = "idle"
    /\ n < MaxBuilds
    /\ n' = n + 1
    /\ \E o \in [update : BOOLEAN, force : BOOLEAN, sections : SectionChoices],
          r \in [help : BOOLEAN, env : BOOLEAN, run : BOOLEAN, labels : SUBSET RecipeKeys],
          bl \in {<<FALSE, {}>>} \cup {<<TRUE, ks>> : ks \in SUBSET UserKeys} :
         /\ opts' = o
         /\ recipe' = r
         /\ rootfs' = [image EXCEPT !.hasBuildLabels = bl[1], !.buildLabels = bl[2]]
    /\ pc' = "help"
    /\ UNCHANGED <<image, committed>>

\* insertHelpScript: runscript.help is written when the recipe has help,
\* unless the file exists and --force is not given.
InsertHelpScript ==
    /\ pc = "help"
    /\ \/ /\ RunSection("help") /\ recipe.help
          /\ rootfs.help = 0 \/ opts.force
          /\ \/ rootfs' = [rootfs EXCEPT !.help = n] /\ Advance("labels")
             \/ Fail
       \/ /\ ~(RunSection("help") /\ recipe.help /\ (rootfs.help = 0 \/ opts.force))
          /\ UNCHANGED rootfs /\ Advance("labels")

-----------------------------------------------------------------------------
(* insertLabelsJSON: the labels map is built from four sources in order,   *)
(* each later one applied over the earlier ones.                           *)

\* Mutant: the existing labels.json is not read.
ExistingLabelsIgnored(r) == [k \in Keys |-> NoVal]

\* getExistingLabels: the labels.json already in the rootfs.
ExistingLabels(r) == r.labels

\* The .build.labels file left by %post overwrites every key it names.
FromBuildFile(l, r) ==
    IF r.hasBuildLabels
       THEN [k \in Keys |-> IF k \in r.buildLabels THEN Val("buildfile") ELSE l[k]]
       ELSE l

\* addBuildLabels overwrites the keys it sets.
AddBuildLabels(l) ==
    [k \in Keys |->
        IF \/ k = "auto"
           \/ k = "usage" /\ RunSection("help") /\ recipe.help
           \/ k = "deffile" /\ (~opts.update \/ opts.force)
           THEN Val("auto") ELSE l[k]]

\* Mutant: the recipe labels are collected into a new map that replaces
\* the merged one.
RecipeLabelsNewMap(l) ==
    IF RunSection("labels") /\ recipe.labels # {}
       THEN [k \in recipe.labels |-> IF l[k] = NoVal \/ opts.force
                                     THEN Val("recipe") ELSE l[k]]
       ELSE l

\* Recipe labels are set when the key is absent, or over it under --force.
RecipeLabels(l) ==
    IF RunSection("labels") /\ recipe.labels # {}
       THEN [k \in Keys |-> IF k \in recipe.labels /\ (l[k] = NoVal \/ opts.force)
                               THEN Val("recipe") ELSE l[k]]
       ELSE l

InsertLabelsJSON ==
    /\ pc = "labels"
    /\ \/ /\ rootfs' = [rootfs EXCEPT
                 !.labels = RecipeLabels(AddBuildLabels(
                                FromBuildFile(ExistingLabels(rootfs), rootfs))),
                 !.hasBuildLabels = FALSE, !.buildLabels = {}]
          /\ Advance("definition")
       \/ Fail   \* labels.json unreadable, .build.labels unremovable, write error

-----------------------------------------------------------------------------
\* insertDefinition: an existing Singularity file is renamed into
\* bootstrap_history under "Apptainer" and the number of files already
\* there (os.Rename replaces a file of that name); then FullRaw is written.
HistFiles(r) == {i \in HistIdx : r.history[i] # 0}

\* Mutant: the index is one less than the number of files.
HistNameOneLess(files) == Cardinality(files) - 1

HistName(files) == Cardinality(files)

InsertDefinition ==
    /\ pc = "definition"
    /\ \/ /\ rootfs' =
               [rootfs EXCEPT
                  !.history = IF rootfs.singularity # 0
                                 THEN [@ EXCEPT ![HistName(HistFiles(rootfs))]
                                                  = rootfs.singularity]
                                 ELSE @,
                  !.singularity = n]
          /\ Advance("env")
       \/ Fail

\* insertEnvScript: 90-environment.sh (the empty sequence when absent) is
\* written with a shebang and the script when os.Stat finds no file, and
\* opened with O_APPEND and appended to otherwise.
EnvCreate(e) == <<n>>
EnvAppend(e) == Append(e, n)

InsertEnvScript ==
    /\ pc = "env"
    /\ \/ /\ RunSection("environment") /\ recipe.env
          /\ \/ /\ rootfs.env = <<>>
                /\ rootfs' = [rootfs EXCEPT !.env = EnvCreate(@)] /\ Advance("scripts")
             \/ /\ rootfs.env # <<>>
                /\ rootfs' = [rootfs EXCEPT !.env = EnvAppend(@)] /\ Advance("scripts")
             \/ Fail
       \/ /\ ~(RunSection("environment") /\ recipe.env)
          /\ UNCHANGED rootfs /\ Advance("scripts")

\* insertRunScript: when the runscript section is selected and the recipe
\* has one, the runscript is written over the previous one.  The start and
\* test scripts, written the same way, are not modelled.
InsertRunScript ==
    /\ pc = "scripts"
    /\ \/ /\ RunSection("runscript") /\ recipe.run
          /\ \/ rootfs' = [rootfs EXCEPT !.scripts = n] /\ Advance("inspect")
             \/ Fail
       \/ /\ ~(RunSection("runscript") /\ recipe.run)
          /\ UNCHANGED rootfs /\ Advance("inspect")

\* insertJSONInspectMetadata runs "apptainer inspect --all" on the rootfs.
InsertJSONInspectMetadata ==
    /\ pc = "inspect"
    /\ \/ UNCHANGED rootfs /\ Advance("finish")
       \/ Fail

\* The rest of Full (%test, later stages, the assembler) succeeds and the
\* rootfs becomes the image, or fails and the bundle is discarded.
Finish ==
    /\ pc = "finish"
    /\ \/ /\ image' = rootfs
          /\ committed' = committed \cup {n}
          /\ EndBuild
          /\ UNCHANGED n
       \/ Fail

Next ==
    \/ BuildStart \/ InsertHelpScript \/ InsertLabelsJSON \/ InsertDefinition
    \/ InsertEnvScript \/ InsertRunScript \/ InsertJSONInspectMetadata \/ Finish

Spec == Init /\ [][Next]_vars

-----------------------------------------------------------------------------
(* Properties.                                                             *)

\* Label precedence (spec section 8, property 3): once insertLabelsJSON has
\* run, every non-automatic recipe label holds the value labels.json had
\* before the build if the key was there and --force was not given, and
\* the recipe's value otherwise.
LabelPrecedence ==
    pc \in {"definition", "env", "scripts", "inspect", "finish"}
    /\ RunSection("labels")
    => \A k \in recipe.labels \ AutoKeys :
         rootfs.labels[k] = IF image.labels[k] # NoVal /\ ~opts.force
                               THEN image.labels[k] ELSE Val("recipe")

\* A label of the image survives every later build of the lineage: a
\* build may change a value but never drops a key from labels.json.
LabelsNeverDropped ==
    [][committed' # committed =>
         \A k \in Keys : image.labels[k] # NoVal => image'.labels[k] # NoVal]_vars

\* The definition of every build that became the image is still in the
\* image: as Singularity or in bootstrap_history.
DefinitionHistoryKept ==
    \A b \in committed :
        image.singularity = b \/ \E i \in HistIdx : image.history[i] = b
====
