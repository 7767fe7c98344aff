# TLA+ models of the Apptainer build engine

This directory holds TLA+ specifications of the image build engine in this
repository, together with the TLC configurations that check them. The engine
turns a recipe (definition file) into a SIF image or a sandbox directory. It
parses the recipe, runs every stage in order, writes the image metadata, and
mounts images through FUSE helper processes when it runs unprivileged.
`PROJECT.json` lists the components, the runs, the mutants, the mapping from
every TLA+ definition to the source lines it models, the findings and the
hazards.

## The system and how its parts interact

| Part | Source | Role |
|---|---|---|
| Recipe parser | `src/unnamed/part_002` (Go, package `parser`) | scans a recipe into a header and `%sections`, splits multi-stage files on `Bootstrap:` lines, validates headers and sections |
| Stage runner / orchestrator | `src/internal/pkg/build/build.go` | `newBuild` creates one bundle (temp dir) per stage, a conveyor packer and the assembler; `Full` runs every stage's steps in order, assembles the last stage into Dest, and removes the bundles with `cleanUp`; a signal goroutine runs `cleanUp` and `os.Exit(1)` on SIGINT/SIGTERM |
| Metadata writer | `src/internal/pkg/build/metadata.go` | `insertMetadata`, one of the stage steps: help, labels.json, the Singularity definition and bootstrap_history, the environment script, the run/start/test scripts, the inspect JSON |
| FUSE driver host | `src/internal/pkg/image/driver/squashfuse/driver.go`, `.../overlayfsfuse/driver.go`, `src/unnamed/part_003` (fuseapps) | registers the squashfuse and fuse-overlayfs drivers and the fuseapps driver on top of them; `Mount` starts a helper process and polls `/proc/self/mountinfo` every 25 ms for 2 s; `Stop` kills the helper |

The parser produces the definitions that `newBuild` takes. The orchestrator
calls the metadata writer once per stage. When the build is unprivileged, the
assemblers and the packers mount images through the image driver. The
conveyor packers, the assemblers, the apps plugin and the `types` package
(`Bundle`, `Definition`) are not under `src/`. Bundles and the packers,
assemblers and plugin appear in the models only as steps that succeed or
fail. The fields of a `Definition` that the parser fills (header, scripts,
custom sections, `%files`, app order) are the record that `Parser` builds.

## Modules

### `BuildStages` (build.go): `MCBuildStages`, `BuildStages*.cfg`

**State.**
- `conf`: the Config and its options (update, force, NoCleanUp, image cache, format, and whether each definition has a header).
- `pc` and `cur`: the main goroutine's position and stage index.
- `bundle`: the bundle dir of each stage: none, present, removed, or failed (a `Remove` that failed, which `cleanUp` only logs, so the dir stays on disk).
- `session` and `deferred`: the session copies of `/etc/resolv.conf` and `/etc/hosts` on disk, and those whose `os.Remove` Full has deferred. `conf.binds` says which of the two files a `--bind` covers (`haveBindFor`).
- `hasConveyor`: whether `stage.c` is set.
- `attempt` and `lastGet`: the conveyor retry loop.
- `done`: the stages whose `%test` has passed.
- `umask`.
- `result`: what `Full` returns.
- `cidx` and `hidx`: the loop indices of the two `cleanUp` calls.
- `handler`: the signal goroutine.
- `proc`: whether the process is running, exited, killed or crashed.
- `sigs` and `dest`.

**Actions.**
- One action per loop iteration of `newBuild` (`NewStage`), plus `NewAssembler`.
- `FullStart`: `signal.Notify`, the goroutine, the deferred cleanUp and the umask.
- One action per step of the stage loop body, in the order of the code: `RunPre`, `Pack`, `ConveyorGet` (the retry loop), `ConveyorPack`, `RunApps`, `CopyFilesFrom`, `RunSetup`, `CopyFiles`, `CreateResolv` and `CreateHosts` (the two `createStageFile` calls, each skipped under a bind, each making a copy, finding no host file, or failing), `RunPost`, `InsertMetadata` and `RunTest`.
- `RestoreUmask` and `Assemble`.
- `RunDefers`: on every return and on a panic, the deferred `os.Remove` calls of the session files run first, since they were deferred after `cleanUp`.
- The deferred `cleanUp`, one bundle per step (`CleanUpStep`), then `EndFull`.
- For the signal goroutine: `Signal` (delivery) and `HandlerCleanUp`.

Every step either succeeds or makes `Full` return an error. A nil conveyor
makes `ConveyorGet` panic. The panic still runs the deferred cleanUp and then
crashes the process.

**Refinement.** `StagePipeline` is the abstract promise of the build: stages
pass one after the other (`PassStage`), the image is built only once all have
passed (`Build`), the build may fail or be cancelled at any point (`Fail`), and
it ends. `BuildStages` maps onto it with `passed <- done` and `outcome <-
PipelineOutcome`: "built" once Dest is written, "failed" once newBuild or Full
returned an error or the process is gone, else "running". Every other step of
`BuildStages` is a stuttering step of the pipeline. `ImplementsStagePipeline`
(`Pipeline!Spec`) is checked as a PROPERTY of `build_core`.

### `Parser` (part_002): `MCParser`, `Parser*.cfg`

A recipe is a sequence of abstract lines. A line is a record with these fields:
- the kind the parser tells apart: blank, comment, `key: value`, `key:` with an empty value, text without a colon, or a `%section` line;
- the key word or section name;
- the section's second word;
- whether the line ends in a backslash.

The parser's functions become operators over these lines, and their loops
become folds:
- `Tokens` (`scanDefinitionFile`);
- `DoHeader` with `HeaderLine`, one iteration of `doHeader`'s loop. It keeps `keyCont`/`valCont`, the nil-map panic, the "had no val" and "invalid header keyword" errors, and the `\d+$` -> `&n` fold through the `Folded` table.
- `TokenSection` (`parseTokenSection`), with the `%files` merge by args, the app-name check and `+=` on scripts;
- `Populate` (`populateDefinition` and `isEmpty`);
- `DoSections` (only the first token is trimmed);
- `ParseDefinitionFile`;
- `SplitBuf` (All's backward split at the `^bootstrap:` matches).

All's loop over the slices is the state machine:
- `SkipEmptyChunk`;
- `ParseStage`, which keeps a Definition, skips an empty one, or stops at an error or a panic;
- `Finish`, which ends with "no stages found" or the stages.

`RefAll`/`RefParseOne` restate the grammar of spec.md sections 3 and 4.A without
the code's loops. They use slices between section lines, header entries with
their continuations, concatenated scripts, merged files blocks and apps in
first-appearance order. The properties compare All with them.

### `FuseDriver` (the three driver files): `MCFuseDriver`, `FuseDriver*.cfg`

**State.**
- The configuration: the `register` and `unprivileged` arguments of `InitImageDrivers`, the configured image driver, and which helper binaries are found. With `register` false the sub-drivers' `Init` report them active without registering them, while fuseapps is still registered.
- The driver registry.
- The sub-driver fields that fuseapps binds in `Features`, and the feature bits (`image`, `overlay`) that its last `Features` call returned.
- `cmd`: the helper each driver's `d.cmd` refers to.
- The helper processes: running, exited (a zombie), killed, or reaped, with their target and whether their mount appeared.
- The mountinfo table.
- The Mount call in progress, with its poll tick.
- The last result.

**Actions.**
- `InitImageDrivers`; `Features`, which binds the registered sub-drivers and ORs their `Features` (`SquashFeatures`, `OverlayFeatures`).
- A caller may call Mount before or after Features.
- `MountCall`: the fuseapps dispatch and the start of the sub-driver's Mount.
- `DriverPoll` / `OverlayPoll`: one iteration of the poll loop (sleep, `Slept` advancing `totTime`, signal 0, the mountinfo scan), with the helper-failed, success and timeout returns.
- `MountinfoFails`: an iteration whose read of mountinfo fails, so `d.Stop()` is called and an error is returned. It is an action of its own so that the fairness of the poll loop does not force a read failure.
- `FuseappsStop`: the fan-out to `SquashStop` and then `OverlayStop` (each driver's `Stop`, which kills the process its `d.cmd` refers to) for the sub-drivers that Features bound.
- The helpers' own steps: `HelperMounts` and `HelperExits`. A helper may mount its target or exit at any moment.

`Start` is a no-op in both drivers and is left out.

### `Metadata` (metadata.go): `MCMetadata`, `Metadata*.cfg`

The module follows a lineage of builds of one image. Each build starts from
the previous image: a `--update` of a sandbox, or a localimage bootstrap. A
build may leave a `.build.labels` file from `%post`, then runs
`insertMetadata`. The result becomes the image only if the rest of the build
succeeds.

The rootfs is abstracted to the files the writer touches. A value or a
script is recorded as the build that wrote it and the source it came from.

The actions are:
- `BuildStart`;
- one action per insert function, in the order `insertMetadata` calls them, each with its error return and its `RunSection` check; `InsertEnvScript` has the create branch (no script yet, `EnvCreate`) and the `O_APPEND` branch (`EnvAppend`); `InsertRunScript` models the runscript only, the start and test scripts are left out;
- `Finish`: the rest of `Full` succeeds or fails.

In `BuildStages`, `RemoveBundle` removes a bundle or fails; `cleanUp` logs the failure and goes on, so the dir stays on disk.

The labels map is the composition of four operators, in the code's order:
1. `ExistingLabels`;
2. `FromBuildFile`;
3. `AddBuildLabels`;
4. `RecipeLabels`.

## Runs

| Run | What it checks | Result |
|---|---|---|
| `build_core` (`BuildStages.cfg`) | `TypeOK`; `NoBundleLeftAfterFull`: once Full started, however it ends (error, success, panic, handler exit), cleanUp has tried to remove every bundle unless NoCleanUp (a failed removal is only logged, as in the code); `SessionFilesRemoved`: when Full has returned (or panicked), every session file is gone; `ImplementsStagePipeline`: Full refines `StagePipeline`, so stages pass in order, Dest is written only after every stage passed `%test`, and the build always ends; `SignalEndsProcess`: a signal the handler received always ends the process | pass |
| `build_tempdir_leak` | `NoTempDirLeftBehind` (bundles and session files) | violation: an error return of `newBuild` leaves behind the temp dir it made for the failing stage; so does a signal before `signal.Notify`; the handler's `os.Exit` skips the deferred removal of the session files (`createStageFile` is not under `src/`: the model takes the session files to live outside the bundles, removed only by Full's defer; if they are written inside a bundle, the handler's cleanUp removes them and this part of the trace does not arise) |
| `build_umask` | `UmaskRestored` | violation: every error return of Full leaves umask 0o002 |
| `build_update_multistage` | `NoNilConveyor` | violation: a multi-stage `--update` build without `--force` calls Get on a nil conveyor packer |
| `build_signal_race` | `NoStepOnRemovedBundle` | violation: the main goroutine keeps building on a bundle the handler has removed |
| `fuse_core` (`FuseDriver.cfg`) | `TypeOK`; `MountOutcomeConsistent`: success only once the target is in mountinfo, and after a timeout or mountinfo error the helper is not running; `MountReturns`: every Mount returns, whether its helper mounts, hangs or dies | pass |
| `fuse_stop_leak` | `StopKillsAllHelpers` | violation: after two mounts through one driver, Stop kills only the last helper |
| `fuse_zombie` | `HelperDeathReported` | violation: a helper that died is still answered for by signal 0, so Mount reports a timeout |
| `metadata_core` (`Metadata.cfg`) | `TypeOK`; `DefinitionHistoryKept`: the definition of every committed build is Singularity or in bootstrap_history; `LabelsNeverDropped`: no build drops a key from labels.json | pass |
| `parser_core` (`Parser.cfg`) | `TypeOK`; `ParsesAsGrammar`: for every recipe of up to 5 lines without continued header values, All returns the grammar's stages (header, scripts, merged `%files`, app order) or the same error | pass |
| `parser_header_continuation` | `ContinuedHeadersAsGrammar` | violation: a header value ending in a backslash (in TLC's trace, an empty `stage:\`) followed by a blank or comment line panics on the nil `d.Header` map; a continuation on the last header line is dropped |
| `metadata_label_precedence` | `LabelPrecedence` (spec property 3) | violation: `.build.labels` overrides labels.json without force and shadows a new recipe label |

Every property of a passing run has a mutant in `PROJECT.json`. A mutant is a
plausible bug of the mapped code (an off-by-one, a dropped guard, a missing
call) that makes TLC report the property violated. The findings section of
`PROJECT.json` says what each violation shows about the code.

## Bounds and why they suffice

- **`MCBuildStages`**: 2 stages, 5 conveyor attempts (the code's literal) and 1 signal. `build_core` has about 468k states and takes about 25 s.
  - Two stages distinguish the last stage (update in place, the assembler) from an earlier one. They also give the multi-stage nil conveyor, session-file defers from more than one iteration, and a cleanUp loop that races the handler over more than one bundle.
  - Every bundle removal may fail. With three stages and failing removals the run takes well over 3 minutes, so three stages are not used.
  - One signal is enough because the handler reads its channel once.
  - All 2^6 combinations of options and headers are initial states.
- **`MCFuseDriver`**: 2 targets, 3 helper processes and 3 poll ticks, standing for the 80 ticks of 2 s. `fuse_core` has about 1.1M states and takes about 30 s.
  - Two helpers are the smallest case for a second Mount through one driver. The third lets both drivers have a helper while an older one is forgotten, and lets a target be mounted again after a dead mount was left on it.
  - Three ticks let a helper mount or die before the first poll, between polls, or after the last one.
- **`MCParser`**: recipes of up to 5 lines over 14 line kinds for `parser_core` (1.4M recipes), and up to 4 lines over 9 kinds with continuations for the violation.
  - The header words are `bootstrap` and `stage` (valid), `otherurl1` (valid only through the digit fold) and `bogus` (invalid).
  - The sections are `%post` with and without args, `%files` with two args, `%appinstall` with and without an app name, and the unknown `%bogus`.
  - Five lines hold two stages with a repeated section, or a header, two `%files` blocks and a body line.
- **`MCMetadata`**: 3 builds, one user label key plus the automatic ones, recipe label sets over `{k1, "usage"}`, and section selections "all" and "labels only".
  - Three builds give two renames into bootstrap_history and a key that survives two later builds.
  - The `usage` key shows a recipe label colliding with an automatic one.

## Fairness

`BuildStages.Spec` assumes weak fairness of the main goroutine's steps and of
the handler's steps. Both goroutines are runnable whenever their step is
enabled, and the Go scheduler eventually runs a runnable goroutine. Scripts
and copies are taken to return: the model has no hanging step. Only
`SignalEndsProcess` relies on this.

`ImplementsStagePipeline` includes the pipeline's `WF_vars(Next)`. Under the
mapping this says the build reaches "built" or "failed". `BuildStages` gets
that from the same two weak-fairness conditions.

`FuseDriver.Spec` assumes weak fairness of `DriverPoll` and `OverlayPoll`. The goroutine inside Mount wakes from each 25 ms sleep and runs the next iteration. Nothing is assumed of the helpers: a helper may never mount and never exit. Nothing is assumed of mountinfo reads either: `MountinfoFails` has no fairness. Only `MountReturns` relies on this.

`Metadata` and `Parser` check safety only, with no fairness.

`CHECK_DEADLOCK FALSE` is set for these reasons:
- In `BuildStages`, the process really stops: Full returns, the process exits, or it is killed.
- In `FuseDriver`, the driver's life ends with Stop and with the helper bound.
- In `Metadata`, the lineage ends after its last build.
- In `Parser`, All has returned.

## Not modelled, and why

- **The start and test scripts** of `insertRunScript`'s siblings (`metadata.go`): they are written like the runscript, and no property tells them apart.

- **Parts of the parser.** `GetLabels`, the quote handling of `fileSplitter`, `IsValidDefinition`, and trimming and `#` comments inside a line are left out. So is the `\\n` escape in continued values. The parser is a line-level abstraction.
  - Recipes whose first non-blank line is a section are left out of `ParsesAsGrammar`. There `doSections` trims the first token, so an empty first section fails with "could not be split". Spec section 4.A step 3 treats such a first token as the first section. The code trims it, which the grammar reference does not do. No run is spent on it (hazard `part_002:234`).
- **`makeDef`, `MakeAllDefs` and `findStageIndex` of build.go.** They build definitions from URIs and look up stage names, with no state of their own.
- **The session files' lifetime.** The spec says session files are deleted on stage exit. In the code they are deferred inside Full's loop, so they live until Full returns. `SessionFilesRemoved` checks the code's promise. No run is spent on the spec's wording.
- **A composition of `Parser` with `BuildStages`.** `newBuild` is also reached through `New`, with definitions from any caller. So `BuildStages` starts from every combination of headed and headerless stages, which already includes every combination that All produces. Composing the two modules would only restrict the initial states, and no property of the composition says more.
- **The stage-header rule of spec S5.** The spec says every stage of a multi-stage recipe needs a `stage` header. `newBuild` only rejects a stage whose header is empty (`d.Header == nil`, build.go:111), so two `Bootstrap:` stages without `stage` keys are accepted. This is a one-step check that a unit test reaches directly, so no model run is spent on it. `BuildStages` takes "has a header" as an input per stage.
- **Reuse of a mount target.** A helper that dies or is killed leaves its FUSE mount listed, and the model keeps it listed. A later Mount of the same target then succeeds at its first poll without its own helper having mounted (hazard `squashfuse/driver.go:104`). `MountOutcomeConsistent` only asks that the target be listed. A property tying the mount to the new helper would be violated. It is not a run, because whether a target is reused is decided by callers outside `src/`.
- **The `types` package, conveyor packers, assemblers and the apps plugin.** They are not under `src/`. They are steps with outcomes.
- **The exit status after a late signal.** The handler is never unregistered, and the model lets a signal arrive after Full has returned. The handler's second cleanUp finds nothing left, which `NoBundleLeftAfterFull` covers. What `os.Exit(1)` does to a successful build is seen only by Full's caller, outside `src/`.
- **Pure I/O and configuration**: `e2e/internal/e2e/home.go`, the Debian control data and the dependency scripts (`part_000`, `part_001`, `scripts/download-dependencies`), the release workflow, and `etc/nvliblist.conf`.

## Plan

Done:
- `BuildStages`, `FuseDriver`, `Metadata` and `Parser`.
- The `StagePipeline` refinement.
- The session files.
- The `FuseDriver` Stop methods, the mountinfo failure, and `MountReturns` under fairness.
- Larger instances: 3 helpers.
- Failed bundle removals.
- The Features bits, the `register` argument, and Mount before Features.

Next, if a run can be given up:
- the stale-mount case;
- the first-token trim (hazard `part_002:234`). Only a section that is the very first token is trimmed. After a leading blank line, the first token is the blank header blob instead, so the same section is not trimmed.
