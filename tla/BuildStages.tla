---------------------------- MODULE BuildStages ----------------------------
(***************************************************************************)
(* The multi-stage build orchestrator of internal/pkg/build/build.go:     *)
(* newBuild creates one bundle per stage, Full runs every stage in order   *)
(* and then the assembler of the last one, and cleanUp removes the         *)
(* bundles.  Two goroutines share the bundles: the main one running        *)
(* newBuild and Full (with cleanUp deferred), and the signal goroutine     *)
(* started by Full that runs cleanUp and os.Exit(1) on SIGINT/SIGTERM.     *)
(*                                                                         *)
(* Scripts, copies and packers are abstracted to their outcome: each step  *)
(* either succeeds or returns an error.  A step the code skips (section    *)
(* not selected, empty script) has the effect of a successful one.         *)
(***************************************************************************)
EXTENDS Naturals, FiniteSets

CONSTANTS
    NumStages,        \* number of definitions handed to newBuild
    ConveyorAttempts, \* the literal 5 of the retry loop in Full
    MaxSignals        \* bound on SIGINT/SIGTERM deliveries

ASSUME NumStages \in Nat \ {0} /\ ConveyorAttempts \in Nat \ {0}
ASSUME MaxSignals \in Nat

Stages  == 1..NumStages
BundleStates == {"none", "present", "failed", "removed"}
OnDisk       == {"present", "failed"}
Formats == {"sandbox", "sif", "other"}

VARIABLES
    conf,        \* Config.Opts / Format / NoCleanUp, and the parsed headers
    pc,          \* where the main goroutine is
    cur,         \* loop index of newBuild and of Full
    bundle,      \* [Stages -> BundleStates] bundle dirs
    hasConveyor, \* [Stages -> BOOLEAN] stage.c was set by newBuild
    attempt,     \* attempt counter of the conveyor retry loop
    lastGet,     \* outcome of the last stage.c.Get call
    done,        \* stages whose %test step has completed
    umask,       \* process umask: the caller's or the build's 0o002
    result,      \* what Full returns: "none", "ok", "err" or a "panic"
    cidx,        \* loop index of the deferred cleanUp
    handler,     \* the signal goroutine
    hidx,        \* loop index of the signal goroutine's cleanUp
    proc,        \* the process: running, exited (os.Exit), killed, crashed
    sigs,        \* signals delivered so far
    dest,        \* whether the assembler has written Dest
    session,     \* session resolv/hosts copies on disk, per stage
    deferred     \* session files whose os.Remove Full has deferred

vars == <<conf, pc, cur, bundle, hasConveyor, attempt, lastGet, done, umask,
          result, cidx, handler, hidx, proc, sigs, dest, session, deferred>>

\* Steps of one stage in Full, in the order the loop body runs them.
StageSteps == {"pre", "pack", "get", "cpack", "apps", "filesFrom", "setup",
               "filesHost", "resolv", "hosts", "post", "metadata", "test"}

PCs == {"newBuild", "newAsm", "newFailed", "start", "umask", "assemble",
        "defers", "cleanup", "returned"} \cup StageSteps

\* The two files createStageFile copies for a stage: /etc/resolv.conf and
\* /etc/hosts.
SessionKinds == {"resolv", "hosts"}
SessionFiles == [s : Stages, f : SessionKinds]

TypeOK ==
    /\ conf \in [update : BOOLEAN, force : BOOLEAN, noCleanUp : BOOLEAN,
                 imgCache : BOOLEAN, format : Formats,
                 hasHeader : [Stages -> BOOLEAN], binds : SUBSET SessionKinds]
    /\ pc \in PCs
    /\ cur \in Stages
    /\ bundle \in [Stages -> BundleStates]
    /\ hasConveyor \in [Stages -> BOOLEAN]
    /\ attempt \in 0..ConveyorAttempts
    /\ lastGet \in {"none", "ok", "retryable", "fatal"}
    /\ done \subseteq Stages
    /\ umask \in {"caller", "build"}
    /\ result \in {"none", "ok", "err", "panic"}
    /\ cidx \in 1..NumStages + 1
    /\ handler \in {"none", "waiting", "cleaning"}
    /\ hidx \in 1..NumStages + 1
    /\ proc \in {"running", "exited", "killed", "crashed"}
    /\ sigs \in 0..MaxSignals
    /\ dest \in {"none", "written"}
    /\ session \subseteq SessionFiles
    /\ deferred \subseteq SessionFiles

-----------------------------------------------------------------------------
(* Derived facts of the configuration.                                      *)

\* newBuild: "always build a sandbox if updating an existing sandbox".
Format == IF conf.update THEN "sandbox" ELSE conf.format

\* newBuild fetches a conveyorpacker only when the build bootstraps.
NeedsConveyor == ~conf.update \/ conf.force

\* Full: only the last stage is updated in place from Dest.
UpdateStage(i) == conf.update /\ ~conf.force /\ i = NumStages

-----------------------------------------------------------------------------
(* cleanUp: remove every stage's bundle unless NoCleanUp.  Both goroutines *)
(* run it, one stage per step.                                              *)

\* s.b.Remove() of one bundle: a dir still on disk is removed, or the
\* removal fails, which cleanUp only logs, and the dir stays ("failed") for
\* the other cleanUp to try again. Only a stage of b.stages has a bundle.
RemoveBundle(s) ==
    IF s \in Stages /\ bundle[s] \in OnDisk
       THEN \E st \in {"removed", "failed"} : bundle' = [bundle EXCEPT ![s] = st]
       ELSE UNCHANGED bundle

\* Mutant: the loop stops one stage early.
CleanUpDoneSkipLast(idx) == idx > NumStages - 1

\* Mutant: the loop runs one index past the last stage.
CleanUpDonePastEnd(idx) == idx > NumStages + 1

CleanUpDone(idx) == idx > NumStages

-----------------------------------------------------------------------------
Init ==
    /\ conf \in [update : BOOLEAN, force : BOOLEAN, noCleanUp : BOOLEAN,
                 imgCache : BOOLEAN, format : Formats,
                 hasHeader : [Stages -> BOOLEAN], binds : SUBSET SessionKinds]
    /\ pc = "newBuild"
    /\ cur = 1
    /\ bundle = [s \in Stages |-> "none"]
    /\ hasConveyor = [s \in Stages |-> FALSE]
    /\ attempt = 0
    /\ lastGet = "none"
    /\ done = {}
    /\ umask = "caller"
    /\ result = "none"
    /\ cidx = 1
    /\ handler = "none"
    /\ hidx = 1
    /\ proc = "running"
    /\ sigs = 0
    /\ dest = "none"
    /\ session = {}
    /\ deferred = {}

\* The main goroutine only moves while the process lives.
Running == proc = "running"

-----------------------------------------------------------------------------
(* newBuild: one stage per step.  Every error return leaves the parent    *)
(* dirs of the stages created so far on disk: no Build is returned, so     *)
(* nobody calls cleanUp on them.                                           *)

NewFail ==
    /\ pc' = "newFailed"
    /\ result' = "err"

NewStage ==
    /\ Running
    /\ pc = "newBuild"
    /\ \/ /\ ~conf.hasHeader[cur]          \* "all must have headers"
          /\ NewFail
          /\ UNCHANGED <<bundle, hasConveyor, cur>>
       \/ /\ conf.hasHeader[cur]           \* MkdirTemp fails
          /\ NewFail
          /\ UNCHANGED <<bundle, hasConveyor, cur>>
       \/ /\ conf.hasHeader[cur]
          /\ bundle' = [bundle EXCEPT ![cur] = "present"]
          /\ \/ /\ NewFail  \* NewBundle, noexec Dest/TMPDIR, conveyorPacker
                /\ UNCHANGED <<hasConveyor, cur>>
             \/ /\ hasConveyor' = [hasConveyor EXCEPT ![cur] = NeedsConveyor]
                /\ IF cur < NumStages
                      THEN cur' = cur + 1 /\ UNCHANGED <<pc, result>>
                      ELSE pc' = "newAsm" /\ UNCHANGED <<cur, result>>
    /\ UNCHANGED <<conf, attempt, lastGet, done, umask, cidx, handler, hidx,
                   proc, sigs, dest, session, deferred>>

\* The assembler of the last stage: sandbox, or SIF once mksquashfs, its
\* processor and memory limits are found; any other format is refused.
NewAssembler ==
    /\ Running
    /\ pc = "newAsm"
    /\ \/ /\ Format = "sandbox"
          /\ pc' = "start"
          /\ UNCHANGED result
       \/ /\ Format = "sif"
          /\ \/ pc' = "start" /\ UNCHANGED result
             \/ NewFail
       \/ /\ Format = "other"
          /\ NewFail
    /\ UNCHANGED <<conf, cur, bundle, hasConveyor, attempt, lastGet, done,
                   umask, cidx, handler, hidx, proc, sigs, dest, session, deferred>>

-----------------------------------------------------------------------------
(* Full.                                                                    *)

\* signal.Notify and the handler goroutine, the deferred cleanUp, umask.
FullStart ==
    /\ Running
    /\ pc = "start"
    /\ pc' = "pre"
    /\ cur' = 1
    /\ handler' = "waiting"
    /\ umask' = "build"
    /\ UNCHANGED <<conf, bundle, hasConveyor, attempt, lastGet, done, result,
                   cidx, hidx, proc, sigs, dest, session, deferred>>

\* A return from Full, or a panic unwinding it: the deferred calls run next,
\* the session file removals first (they were deferred last).
Return(r) ==
    /\ result' = r
    /\ pc' = "defers"
    /\ cidx' = 1

UnchangedStep == UNCHANGED <<conf, cur, bundle, hasConveyor, attempt, lastGet,
                             done, umask, handler, hidx, proc, sigs, dest, session, deferred>>

\* A step of the stage body that either succeeds or makes Full return an error.
Step(from, to) ==
    /\ Running
    /\ pc = from
    /\ \/ pc' = to /\ UNCHANGED <<result, cidx>>
       \/ Return("err")
    /\ UnchangedStep

RunPre          == Step("pre", "pack")
RunApps         == Step("apps", "filesFrom")
CopyFilesFrom   == Step("filesFrom", "setup")
RunSetup        == Step("setup", "filesHost")
CopyFiles       == Step("filesHost", "resolv")
RunPost         == Step("post", "metadata")
InsertMetadata  == Step("metadata", "test")
ConveyorPack    == Step("cpack", "apps")

\* haveBindFor: the user bound a file over that destination.  A bind path
\* "src:dst" (or "src") is abstracted to the destination it names.
HaveBindFor(f) == f \in conf.binds

\* Mutant: the removal of the /etc/hosts copy is never deferred.
DeferRemovalResolvOnly(f) == f = "resolv"

DeferRemoval(f) == TRUE

\* createStageFile for /etc/resolv.conf, then for /etc/hosts, each skipped
\* when a bind covers it.  A copy made is removed by a deferred os.Remove,
\* that is when Full returns, not when the stage ends.  createStageFile may
\* also find no host file and return "", or fail.
CreateStageFile(f, to) ==
    LET file == [s |-> cur, f |-> f]
    IN
    /\ Running
    /\ pc = f
    /\ \/ /\ HaveBindFor(f)
          /\ pc' = to /\ UNCHANGED <<result, cidx, session, deferred>>
       \/ /\ ~HaveBindFor(f)
          /\ session' = session \cup {file}
          /\ deferred' = IF DeferRemoval(f) THEN deferred \cup {file} ELSE deferred
          /\ pc' = to /\ UNCHANGED <<result, cidx>>
       \/ /\ ~HaveBindFor(f)
          /\ \/ pc' = to /\ UNCHANGED <<result, cidx>>
             \/ Return("err")
          /\ UNCHANGED <<session, deferred>>
    /\ UNCHANGED <<conf, cur, bundle, hasConveyor, attempt, lastGet, done,
                   umask, handler, hidx, proc, sigs, dest>>

CreateResolv == CreateStageFile("resolv", "hosts")
CreateHosts  == CreateStageFile("hosts", "post")

\* Pack: extract Dest with the local packer when updating, otherwise check
\* the image cache and enter the conveyor retry loop.
Pack ==
    /\ Running
    /\ pc = "pack"
    /\ IF UpdateStage(cur)
          THEN \/ pc' = "apps" /\ UNCHANGED <<result, cidx, attempt>>
               \/ Return("err") /\ UNCHANGED attempt
          ELSE IF ~conf.imgCache
                  THEN Return("err") /\ UNCHANGED attempt
                  ELSE pc' = "get" /\ attempt' = 0 /\ UNCHANGED <<result, cidx>>
    /\ UNCHANGED <<conf, cur, bundle, hasConveyor, lastGet, done, umask,
                   handler, hidx, proc, sigs, dest, session, deferred>>

\* Full's retry loop: the attempt counter after a failed Get, and whether
\* the error ends the loop (no "no descriptor found for reference" marker,
\* or the fifth attempt).
NextAttempt(n) == n + 1

GiveUp(out, n) == out = "fatal" \/ n = ConveyorAttempts

\* One call of stage.c.Get.  With update && !force newBuild left stage.c
\* nil for every stage, so a non-final stage dereferences nil: the panic
\* unwinds through the deferred cleanUp and then kills the process.
ConveyorGet ==
    /\ Running
    /\ pc = "get"
    /\ \/ /\ ~hasConveyor[cur]
          /\ Return("panic")
          /\ UNCHANGED <<attempt, lastGet>>
       \/ /\ hasConveyor[cur]
          /\ \E out \in {"ok", "retryable", "fatal"} :
               /\ lastGet' = out
               /\ IF out = "ok"
                     THEN pc' = "cpack" /\ UNCHANGED <<attempt, result, cidx>>
                     ELSE /\ attempt' = NextAttempt(attempt)
                          /\ IF GiveUp(out, NextAttempt(attempt))
                                THEN Return("err")
                                ELSE UNCHANGED <<pc, result, cidx>>
    /\ UNCHANGED <<conf, cur, bundle, hasConveyor, done, umask, handler, hidx,
                   proc, sigs, dest, session, deferred>>

\* The stage loop of Full: after a stage's %test, the next stage or the end.
\* Mutant: the loop stops one stage early.
MoreStagesOneShort(i) == i < NumStages - 1

MoreStages(i) == i < NumStages

RunTest ==
    /\ Running
    /\ pc = "test"
    /\ \/ /\ done' = done \cup {cur}
          /\ IF MoreStages(cur)
                THEN pc' = "pre" /\ cur' = cur + 1
                ELSE pc' = "umask" /\ UNCHANGED cur
          /\ UNCHANGED <<result, cidx>>
       \/ /\ Return("err")
          /\ UNCHANGED <<cur, done>>
    /\ UNCHANGED <<conf, bundle, hasConveyor, attempt, lastGet, umask,
                   handler, hidx, proc, sigs, dest, session, deferred>>

\* syscall.Umask(oldumask), reached only when every stage succeeded.
RestoreUmask ==
    /\ Running
    /\ pc = "umask"
    /\ umask' = "caller"
    /\ pc' = "assemble"
    /\ UNCHANGED <<conf, cur, bundle, hasConveyor, attempt, lastGet, done,
                   result, cidx, handler, hidx, proc, sigs, dest, session, deferred>>

\* The last stage's assembler writes Dest from its bundle.
Assemble ==
    /\ Running
    /\ pc = "assemble"
    /\ \/ dest' = "written" /\ Return("ok")
       \/ Return("err") /\ UNCHANGED dest
    /\ UNCHANGED <<conf, cur, bundle, hasConveyor, attempt, lastGet, done,
                   umask, handler, hidx, proc, sigs, session, deferred>>

\* The deferred os.Remove calls of the session files run, in reverse order
\* of their defer statements; then the deferred cleanUp.
RunDefers ==
    /\ Running
    /\ pc = "defers"
    /\ session' = session \ deferred
    /\ pc' = "cleanup"
    /\ UNCHANGED <<conf, cur, bundle, hasConveyor, attempt, lastGet, done, umask,
                   result, cidx, handler, hidx, proc, sigs, dest, deferred>>

\* The deferred cleanUp, one bundle per step.
CleanUpStep ==
    /\ Running
    /\ pc = "cleanup"
    /\ ~conf.noCleanUp
    /\ ~CleanUpDone(cidx)
    /\ RemoveBundle(cidx)
    /\ cidx' = cidx + 1
    /\ UNCHANGED <<conf, pc, cur, hasConveyor, attempt, lastGet, done, umask,
                   result, handler, hidx, proc, sigs, dest, session, deferred>>

\* Full has returned once cleanUp is over; a panic then crashes the process.
EndFull ==
    /\ Running
    /\ pc = "cleanup"
    /\ conf.noCleanUp \/ CleanUpDone(cidx)
    /\ pc' = "returned"
    /\ proc' = IF result = "panic" THEN "crashed" ELSE proc
    /\ UNCHANGED <<conf, cur, bundle, hasConveyor, attempt, lastGet, done,
                   umask, result, cidx, handler, hidx, sigs, dest, session, deferred>>

-----------------------------------------------------------------------------
(* The signal goroutine.                                                   *)

\* SIGINT/SIGTERM.  Before Full has called signal.Notify the default action
\* kills the process; afterwards the handler goroutine receives it.  The
\* goroutine reads the channel once, so later signals change nothing and
\* are bounded by MaxSignals.
Signal ==
    /\ Running
    /\ sigs < MaxSignals
    /\ sigs' = sigs + 1
    /\ \/ /\ handler = "none"
          /\ proc' = "killed"
          /\ UNCHANGED <<handler, hidx>>
       \/ /\ handler = "waiting"
          /\ handler' = "cleaning"
          /\ hidx' = 1
          /\ UNCHANGED proc
    /\ UNCHANGED <<conf, pc, cur, bundle, hasConveyor, attempt, lastGet, done,
                   umask, result, cidx, dest, session, deferred>>

\* The handler's cleanUp, one bundle per step, then os.Exit(1).  It runs
\* concurrently with whatever the main goroutine is doing.
\* Mutant: cleanUp returns but the goroutine never calls os.Exit.
HandlerExitMissing == UNCHANGED proc

HandlerExit == proc' = "exited"

HandlerCleanUp ==
    /\ Running
    /\ handler = "cleaning"
    /\ IF conf.noCleanUp \/ CleanUpDone(hidx)
          THEN HandlerExit /\ UNCHANGED <<bundle, hidx>>
          ELSE RemoveBundle(hidx) /\ hidx' = hidx + 1 /\ UNCHANGED proc
    /\ UNCHANGED <<conf, pc, cur, hasConveyor, attempt, lastGet, done, umask,
                   result, cidx, handler, sigs, dest, session, deferred>>

-----------------------------------------------------------------------------
MainStep ==
    \/ NewStage \/ NewAssembler \/ FullStart
    \/ RunPre \/ Pack \/ ConveyorGet \/ ConveyorPack \/ RunApps
    \/ CopyFilesFrom \/ RunSetup \/ CopyFiles \/ CreateResolv \/ CreateHosts
    \/ RunPost \/ InsertMetadata \/ RunTest \/ RestoreUmask \/ Assemble
    \/ RunDefers \/ CleanUpStep \/ EndFull

Next == MainStep \/ Signal \/ HandlerCleanUp

\* Both goroutines are runnable whenever their step is enabled, and the Go
\* scheduler runs runnable goroutines; scripts and copies are taken to return.
Spec == Init /\ [][Next]_vars /\ WF_vars(MainStep) /\ WF_vars(HandlerCleanUp)

-----------------------------------------------------------------------------
(* Properties.                                                             *)

\* The build has ended for the caller: newBuild or Full returned, or the
\* process is gone.
Ended == pc \in {"returned", "newFailed"} \/ proc # "running"

\* No bundle dir is on disk, or none that no cleanUp has tried to remove.
BundlesGone      == \A s \in Stages : bundle[s] \notin OnDisk
RemovalAttempted == \A s \in Stages : bundle[s] # "present"

\* Once Full has started, however it ends (error return, success, panic,
\* or the signal handler's os.Exit), cleanUp has tried to remove every
\* bundle directory unless NoCleanUp was asked for; a failed removal is
\* only logged by the code.  Covers the deferred cleanUp and the signal
\* goroutine's cleanUp racing each other.
NoBundleLeftAfterFull ==
    (handler # "none" /\ Ended /\ ~conf.noCleanUp) => RemovalAttempted

\* However the build ends, no temporary bundle directory and no session file
\* is left behind unless NoCleanUp was asked for (spec section 7: every
\* failure runs cleanup, and signal reception always runs cleanup before
\* exit).
NoTempDirLeftBehind ==
    (Ended /\ ~conf.noCleanUp) => BundlesGone /\ session = {}

\* Whichever step of whichever stage makes Full return, and on a panic as
\* well, every session resolv/hosts copy Full made is gone by the time Full
\* has returned: each one has its deferred os.Remove.
SessionFilesRemoved == (pc = "returned") => session = {}

\* What the build promises its caller (StagePipeline): stages pass %test
\* one after the other, Dest is written only once all have passed, nothing
\* passes after the build failed or was cancelled, and the build ends.
\* The pipeline's outcome is "built" once Dest is written, "failed" once
\* newBuild or Full returned an error or the process is gone.
PipelineOutcome ==
    IF dest = "written" THEN "built"
    ELSE IF result \in {"err", "panic"} \/ proc # "running" THEN "failed"
    ELSE "running"

Pipeline == INSTANCE StagePipeline
                WITH N <- NumStages, passed <- done, outcome <- PipelineOutcome

\* Full, with the signal goroutine racing it, implements StagePipeline.
ImplementsStagePipeline == Pipeline!Spec

\* A signal received by the handler goroutine always ends the process,
\* whatever the main goroutine is doing meanwhile.
SignalEndsProcess == [](handler = "cleaning" => <>(proc # "running"))

\* When Full returns, the process umask is the caller's again (spec section
\* 5: the orchestrator restores the umask on exit).
UmaskRestored == (pc = "returned") => umask = "caller"

\* No stage dereferences a nil conveyorpacker.
NoNilConveyor == result # "panic"

\* No build step of the main goroutine runs on a bundle the signal
\* handler's cleanUp has already removed (spec section 5: cancellation
\* signals in-flight work, each bundle is owned by its stage).
NoStepOnRemovedBundle ==
    [][(pc \in StageSteps \cup {"assemble"} /\ bundle[cur] = "removed")
         => UNCHANGED <<pc, attempt, dest>>]_vars
=============================================================================
