----------------------------- MODULE FuseDriver -----------------------------
(***************************************************************************)
(* The FUSE image drivers: squashfuse and overlayfsfuse (one helper        *)
(* process per Mount, polled until its mount point shows up in             *)
(* /proc/self/mountinfo), and the fuseapps driver that InitImageDrivers    *)
(* registers on top of them and that dispatches Mount/Start/Stop to them.  *)
(*                                                                         *)
(* Helper processes run concurrently with the polling loop: a helper may   *)
(* mount its target or exit at any moment.  A FUSE mount stays listed in   *)
(* mountinfo when its helper dies.  An exited child that nobody has        *)
(* waited for is a zombie, and kill(pid, 0) on a zombie succeeds.          *)
(* Time is counted in 25 ms poll ticks; MaxTicks stands for the 80 ticks   *)
(* of the 2 s limit.                                                       *)
(***************************************************************************)
EXTENDS Naturals, FiniteSets

CONSTANTS
    Targets,              \* mount points handed to Mount
    MaxMounts,            \* bound on helper processes started
    MaxTicks              \* poll ticks before the mount timeout

ASSUME MaxMounts \in Nat \ {0} /\ MaxTicks \in Nat \ {0}

Subs        == {"squash", "overlay"}
SquashName  == "squashfuse"       \* driverName of each driver package
OverlayName == "overlayfsfuse"
DriverName  == [s \in Subs |-> IF s = "squash" THEN SquashName ELSE OverlayName]
Filesystems == {"squashfs", "overlay"}
Helpers     == 1..MaxMounts
HelperStates == {"none", "running", "exited", "killed", "reaped"}
DriverFeatures == {"image", "overlay"}   \* image.ImageFeature, OverlayFeature
Results     == {"none", "ok", "noDriver", "startErr", "helperFailed",
                "mountinfoErr", "timeout"}

VARIABLES
    conf,        \* InitImageDrivers' register and unprivileged arguments, the
                 \* configured image driver, helper binaries found
    phase,       \* the caller: "init", "ready", "stopped"
    imageDriver, \* fileconf.ImageDriver
    registry,    \* names passed to image.RegisterDriver
    bound,       \* [Subs -> BOOLEAN] fuseappsDriver's sub-driver fields set
    features,    \* what the last fuseapps Features call returned
    cmd,         \* [Subs -> 0..MaxMounts] the helper d.cmd refers to, 0 none
    helper,      \* [Helpers -> [st, sub, target, mnt]] helper processes
    nhelpers,    \* helpers started so far
    mountinfo,   \* mount points listed in /proc/self/mountinfo
    call,        \* the Mount call in progress
    ret          \* what the last Mount returned

vars == <<conf, phase, imageDriver, registry, bound, features, cmd, helper,
          nhelpers, mountinfo, call, ret>>

NoHelper == [st |-> "none", sub |-> "squash", target |-> CHOOSE t \in Targets : TRUE,
             mnt |-> FALSE]

TypeOK ==
    /\ conf \in [register : BOOLEAN, unpriv : BOOLEAN,
                 configured : {"", "fuseapps", "other"},
                 bin : [Subs -> BOOLEAN]]
    /\ phase \in {"init", "ready", "stopped"}
    /\ imageDriver \in {"", "fuseapps", "other"}
    /\ registry \subseteq {"squashfuse", "overlayfsfuse", "fuseapps"}
    /\ bound \in [Subs -> BOOLEAN]
    /\ features \subseteq DriverFeatures
    /\ cmd \in [Subs -> 0..MaxMounts]
    /\ helper \in [Helpers -> [st : HelperStates, sub : Subs,
                               target : Targets, mnt : BOOLEAN]]
    /\ nhelpers \in 0..MaxMounts
    /\ mountinfo \subseteq Targets
    /\ call \in [active : BOOLEAN, sub : Subs, h : 0..MaxMounts,
                 target : Targets, tick : 0..MaxTicks - 1]
    /\ ret \in [res : Results, sub : Subs, h : 0..MaxMounts, target : Targets]

Init ==
    /\ conf \in [register : BOOLEAN, unpriv : BOOLEAN,
                 configured : {"", "fuseapps", "other"},
                 bin : [Subs -> BOOLEAN]]
    /\ phase = "init"
    /\ imageDriver = conf.configured
    /\ registry = {}
    /\ bound = [s \in Subs |-> FALSE]
    /\ features = {}
    /\ cmd = [s \in Subs |-> 0]
    /\ helper = [i \in Helpers |-> NoHelper]
    /\ nhelpers = 0
    /\ mountinfo = {}
    /\ call = [active |-> FALSE, sub |-> "squash", h |-> 0,
               target |-> NoHelper.target, tick |-> 0]
    /\ ret = [res |-> "none", sub |-> "squash", h |-> 0,
              target |-> NoHelper.target]

-----------------------------------------------------------------------------
(* Registration.                                                           *)

\* squashfuse.Init / overlayfsfuse.Init: the driver is active exactly when
\* its helper binary is found, and registered only if register is set too.
SquashInit  == [active |-> conf.bin["squash"],
                reg |-> conf.bin["squash"] /\ conf.register]
OverlayInit == [active |-> conf.bin["overlay"],
                reg |-> conf.bin["overlay"] /\ conf.register]

InitImageDrivers ==
    /\ phase = "init"
    /\ phase' = "ready"
    /\ \/ /\ conf.configured = "other"      \* a configured driver wins
          /\ UNCHANGED <<imageDriver, registry>>
       \/ /\ conf.configured \in {"", "fuseapps"}
          /\ ~conf.unpriv                   \* privileged: not needed
          /\ imageDriver' = ""
          /\ UNCHANGED registry
       \/ /\ conf.configured \in {"", "fuseapps"}
          /\ conf.unpriv
          /\ LET init   == [s \in Subs |-> IF s = "squash" THEN SquashInit
                                                        ELSE OverlayInit]
                 active == {s \in Subs : init[s].active}
             IN /\ registry' = {DriverName[s] : s \in {x \in Subs : init[x].reg}}
                                 \cup (IF active # {} THEN {"fuseapps"} ELSE {})
                /\ imageDriver' = IF active # {} THEN "fuseapps" ELSE imageDriver
    /\ UNCHANGED <<conf, bound, features, cmd, helper, nhelpers, mountinfo,
                   call, ret>>

\* squashfuseDriver.Features and overlayfsfuseDriver.Features.
SquashFeatures  == {"image"}
OverlayFeatures == {"overlay"}
SubFeatures(s)  == IF s = "squash" THEN SquashFeatures ELSE OverlayFeatures

\* fuseappsDriver.Features looks the sub-drivers up, keeps them, and ORs
\* their features: Mount, Start and Stop only reach a sub-driver bound by an
\* earlier Features call.
Features ==
    /\ phase = "ready"
    /\ "fuseapps" \in registry
    /\ bound' = [s \in Subs |-> DriverName[s] \in registry]
    /\ features' = UNION {SubFeatures(s) : s \in {x \in Subs : bound'[x]}}
    /\ UNCHANGED <<conf, phase, imageDriver, registry, cmd, helper, nhelpers,
                   mountinfo, call, ret>>

-----------------------------------------------------------------------------
(* Mount.                                                                  *)

Return(res, sub, h, t) == ret' = [res |-> res, sub |-> sub, h |-> h, target |-> t]

Idle == [call EXCEPT !.active = FALSE]

\* SIGKILL to helper h of the helpers hs, if it is a process.  A zombie
\* ignores it, so only a running helper becomes "killed".
Kill(hs, h) ==
    [i \in Helpers |-> IF i = h /\ hs[i].st = "running"
                         THEN [hs[i] EXCEPT !.st = "killed"] ELSE hs[i]]

\* squashfuseDriver.Stop and overlayfsfuseDriver.Stop: kill the process
\* d.cmd refers to, if there is one; no error is ever returned.
SquashStop(hs)  == Kill(hs, cmd["squash"])
OverlayStop(hs) == Kill(hs, cmd["overlay"])

\* d.Stop() of sub-driver sub, as called inside its Mount.
DriverStop(sub) ==
    helper' = IF sub = "squash" THEN SquashStop(helper) ELSE OverlayStop(helper)

\* The start of squashfuseDriver.Mount: d.cmd is replaced by a new command
\* before it is started, so a failed Start also forgets the previous helper.
DriverMount(sub, t) ==
    \/ /\ cmd' = [cmd EXCEPT ![sub] = 0]
       /\ Return("startErr", sub, 0, t)
       /\ UNCHANGED <<helper, nhelpers, call>>
    \/ /\ nhelpers < MaxMounts
       /\ LET h == nhelpers + 1
          IN /\ nhelpers' = h
             /\ helper' = [helper EXCEPT ![h] = [st |-> "running", sub |-> sub,
                                                target |-> t, mnt |-> FALSE]]
             /\ cmd' = [cmd EXCEPT ![sub] = h]
             /\ call' = [active |-> TRUE, sub |-> sub, h |-> h, target |-> t,
                         tick |-> 0]
       /\ UNCHANGED ret

\* overlayfsfuseDriver.Mount starts its helper the same way.
OverlayMount(t) == DriverMount("overlay", t)

\* fuseappsDriver.Mount: "overlay" goes to the overlay driver, everything
\* else to the squash driver.  A caller may mount before or after it has
\* queried Features.
MountCall ==
    /\ phase = "ready"
    /\ "fuseapps" \in registry
    /\ ~call.active
    /\ \E fs \in Filesystems, t \in Targets :
         LET sub == IF fs = "overlay" THEN "overlay" ELSE "squash"
         IN \/ /\ ~bound[sub]
               /\ Return("noDriver", sub, 0, t)
               /\ UNCHANGED <<cmd, helper, nhelpers, call>>
            \/ /\ bound[sub] /\ sub = "squash"
               /\ DriverMount("squash", t)
            \/ /\ bound[sub] /\ sub = "overlay"
               /\ OverlayMount(t)
    /\ UNCHANGED <<conf, phase, imageDriver, registry, bound, features,
                   mountinfo>>

\* process.Signal(0) fails only for a child already reaped by Wait; the
\* loop calls Wait only after such a failure, so an exited helper (a
\* zombie) still answers.
Signal0Fails(h) == helper[h].st = "reaped"

\* Mutant: any mountinfo entry is taken for the target.
EntryMatchesAny(t) == mountinfo # {}

\* The scan of mountinfo for an entry whose Point equals the target.
EntryMatches(t) == t \in mountinfo

\* Mutant: the timeout path returns without d.Stop().
TimeoutNoStop(sub) == UNCHANGED helper

TimeoutStop(sub) == DriverStop(sub)

\* Mutant: the loop condition compares with <= and polls one tick more.
PollsLeftOneMore(t) == t <= MaxTicks

\* The loop condition totTime < maxTime, with t ticks slept so far.
PollsLeft(t) == t < MaxTicks

\* The sleep of one iteration: totTime += sleepTime.
\* Mutant: totTime is not advanced.
SleptNotCounted(tick) == tick

Slept(tick) == tick + 1

\* One iteration of the poll loop of squashfuseDriver.Mount: sleep 25 ms,
\* signal 0, read mountinfo, look for the target; after the last tick,
\* Stop and a timeout error.  A failed read of mountinfo is the action
\* MountinfoFails.
DriverPoll(sub) ==
    /\ call.active
    /\ call.sub = sub
    /\ LET h == call.h
           t == Slept(call.tick)
       IN IF Signal0Fails(h)
             THEN /\ Return("helperFailed", sub, h, call.target)
                  /\ call' = Idle
                  /\ UNCHANGED helper
             ELSE \/ /\ EntryMatches(call.target)
                     /\ Return("ok", sub, h, call.target)
                     /\ call' = Idle
                     /\ UNCHANGED helper
                  \/ /\ ~EntryMatches(call.target)
                     /\ PollsLeft(t)
                     /\ call' = [call EXCEPT !.tick = t]
                     /\ UNCHANGED <<helper, ret>>
                  \/ /\ ~EntryMatches(call.target)
                     /\ ~PollsLeft(t)
                     /\ TimeoutStop(sub)
                     /\ Return("timeout", sub, h, call.target)
                     /\ call' = Idle
    /\ UNCHANGED <<conf, phase, imageDriver, registry, bound, features, cmd,
                   nhelpers, mountinfo>>

\* proc.GetMountInfoEntry fails in an iteration whose signal 0 succeeded:
\* d.Stop() and an error.
MountinfoFails(sub) ==
    /\ call.active
    /\ call.sub = sub
    /\ ~Signal0Fails(call.h)
    /\ DriverStop(sub)
    /\ Return("mountinfoErr", sub, call.h, call.target)
    /\ call' = Idle
    /\ UNCHANGED <<conf, phase, imageDriver, registry, bound, features, cmd,
                   nhelpers, mountinfo>>

\* The poll loop of overlayfsfuseDriver.Mount is the same loop.
OverlayPoll == DriverPoll("overlay")

\* fuseappsDriver.Stop fans out to the bound sub-drivers.
FuseappsStop ==
    /\ phase = "ready"
    /\ ~call.active
    /\ LET hs == IF bound["squash"] THEN SquashStop(helper) ELSE helper
       IN helper' = IF bound["overlay"] THEN OverlayStop(hs) ELSE hs
    /\ phase' = "stopped"
    /\ UNCHANGED <<conf, imageDriver, registry, bound, features, cmd, nhelpers,
                   mountinfo, call, ret>>

-----------------------------------------------------------------------------
(* The helper processes (squashfuse, fuse-overlayfs run with -f).          *)

\* The helper's FUSE mount appears in mountinfo.
HelperMounts(i) ==
    /\ helper[i].st = "running"
    /\ ~helper[i].mnt
    /\ helper' = [helper EXCEPT ![i].mnt = TRUE]
    /\ mountinfo' = mountinfo \cup {helper[i].target}
    /\ UNCHANGED <<conf, phase, imageDriver, registry, bound, features, cmd,
                   nhelpers, call, ret>>

\* The helper exits by itself (bad image, crash); nobody reaps it yet and
\* its mount, if any, stays listed.
HelperExits(i) ==
    /\ helper[i].st = "running"
    /\ helper' = [helper EXCEPT ![i].st = "exited"]
    /\ UNCHANGED <<conf, phase, imageDriver, registry, bound, features, cmd,
                   nhelpers, mountinfo, call, ret>>

Next ==
    \/ InitImageDrivers \/ Features \/ MountCall
    \/ DriverPoll("squash") \/ OverlayPoll \/ FuseappsStop
    \/ \E s \in Subs : MountinfoFails(s)
    \/ \E i \in Helpers : HelperMounts(i) \/ HelperExits(i)

\* The goroutine in Mount wakes from each 25 ms sleep and runs the next
\* iteration.  Nothing is assumed of the helpers or of mountinfo reads.
Fairness == WF_vars(DriverPoll("squash")) /\ WF_vars(OverlayPoll)

Spec == Init /\ [][Next]_vars /\ Fairness

-----------------------------------------------------------------------------
(* Properties.                                                             *)

\* What a Mount returns agrees with the helpers and the mount table: success
\* only once the target itself is listed in mountinfo, and after a timeout
\* or a mountinfo error the helper it started is no longer running (spec
\* section 8, property 7), whatever the helper did meanwhile.
MountOutcomeConsistent ==
    /\ ret.res = "ok" => ret.target \in mountinfo
    /\ ret.res \in {"timeout", "mountinfoErr"} => helper[ret.h].st # "running"

\* Every Mount returns: whether the helper mounts, hangs without mounting
\* or dies, the poll loop of squashfuseDriver.Mount ends within its 2 s
\* (spec section 4.I: the mount times out).
MountReturns == call.active ~> ~call.active

\* After fuseapps Stop no helper process started by the drivers is left
\* running (spec section 4.I: Stop signal-kills any live child).
StopKillsAllHelpers ==
    phase = "stopped" => \A i \in Helpers : helper[i].st # "running"

\* A helper that dies during the poll is reported as the helper's failure,
\* with its stderr, not as a mount timeout (spec section 4.I).
HelperDeathReported ==
    ret.res = "timeout" => helper[ret.h].st = "killed"
=============================================================================
