------------------------------ MODULE Lifecycle -----------------------------
(***************************************************************************)
(* One container from start to stop: the launcher run-zd1200-web.sh, the   *)
(* CPU limiter limit-process-cpu.py that stops and continues QEMU, the     *)
(* guest with its control hook and readiness marker, and what              *)
(* zd-healthcheck.sh concludes from the serial log.                        *)
(*                                                                         *)
(* A unit of time is a second of the launcher's loops.  Commands take no   *)
(* time; the launcher sleeps (pause) and the shell runs its traps only     *)
(* when a sleep is over.  The limiter's period is a tenth of a second, so  *)
(* a limited guest still makes progress in every second.                   *)
(***************************************************************************)
EXTENDS Naturals

CONSTANTS
  Sample,      \* seconds between two CPU samples, 5
  HighLimit,   \* consecutive high samples before QEMU is stopped, 4
  ProbeLimit,  \* WEB_WAIT_SECONDS, 180
  WaitLimit,   \* seconds the launcher waits for the guest to shut down, 90
  TermLimit,   \* seconds QEMU has after SIGTERM, 10
  Grace,       \* stop_grace_period of the container, 120
  HaltMax,     \* the longest shutdown of the guest
  MountMin,    \* the shortest time from a reset to the mount of hda4
  MaxFaults    \* bound: faults in a behaviour

ASSUME TimeAssumption ==
  /\ Sample \in Nat \ {0} /\ HighLimit \in Nat \ {0} /\ ProbeLimit \in Nat \ {0}
  /\ WaitLimit \in Nat \ {0} /\ TermLimit \in Nat \ {0}
  /\ HaltMax \in Nat /\ MaxFaults \in Nat /\ MountMin \in Nat \ {0}
ASSUME HaltAssumption == HaltMax < WaitLimit
ASSUME MountAssumption == MountMin > 1
ASSUME GraceAssumption == Grace \in Nat /\ Grace > Sample + WaitLimit + TermLimit

Marker == {"ready", "stop", "fault"}

VARIABLES
  limit,     \* CPU_LIMIT: absent, a percentage, or rejected
  probe,     \* WEB_PROBE: "on", "off", or rejected
  pc,        \* the next step of the launcher
  pause,     \* what is left of the launcher's sleep
  turns,     \* turns left in the launcher's present loop
  high,      \* high_cpu_samples
  limiter,   \* the limiter runs
  qemu,      \* "none", "up", "dead"
  frozen,    \* QEMU has had SIGSTOP and no SIGCONT
  guest,     \* where the guest is between reset and reset
  age,       \* seconds of running time in the present guest phase
  web,       \* webs owns a listener
  spin,      \* the guest spins instead of idling
  command,   \* "reboot" is on its way to the control hook
  log,       \* <<m, n>>: the serial log has an m, and no n after the last one
  restarted, \* "Restarting system." is after marker_start
  heard,     \* the control hook, or a shutdown, was there to take the request
  announced, \* the present boot has logged its readiness
  asked,     \* docker stop
  grace,     \* seconds since
  faults

launcher == <<pc, pause, turns, high>>
machine  == <<limiter, qemu, frozen>>
inside   == <<guest, age, web, spin, announced>>
asking   == <<restarted, heard>>
outside  == <<asked, grace>>
vars == <<limit, probe, launcher, machine, inside, command, log, asking,
          outside, faults>>

Phase == {"off", "boot", "mounted", "up", "halting"}

TypeInv ==
  /\ limit \in {"none", "on", "bad"} /\ probe \in {"on", "off", "bad"}
  /\ pc \in {"down", "start", "limit", "ready?", "probe", "watch", "sample",
             "unlimit", "request", "await", "term", "reap", "exit"}
  /\ pause \in 0 .. Sample
  /\ turns \in 0 .. ProbeLimit + WaitLimit + TermLimit
  /\ high \in 0 .. HighLimit
  /\ limiter \in BOOLEAN /\ qemu \in {"none", "up", "dead"} /\ frozen \in BOOLEAN
  /\ guest \in Phase /\ age \in 0 .. HaltMax + MountMin
  /\ web \in BOOLEAN /\ spin \in BOOLEAN /\ command \in BOOLEAN
  /\ log \subseteq Marker \X Marker
  /\ restarted \in BOOLEAN /\ heard \in BOOLEAN /\ announced \in BOOLEAN
  /\ asked \in BOOLEAN /\ grace \in 0 .. Grace
  /\ faults \in 0 .. MaxFaults

Init ==
  /\ limit \in {"none", "on", "bad"} /\ probe \in {"on", "off", "bad"}
  /\ pc = "down" /\ pause = 0 /\ turns = 0 /\ high = 0
  /\ limiter = FALSE /\ qemu = "none" /\ frozen = FALSE
  /\ guest = "off" /\ age = 0 /\ web = FALSE /\ spin = FALSE /\ announced = FALSE
  /\ command = FALSE /\ log = {} /\ restarted = FALSE /\ heard = FALSE
  /\ asked = FALSE /\ grace = 0
  /\ faults = 0

(* The guest's processor runs: between two signals of the limiter it does. *)
Runs == qemu = "up" /\ (limiter \/ ~frozen)

(* What grep -n | tail -n 1 can tell of the log: whether a marker is there, *)
(* and which of two has the later last line.                               *)
Logged(m) == {p \in log : p[2] # m} \cup ({m} \X Marker)
Has(m) == <<m, m>> \in log
After(m, n) == <<m, n>> \in log

(* zd-healthcheck.sh: QEMU is there, and the last readiness is after the    *)
(* last shutdown and the last file system fault.                           *)
Healthy ==
  /\ qemu = "up"
  /\ Has("ready")
  /\ Has("stop") => After("ready", "stop")
  /\ Has("fault") => After("ready", "fault")

Fault == faults < MaxFaults /\ faults' = faults + 1

(* The machine is gone, and the guest with it. *)
MachineOff ==
  /\ qemu' = "dead" /\ frozen' = FALSE
  /\ guest' = "off" /\ age' = 0 /\ web' = FALSE /\ spin' = FALSE /\ announced' = FALSE

-----------------------------------------------------------------------------
(* The launcher.                                                           *)

(* Docker starts the container: at first, and again after an exit of its    *)
(* own (restart: unless-stopped).  Everything of the last one is gone but   *)
(* the files.                                                              *)
ContainerStart ==
  /\ pc = "down" /\ ~asked
  /\ pc' = "start" /\ high' = 0
  /\ qemu' = "none" /\ command' = FALSE
  /\ UNCHANGED <<limit, probe, pause, turns, limiter, frozen, inside, log, asking,
                 outside, faults>>

KeptLogMutant ==
  /\ pc = "start" /\ ~asked
  /\ qemu' = "up" /\ frozen' = FALSE /\ guest' = "boot" /\ age' = 0
  /\ web' = FALSE /\ spin' = FALSE /\ announced' = FALSE
  /\ pc' = "limit"
  /\ UNCHANGED <<limit, probe, pause, turns, high, limiter, command, log, asking,
                 outside, faults>>

(* The log is emptied and QEMU started in a session of its own. *)
StartQemu ==
  /\ pc = "start" /\ ~asked
  /\ log' = {}
  /\ qemu' = "up" /\ frozen' = FALSE /\ guest' = "boot" /\ age' = 0
  /\ web' = FALSE /\ spin' = FALSE /\ announced' = FALSE
  /\ pc' = "limit"
  /\ UNCHANGED <<limit, probe, pause, turns, high, limiter, command, asking,
                 outside, faults>>

(* CPU_LIMIT: a value that is not a percentage ends the launcher.          *)
StartLimiter ==
  /\ pc = "limit" /\ ~asked
  /\ limiter' = (limit = "on")
  /\ pc' = IF limit = "bad" THEN "unlimit" ELSE "ready?"
  /\ UNCHANGED <<limit, probe, pause, turns, high, qemu, frozen, inside, command, log,
                 asking, outside, faults>>

(* WEB_PROBE and WEB_WAIT_SECONDS. *)
ChooseProbe ==
  /\ pc = "ready?" /\ ~asked
  /\ pc' = CASE probe = "off" -> "watch" [] probe = "on" -> "probe" [] OTHER -> "unlimit"
  /\ turns' = IF probe = "on" THEN ProbeLimit ELSE 0
  /\ UNCHANGED <<limit, probe, pause, high, machine, inside, command, log, asking,
                 outside, faults>>

(* A turn of the readiness loop: the page answers, QEMU is gone, the        *)
(* deadline is over, or another second.                                    *)
Probe ==
  /\ pc = "probe" /\ pause = 0 /\ ~asked
  /\ pc' = CASE turns > 0 /\ web /\ Runs -> "watch"
             [] turns > 0 /\ qemu = "up" /\ ~(web /\ Runs) -> "probe"
             [] OTHER -> "unlimit"
  /\ turns' = IF pc' = "probe" THEN turns - 1 ELSE 0
  /\ pause' = IF pc' = "probe" THEN 1 ELSE 0
  /\ UNCHANGED <<limit, probe, high, machine, inside, command, log, asking, outside,
                 faults>>

UnheadedMutant ==
  /\ pc = "watch" /\ ~asked
  /\ pc' = "sample" /\ pause' = Sample
  /\ UNCHANGED <<limit, probe, turns, high, machine, inside, command, log, asking,
                 outside, faults>>

(* The head of the supervision loop. *)
Watch ==
  /\ pc = "watch" /\ ~asked
  /\ pc' = IF qemu = "up" THEN "sample" ELSE "unlimit"
  /\ pause' = IF qemu = "up" THEN Sample ELSE 0
  /\ UNCHANGED <<limit, probe, turns, high, machine, inside, command, log, asking,
                 outside, faults>>

NeverHighMutant ==
  /\ pc = "sample" /\ pause = 0 /\ ~asked
  /\ high' = IF spin /\ ~limiter /\ high = 0 THEN 1 ELSE 0
  /\ pc' = IF high' >= HighLimit THEN "unlimit" ELSE "watch"
  /\ UNCHANGED <<limit, probe, pause, turns, machine, inside, command, log, asking,
                 outside, faults>>

OneMoreMutant ==
  /\ pc = "sample" /\ pause = 0 /\ ~asked
  /\ high' = IF spin /\ ~limiter THEN high + 1 ELSE 0
  /\ pc' = IF high' > HighLimit THEN "unlimit" ELSE "watch"
  /\ UNCHANGED <<limit, probe, pause, turns, machine, inside, command, log, asking,
                 outside, faults>>

(* Five seconds later.  A spinning guest uses the whole processor unless    *)
(* the limiter takes its share.                                            *)
TakeSample ==
  /\ pc = "sample" /\ pause = 0 /\ ~asked
  /\ high' = IF spin /\ ~limiter THEN high + 1 ELSE 0
  /\ pc' = IF high' >= HighLimit THEN "unlimit" ELSE "watch"
  /\ UNCHANGED <<limit, probe, pause, turns, machine, inside, command, log, asking,
                 outside, faults>>

(* on_signal: the trap runs when the command that was running is over.     *)
OnSignal ==
  /\ asked /\ pause = 0
  /\ pc \in {"start", "limit", "ready?", "probe", "watch", "sample"}
  /\ pc' = "unlimit"
  /\ UNCHANGED <<limit, probe, pause, turns, high, machine, inside, command, log,
                 asking, outside, faults>>

(* cleanup: the limiter is ended by SIGTERM, which Python does not turn     *)
(* into an exception: its finally clause, which would send SIGCONT, does   *)
(* not run.                                                                *)
EndLimiter ==
  /\ pc = "unlimit"
  /\ limiter' = FALSE
  /\ pc' = IF qemu = "none" THEN "exit" ELSE "request"
  /\ UNCHANGED <<limit, probe, pause, turns, high, qemu, frozen, inside, command, log,
                 asking, outside, faults>>

(* The request goes to the control socket, which QEMU makes when it starts  *)
(* and which refuses it when QEMU is gone.  A QEMU that is stopped does     *)
(* not: the kernel takes the request for it.                               *)
Request ==
  /\ pc = "request"
  /\ \E sent \in BOOLEAN :
       /\ IF sent THEN qemu = "up" ELSE qemu # "up" \/ guest = "boot"
       /\ restarted' = FALSE /\ heard' = (sent /\ guest \in {"up", "halting"})
       /\ command' = sent
       /\ pc' = IF sent THEN "await" ELSE "term"
       /\ turns' = IF sent THEN WaitLimit ELSE 0
  /\ UNCHANGED <<limit, probe, pause, high, machine, inside, log, outside, faults>>

ImpatientMutant ==
  /\ pc = "await" /\ pause = 0
  /\ pc' = "term" /\ pause' = 0 /\ turns' = 0
  /\ UNCHANGED <<limit, probe, high, machine, inside, command, log, asking, outside,
                 faults>>

EndlessMutant ==
  /\ pc = "await" /\ pause = 0
  /\ pc' = IF restarted \/ qemu # "up" THEN "term" ELSE "await"
  /\ turns' = IF pc' = "await" THEN turns ELSE 0
  /\ pause' = IF pc' = "await" THEN 1 ELSE 0
  /\ UNCHANGED <<limit, probe, high, machine, inside, command, log, asking, outside,
                 faults>>

(* A turn of the 90: the restart marker, QEMU gone, or another second.     *)
Await ==
  /\ pc = "await" /\ pause = 0
  /\ pc' = IF turns = 0 \/ restarted \/ qemu # "up" THEN "term" ELSE "await"
  /\ turns' = IF pc' = "await" THEN turns - 1 ELSE 0
  /\ pause' = IF pc' = "await" THEN 1 ELSE 0
  /\ UNCHANGED <<limit, probe, high, machine, inside, command, log, asking, outside,
                 faults>>

(* SIGCONT and SIGTERM to QEMU's process group.  QEMU ends on SIGTERM (and  *)
(* closes its disk), or hangs in it.                                       *)
Terminate ==
  /\ pc = "term"
  /\ pc' = "reap" /\ turns' = TermLimit
  /\ \/ MachineOff /\ UNCHANGED faults
     \/ Fault /\ frozen' = FALSE /\ UNCHANGED <<qemu, inside>>
  /\ UNCHANGED <<limit, probe, pause, high, limiter, command, log, asking, outside>>

NoKillMutant ==
  /\ pc = "reap" /\ pause = 0
  /\ IF qemu = "up" /\ turns > 0
       THEN /\ turns' = turns - 1 /\ pause' = 1 /\ UNCHANGED <<pc, qemu, frozen, inside>>
       ELSE /\ pc' = "exit" /\ turns' = 0 /\ pause' = 0 /\ UNCHANGED <<qemu, frozen, inside>>
  /\ UNCHANGED <<limit, probe, high, limiter, command, log, asking, outside, faults>>

(* Ten seconds, then SIGKILL. *)
Reap ==
  /\ pc = "reap" /\ pause = 0
  /\ IF qemu = "up" /\ turns > 0
       THEN /\ turns' = turns - 1 /\ pause' = 1 /\ UNCHANGED <<pc, qemu, frozen, inside>>
       ELSE /\ pc' = "exit" /\ turns' = 0 /\ pause' = 0 /\ MachineOff
  /\ UNCHANGED <<limit, probe, high, limiter, command, log, asking, outside, faults>>

(* The launcher is PID 1's only child: with it goes the container.         *)
Exit ==
  /\ pc = "exit"
  /\ pc' = "down"
  /\ UNCHANGED <<limit, probe, pause, turns, high, machine, inside, command, log,
                 asking, outside, faults>>

-----------------------------------------------------------------------------
(* The limiter: stop and continue, until it is ended or QEMU is gone.      *)

Throttle ==
  /\ limiter /\ qemu = "up"
  /\ frozen' = ~frozen
  /\ UNCHANGED <<limit, probe, launcher, limiter, qemu, inside, command, log, asking,
                 outside, faults>>

LimiterEnds ==
  /\ limiter /\ qemu # "up"
  /\ limiter' = FALSE
  /\ UNCHANGED <<limit, probe, launcher, qemu, frozen, inside, command, log, asking,
                 outside, faults>>

-----------------------------------------------------------------------------
(* The guest.                                                              *)

(* boot-initrd-handoff mounts hda4; the serial driver may have dropped what *)
(* was sent before it.                                                     *)
Mount ==
  /\ Runs /\ guest = "boot" /\ age >= MountMin
  /\ guest' = "mounted" /\ age' = 0
  /\ command' \in {FALSE, command}
  /\ UNCHANGED <<limit, probe, launcher, machine, web, spin, announced, log, asking,
                 outside, faults>>

(* S98zd_container_control reads the second serial port. *)
StartHook ==
  /\ Runs /\ guest = "mounted"
  /\ guest' = "up"
  /\ UNCHANGED <<limit, probe, launcher, machine, age, web, spin, announced, command,
                 log, asking, outside, faults>>

StartWeb ==
  /\ Runs /\ guest \in {"mounted", "up"} /\ ~web
  /\ web' = TRUE
  /\ UNCHANGED <<limit, probe, launcher, machine, guest, age, spin, announced, command,
                 log, asking, outside, faults>>

(* The readiness loop of zd-controller-wrapper.sh, once in a boot.  A       *)
(* shutdown that has begun does not end it at once.                        *)
Announce ==
  /\ Runs /\ guest \in {"mounted", "up", "halting"} /\ web /\ ~announced
  /\ announced' = TRUE /\ log' = Logged("ready")
  /\ UNCHANGED <<limit, probe, launcher, machine, guest, age, web, spin, command,
                 asking, outside, faults>>

(* The hook executes /sbin/reboot; the administrator can restart as well.   *)
BeginHalt ==
  /\ Runs /\ guest = "up"
  /\ \/ command /\ command' = FALSE /\ UNCHANGED faults
     \/ ~command /\ Fault /\ UNCHANGED command
  /\ guest' = "halting" /\ age' = 0 /\ log' = Logged("stop")
  /\ UNCHANGED <<limit, probe, launcher, machine, web, spin, announced, asking,
                 outside>>

(* Everything is flushed; "Restarting system." and the reset. *)
Restart ==
  /\ Runs /\ guest = "halting"
  /\ guest' = "boot" /\ age' = 0 /\ web' = FALSE /\ spin' = FALSE /\ announced' = FALSE
  /\ log' = Logged("stop") /\ restarted' = TRUE
  /\ UNCHANGED <<limit, probe, launcher, machine, command, heard, outside, faults>>

FileSystemFault ==
  /\ Runs /\ guest \in {"mounted", "up"} /\ Fault
  /\ log' = Logged("fault")
  /\ UNCHANGED <<limit, probe, launcher, machine, inside, command, asking, outside>>

Spin ==
  /\ Runs /\ guest \in {"mounted", "up"} /\ Fault
  /\ spin' = ~spin
  /\ UNCHANGED <<limit, probe, launcher, machine, guest, age, web, announced, command,
                 log, asking, outside>>

QemuDies ==
  /\ qemu = "up" /\ Fault
  /\ MachineOff
  /\ UNCHANGED <<limit, probe, launcher, limiter, command, log, asking, outside>>

-----------------------------------------------------------------------------
(* Time and Docker.                                                        *)

Stop ==
  /\ ~asked /\ pc # "down"
  /\ asked' = TRUE
  /\ UNCHANGED <<limit, probe, launcher, machine, inside, command, log, asking,
                 grace, faults>>

(* A second.  The guest reads its command at once and shuts down in time.  *)
Tick ==
  /\ pause > 0
  /\ ~(Runs /\ guest = "up" /\ command)
  /\ ~(Runs /\ guest = "halting" /\ age >= HaltMax)
  /\ pause' = pause - 1
  /\ grace' = IF asked /\ grace < Grace THEN grace + 1 ELSE grace
  /\ age' = IF Runs /\ (guest = "halting" \/ (guest = "boot" /\ age < MountMin))
              THEN age + 1 ELSE age
  /\ UNCHANGED <<limit, probe, pc, turns, high, machine, guest, web, spin, announced,
                 command, log, asking, asked, faults>>

LauncherStep ==
  \/ ContainerStart \/ StartQemu \/ StartLimiter \/ ChooseProbe \/ Probe
  \/ Watch \/ TakeSample \/ OnSignal
  \/ EndLimiter \/ Request \/ Await \/ Terminate \/ Reap \/ Exit

GuestStep ==
  \/ Mount \/ StartHook \/ StartWeb \/ Announce \/ BeginHalt \/ Restart

Next ==
  \/ LauncherStep \/ Throttle \/ LimiterEnds
  \/ GuestStep \/ FileSystemFault \/ Spin \/ QemuDies
  \/ Stop \/ Tick
  \/ pc = "down" /\ asked /\ UNCHANGED vars

Spec == Init /\ [][Next]_vars

(* The launcher's commands end, time passes, and a guest that runs takes    *)
(* its command and finishes its shutdown, which Tick waits for.            *)
FairSpec ==
  /\ Spec
  /\ WF_vars(LauncherStep) /\ WF_vars(Tick)
  /\ WF_vars(BeginHalt /\ command) /\ WF_vars(Restart)

-----------------------------------------------------------------------------
(* When the launcher exits neither QEMU nor the limiter is left: a second   *)
(* QEMU would open the same disk image (cleanup).                          *)
NothingLeft == pc = "exit" => qemu # "up" /\ ~limiter

(* A stopped container is down before Docker loses patience and kills what  *)
(* is in it (stop_grace_period), as far as the waits of the launcher go:    *)
(* the commands between them take no time here.                            *)
WithinGrace == grace < Grace

(* The container is healthy only when its present guest boot has reached    *)
(* readiness: neither the log of an earlier container nor that of the boot *)
(* before a restart counts (zd-healthcheck.sh).                            *)
HealthyMeansReady == Healthy => announced

(* Terminate ends a guest that took the request only once everything is     *)
(* flushed, and before the next boot has mounted hda4 again.               *)
Orderly == pc = "term" /\ pc' = "reap" /\ heard => guest \in {"boot", "off"}

(* Every guest that could take the request shuts down in order (README:     *)
(* "the guest performs its normal repository and filesystem flush").       *)
OrderlyStop == [][Orderly]_vars

(* The same for a QEMU that was not stopped when the limiter was ended.    *)
OrderlyThawed == [][frozen \/ Orderly]_vars

(* A stop request is always carried out, whatever the guest does. *)
StopEnds == asked ~> pc = "down"

(* A QEMU that died is started again, with the container. *)
StartedAgain == qemu = "dead" ~> qemu = "up" \/ asked

(* A guest that spins without a limit does not keep the processor busy      *)
(* for ever: the supervision ends it.                                      *)
SpinEnds == spin /\ limit = "none" ~> ~spin \/ asked
=============================================================================
