--------------------------- MODULE LifecycleProofs --------------------------
(***************************************************************************)
(* Proofs about Lifecycle for every sampling period and limit, every       *)
(* WEB_WAIT_SECONDS, every grace period that covers the launcher's waits,  *)
(* every guest that shuts down within the wait, and every number of faults.*)
(***************************************************************************)
EXTENDS Lifecycle, TLAPS

(* The launcher's normal life, before cleanup. *)
Early == {"start", "limit", "ready?", "probe", "watch", "sample"}

(* The launcher sleeps in its loops only, a second when it waits, stops     *)
(* counting at the limit, and no phase of the guest outlasts its bound.     *)
CountInv ==
  /\ pause > 0 => pc \in {"probe", "sample", "await", "reap"}
  /\ pc = "await" => pause <= 1
  /\ pc \in Early => high < HighLimit
  /\ guest = "halting" => age <= HaltMax
  /\ guest = "boot" => age <= MountMin

(* The limiter lives between its start and the cleanup, the machine between *)
(* its start and the end of the cleanup, and a guest only in a machine.     *)
OwnerInv ==
  /\ limiter => pc \in {"ready?", "probe", "watch", "sample", "unlimit"}
  /\ pc \in {"down", "start", "exit"} => qemu # "up"
  /\ qemu # "up" => guest = "off"

(* What the cleanup has left of the grace period. *)
GraceInv ==
  /\ ~asked => grace = 0
  /\ pc \in Early => grace + pause <= Sample
  /\ pc \in {"unlimit", "request"} => grace <= Sample
  /\ pc = "await" => grace + pause + turns <= Sample + WaitLimit
  /\ pc = "term" => grace <= Sample + WaitLimit
  /\ pc = "reap" => grace + pause + turns <= Sample + WaitLimit + TermLimit
  /\ pc \in {"exit", "down"} => grace <= Sample + WaitLimit + TermLimit

(* A readiness that no shutdown follows is that of the present boot. *)
ReadyInv ==
  /\ Has("ready") /\ ~After("ready", "stop") => Has("stop")
  /\ qemu = "up" /\ After("ready", "stop") => announced

(* While the launcher waits for a guest that took its request and runs, the *)
(* shutdown is ahead of the wait; once it is over, the next boot has had no *)
(* time to mount hda4.                                                      *)
WaitInv ==
  /\ pc = "await" /\ heard /\ ~frozen =>
       \/ guest = "off"
       \/ guest = "up" /\ command /\ ~restarted /\ pause + turns = WaitLimit
       \/ guest = "halting" /\ ~restarted /\ age + pause + turns >= WaitLimit
       \/ guest = "boot" /\ restarted /\ age + pause <= 1
  /\ pc = "term" /\ heard /\ ~frozen =>
       guest = "off" \/ (guest = "boot" /\ age <= 1)

Inv == TypeInv /\ CountInv /\ OwnerInv /\ GraceInv /\ ReadyInv /\ WaitInv

-----------------------------------------------------------------------------
(* Steps by who takes them. *)

Elsewhere ==
  Throttle \/ LimiterEnds \/ GuestStep \/ FileSystemFault \/ Spin \/ QemuDies

(* The launcher neither passes time nor asks itself to stop. *)
LEMMA LauncherQuiet == LauncherStep => UNCHANGED <<limit, probe, outside>>
  BY DEF LauncherStep, ContainerStart, StartQemu, StartLimiter, ChooseProbe, Probe, Watch,
         TakeSample, OnSignal, EndLimiter, Request, Await, Terminate, Reap, Exit, outside

(* The limiter, the guest and what befalls them leave the launcher alone. *)
LEMMA ElsewhereQuiet == Elsewhere => UNCHANGED <<limit, probe, launcher, outside>>
  BY DEF Elsewhere, GuestStep, Throttle, LimiterEnds, FileSystemFault, Spin, QemuDies, Mount,
         StartHook, StartWeb, Announce, BeginHalt, Restart

(* Who can take a step. *)
LEMMA StepBy == [Next]_vars => LauncherStep \/ Elsewhere \/ Stop \/ Tick \/ UNCHANGED vars
  BY DEF Next, Elsewhere

(* A fault is counted. *)
LEMMA FaultCounts == ASSUME faults \in 0 .. MaxFaults, Fault
                     PROVE  faults' \in 0 .. MaxFaults
  BY TimeAssumption DEF Fault

LEMMA LoggedType == \A m \in Marker : log \subseteq Marker \X Marker
                                        => Logged(m) \subseteq Marker \X Marker
  BY DEF Logged

-----------------------------------------------------------------------------
(* Types. *)

LEMMA InvInit == Init => Inv
<1> SUFFICES ASSUME Init PROVE Inv
  OBVIOUS
<1>1. TypeInv
  <2>1. /\ limit \in {"none", "on", "bad"} /\ probe \in {"on", "off", "bad"}
        /\ pc = "down" /\ limiter = FALSE /\ qemu = "none" /\ frozen = FALSE
        /\ guest = "off" /\ web = FALSE /\ spin = FALSE /\ announced = FALSE
        /\ command = FALSE /\ log = {} /\ restarted = FALSE /\ heard = FALSE
        /\ asked = FALSE
    BY DEF Init
  <2>2. pause = 0 /\ turns = 0 /\ high = 0 /\ age = 0 /\ grace = 0 /\ faults = 0
    BY DEF Init
  <2>3. /\ pause \in 0 .. Sample /\ turns \in 0 .. ProbeLimit + WaitLimit + TermLimit
        /\ high \in 0 .. HighLimit /\ age \in 0 .. HaltMax + MountMin
        /\ grace \in 0 .. Grace /\ faults \in 0 .. MaxFaults
    BY <2>2, TimeAssumption, GraceAssumption
  <2> QED  BY <2>1, <2>3 DEF TypeInv, Phase
<1>2. CountInv /\ OwnerInv /\ WaitInv
  BY TimeAssumption DEF Init, CountInv, OwnerInv, WaitInv, Early
<1>3. GraceInv
  BY TimeAssumption DEF Init, GraceInv, Early
<1>4. ReadyInv
  BY DEF Init, ReadyInv, Has, After
<1> QED  BY <1>1, <1>2, <1>3, <1>4 DEF Inv

(* The numbers stay within their bounds. *)
NumberType ==
  /\ pause \in 0 .. Sample
  /\ turns \in 0 .. ProbeLimit + WaitLimit + TermLimit
  /\ high \in 0 .. HighLimit
  /\ age \in 0 .. HaltMax + MountMin
  /\ grace \in 0 .. Grace
  /\ faults \in 0 .. MaxFaults

(* Everything else stays what it is. *)
StateType ==
  /\ limit \in {"none", "on", "bad"} /\ probe \in {"on", "off", "bad"}
  /\ pc \in {"down", "start", "limit", "ready?", "probe", "watch", "sample",
             "unlimit", "request", "await", "term", "reap", "exit"}
  /\ limiter \in BOOLEAN /\ qemu \in {"none", "up", "dead"} /\ frozen \in BOOLEAN
  /\ guest \in Phase
  /\ web \in BOOLEAN /\ spin \in BOOLEAN /\ command \in BOOLEAN
  /\ log \subseteq Marker \X Marker
  /\ restarted \in BOOLEAN /\ heard \in BOOLEAN /\ announced \in BOOLEAN
  /\ asked \in BOOLEAN

LEMMA TypeParts == TypeInv <=> NumberType /\ StateType
  BY DEF TypeInv, NumberType, StateType

LEMMA StateTypeStep == Inv /\ [Next]_vars => StateType'
<1> SUFFICES ASSUME Inv, [Next]_vars PROVE StateType'
  OBVIOUS
<1> USE DEF launcher, machine, inside, asking, outside
<1>a. StateType
  BY TypeParts DEF Inv
<1>b. \A m \in Marker : Logged(m) \subseteq Marker \X Marker
  BY <1>a, LoggedType DEF StateType
<1>1. CASE ContainerStart
  <2>1. pc' = "start" /\ qemu' = "none" /\ command' = FALSE
    BY <1>1 DEF ContainerStart
  <2>2. command' \in BOOLEAN
    BY <2>1
  <2>3. UNCHANGED <<limit, probe, limiter, frozen, inside, log, asking, outside>>
    BY <1>1 DEF ContainerStart
  <2> QED  BY <1>a, <2>1, <2>2, <2>3 DEF StateType
<1>2. CASE StartQemu
  <2>1. /\ log' = {} /\ qemu' = "up" /\ guest' = "boot" /\ pc' = "limit"
        /\ frozen' = FALSE /\ web' = FALSE /\ spin' = FALSE /\ announced' = FALSE
    BY <1>2 DEF StartQemu
  <2>2. /\ frozen' \in BOOLEAN /\ web' \in BOOLEAN /\ spin' \in BOOLEAN
        /\ announced' \in BOOLEAN
    BY <2>1
  <2>3. guest' \in Phase /\ log' \subseteq Marker \X Marker
    BY <2>1 DEF Phase
  <2>4. UNCHANGED <<limit, probe, limiter, command, asking, outside>>
    BY <1>2 DEF StartQemu
  <2> QED  BY <1>a, <2>1, <2>2, <2>3, <2>4 DEF StateType
<1>3. CASE StartLimiter
  <2>1. pc' \in {"unlimit", "ready?"} /\ limiter' = (limit = "on")
    BY <1>3 DEF StartLimiter
  <2>2. limiter' \in BOOLEAN
    BY <2>1
  <2>3. UNCHANGED <<limit, probe, qemu, frozen, inside, command, log, asking, outside>>
    BY <1>3 DEF StartLimiter
  <2>4. pc' \in {"unlimit", "ready?"}
    BY <2>1
  <2> QED  BY <1>a, <2>2, <2>3, <2>4 DEF StateType
<1>4. CASE ChooseProbe
  BY <1>4, <1>a, <1>b DEF ChooseProbe, StateType, Phase, Marker
<1>5. CASE Probe
  BY <1>5, <1>a, <1>b DEF Probe, StateType, Phase, Marker
<1>6. CASE Watch
  BY <1>6, <1>a, <1>b DEF Watch, StateType, Phase, Marker
<1>7. CASE TakeSample
  BY <1>7, <1>a, <1>b DEF TakeSample, StateType, Phase, Marker
<1>8. CASE OnSignal
  BY <1>8, <1>a, <1>b DEF OnSignal, StateType, Phase, Marker
<1>9. CASE EndLimiter
  <2>1. pc' \in {"exit", "request"} /\ limiter' = FALSE
    BY <1>9 DEF EndLimiter
  <2>2. UNCHANGED <<limit, probe, qemu, frozen, inside, command, log, asking, outside>>
    BY <1>9 DEF EndLimiter
  <2>3. limiter' \in BOOLEAN
    BY <2>1
  <2>4. pc' \in {"exit", "request"}
    BY <2>1
  <2> QED  BY <1>a, <2>2, <2>3, <2>4 DEF StateType
<1>10. CASE Request
  <2>1. PICK sent \in BOOLEAN :
          /\ restarted' = FALSE /\ heard' = (sent /\ guest \in {"up", "halting"})
          /\ command' = sent /\ pc' = IF sent THEN "await" ELSE "term"
    BY <1>10 DEF Request
  <2>2. pc' \in {"await", "term"}
    BY <2>1
  <2>3. restarted' \in BOOLEAN /\ heard' \in BOOLEAN /\ command' \in BOOLEAN
    BY <2>1
  <2>4. UNCHANGED <<limit, probe, machine, inside, log, outside>>
    BY <1>10 DEF Request
  <2> QED  BY <1>a, <2>2, <2>3, <2>4 DEF StateType
<1>11. CASE Await
  BY <1>11, <1>a, <1>b DEF Await, StateType, Phase, Marker
<1>12. CASE Terminate
  <2>1. pc' = "reap" /\ UNCHANGED <<limit, probe, limiter, command, log, asking, outside>>
    BY <1>12 DEF Terminate
  <2>2. MachineOff \/ (frozen' = FALSE /\ UNCHANGED <<qemu, inside>>)
    BY <1>12 DEF Terminate
  <2>3. CASE MachineOff
    BY <1>a, <2>1, <2>3 DEF StateType, MachineOff, Phase
  <2>4. CASE frozen' = FALSE /\ UNCHANGED <<qemu, inside>>
    <3>1. frozen' \in BOOLEAN
      BY <2>4
    <3>2. UNCHANGED <<qemu, inside>>
      BY <2>4
    <3> QED  BY <1>a, <2>1, <3>1, <3>2 DEF StateType
  <2> QED  BY <2>2, <2>3, <2>4
<1>13. CASE Reap
  <2>1. UNCHANGED <<limit, probe, limiter, command, log, asking, outside>>
    BY <1>13 DEF Reap
  <2>2. UNCHANGED <<pc, qemu, frozen, inside>> \/ (pc' = "exit" /\ MachineOff)
    BY <1>13 DEF Reap
  <2>3. CASE UNCHANGED <<pc, qemu, frozen, inside>>
    BY <1>a, <2>1, <2>3 DEF StateType
  <2>4. CASE pc' = "exit" /\ MachineOff
    BY <1>a, <2>1, <2>4 DEF StateType, MachineOff, Phase
  <2> QED  BY <2>2, <2>3, <2>4
<1>14. CASE Exit
  BY <1>14, <1>a, <1>b DEF Exit, StateType, Phase, Marker
<1>15. CASE Throttle
  BY <1>15, <1>a, <1>b DEF Throttle, StateType, Phase, Marker
<1>16. CASE LimiterEnds
  <2>1. limiter' = FALSE
    BY <1>16 DEF LimiterEnds
  <2>2. UNCHANGED <<limit, probe, launcher, qemu, frozen, inside, command, log, asking,
                    outside>>
    BY <1>16 DEF LimiterEnds
  <2>3. limiter' \in BOOLEAN
    BY <2>1
  <2> QED  BY <1>a, <2>2, <2>3 DEF StateType
<1>17. CASE Mount
  <2>1. guest' = "mounted" /\ (command' = FALSE \/ command' = command)
    BY <1>17 DEF Mount
  <2>2. UNCHANGED <<limit, probe, launcher, machine, web, spin, announced, log, asking,
                    outside>>
    BY <1>17 DEF Mount
  <2>3. command' \in BOOLEAN
    BY <1>a, <2>1 DEF StateType
  <2> QED  BY <1>a, <2>1, <2>2, <2>3 DEF StateType, Phase
<1>18. CASE StartHook
  BY <1>18, <1>a, <1>b DEF StartHook, StateType, Phase, Marker
<1>19. CASE StartWeb
  BY <1>19, <1>a, <1>b DEF StartWeb, StateType, Phase, Marker
<1>20. CASE Announce
  BY <1>20, <1>a, <1>b DEF Announce, StateType, Phase, Marker
<1>21. CASE BeginHalt
  <2>1. guest' = "halting" /\ log' = Logged("stop") /\ (command' = FALSE \/ command' = command)
    BY <1>21 DEF BeginHalt
  <2>2. UNCHANGED <<limit, probe, launcher, machine, web, spin, announced, asking, outside>>
    BY <1>21 DEF BeginHalt
  <2>3. command' \in BOOLEAN
    BY <1>a, <2>1 DEF StateType
  <2>4. log' \subseteq Marker \X Marker
    BY <1>b, <2>1 DEF Marker
  <2> QED  BY <1>a, <2>1, <2>2, <2>3, <2>4 DEF StateType, Phase
<1>22. CASE Restart
  <2>1. /\ guest' = "boot" /\ log' = Logged("stop") /\ web' = FALSE /\ spin' = FALSE
        /\ announced' = FALSE /\ restarted' = TRUE
    BY <1>22 DEF Restart
  <2>2. UNCHANGED <<limit, probe, launcher, machine, command, heard, outside>>
    BY <1>22 DEF Restart
  <2>3. log' \subseteq Marker \X Marker
    BY <1>b, <2>1 DEF Marker
  <2>4. /\ web' \in BOOLEAN /\ spin' \in BOOLEAN /\ announced' \in BOOLEAN
        /\ restarted' \in BOOLEAN
    BY <2>1
  <2>5. guest' \in Phase
    BY <2>1 DEF Phase
  <2> QED  BY <1>a, <2>2, <2>3, <2>4, <2>5 DEF StateType
<1>23. CASE FileSystemFault
  BY <1>23, <1>a, <1>b DEF FileSystemFault, StateType, Phase, Marker
<1>24. CASE Spin
  BY <1>24, <1>a, <1>b DEF Spin, StateType, Phase, Marker
<1>25. CASE QemuDies
  BY <1>25, <1>a, <1>b DEF QemuDies, MachineOff, StateType, Phase, Marker
<1>26. CASE Stop
  BY <1>26, <1>a, <1>b DEF Stop, StateType, Phase, Marker
<1>27. CASE Tick
  BY <1>27, <1>a, <1>b DEF Tick, StateType, Phase, Marker
<1>28. CASE UNCHANGED vars
  BY <1>28, <1>a, <1>b DEF vars, StateType, Phase, Marker
<1> QED
  BY <1>1, <1>2, <1>3, <1>4, <1>5, <1>6, <1>7, <1>8, <1>9, <1>10, <1>11, <1>12, <1>13, <1>14, <1>15, <1>16, <1>17, <1>18, <1>19, <1>20, <1>21, <1>22, <1>23, <1>24, <1>25, <1>26, <1>27, <1>28
  DEF Next, LauncherStep, GuestStep

LEMMA NumberTypeStep == Inv /\ [Next]_vars => NumberType'
<1> SUFFICES ASSUME Inv, [Next]_vars PROVE NumberType'
  OBVIOUS
<1> USE DEF launcher, machine, inside, asking, outside
<1>a. NumberType /\ CountInv
  BY TypeParts DEF Inv
<1>1. CASE ContainerStart
  BY <1>1, <1>a, TimeAssumption, GraceAssumption, FaultCounts DEF ContainerStart, NumberType, CountInv
<1>2. CASE StartQemu
  BY <1>2, <1>a, TimeAssumption, GraceAssumption, FaultCounts DEF StartQemu, NumberType, CountInv
<1>3. CASE StartLimiter
  BY <1>3, <1>a, TimeAssumption, GraceAssumption, FaultCounts DEF StartLimiter, NumberType, CountInv
<1>4. CASE ChooseProbe
  BY <1>4, <1>a, TimeAssumption, GraceAssumption, FaultCounts DEF ChooseProbe, NumberType, CountInv
<1>5. CASE Probe
  BY <1>5, <1>a, TimeAssumption, GraceAssumption, FaultCounts DEF Probe, NumberType, CountInv
<1>6. CASE Watch
  BY <1>6, <1>a, TimeAssumption, GraceAssumption, FaultCounts DEF Watch, NumberType, CountInv
<1>7. CASE TakeSample
  <2>1. high < HighLimit /\ (high' = 0 \/ high' = high + 1)
    BY <1>7, <1>a DEF TakeSample, CountInv, Early
  <2>2. high' \in 0 .. HighLimit
    BY <2>1, <1>a, TimeAssumption DEF NumberType
  <2> QED  BY <1>7, <1>a, <2>2 DEF TakeSample, NumberType
<1>8. CASE OnSignal
  BY <1>8, <1>a, TimeAssumption, GraceAssumption, FaultCounts DEF OnSignal, NumberType, CountInv
<1>9. CASE EndLimiter
  BY <1>9, <1>a, TimeAssumption, GraceAssumption, FaultCounts DEF EndLimiter, NumberType, CountInv
<1>10. CASE Request
  BY <1>10, <1>a, TimeAssumption, GraceAssumption, FaultCounts DEF Request, NumberType, CountInv
<1>11. CASE Await
  BY <1>11, <1>a, TimeAssumption, GraceAssumption, FaultCounts DEF Await, NumberType, CountInv
<1>12. CASE Terminate
  BY <1>12, <1>a, TimeAssumption, GraceAssumption, FaultCounts DEF Terminate, MachineOff, NumberType, CountInv
<1>13. CASE Reap
  BY <1>13, <1>a, TimeAssumption, GraceAssumption, FaultCounts DEF Reap, MachineOff, NumberType, CountInv
<1>14. CASE Exit
  BY <1>14, <1>a, TimeAssumption, GraceAssumption, FaultCounts DEF Exit, NumberType, CountInv
<1>15. CASE Throttle
  BY <1>15, <1>a, TimeAssumption, GraceAssumption, FaultCounts DEF Throttle, NumberType, CountInv
<1>16. CASE LimiterEnds
  BY <1>16, <1>a, TimeAssumption, GraceAssumption, FaultCounts DEF LimiterEnds, NumberType, CountInv
<1>17. CASE Mount
  BY <1>17, <1>a, TimeAssumption, GraceAssumption, FaultCounts DEF Mount, NumberType, CountInv
<1>18. CASE StartHook
  BY <1>18, <1>a, TimeAssumption, GraceAssumption, FaultCounts DEF StartHook, NumberType, CountInv
<1>19. CASE StartWeb
  BY <1>19, <1>a, TimeAssumption, GraceAssumption, FaultCounts DEF StartWeb, NumberType, CountInv
<1>20. CASE Announce
  BY <1>20, <1>a, TimeAssumption, GraceAssumption, FaultCounts DEF Announce, NumberType, CountInv
<1>21. CASE BeginHalt
  BY <1>21, <1>a, TimeAssumption, GraceAssumption, FaultCounts DEF BeginHalt, NumberType, CountInv
<1>22. CASE Restart
  BY <1>22, <1>a, TimeAssumption, GraceAssumption, FaultCounts DEF Restart, NumberType, CountInv
<1>23. CASE FileSystemFault
  BY <1>23, <1>a, TimeAssumption, GraceAssumption, FaultCounts DEF FileSystemFault, NumberType, CountInv
<1>24. CASE Spin
  BY <1>24, <1>a, TimeAssumption, GraceAssumption, FaultCounts DEF Spin, NumberType, CountInv
<1>25. CASE QemuDies
  BY <1>25, <1>a, TimeAssumption, GraceAssumption, FaultCounts DEF QemuDies, MachineOff, NumberType, CountInv
<1>26. CASE Stop
  BY <1>26, <1>a, TimeAssumption, GraceAssumption, FaultCounts DEF Stop, NumberType, CountInv
<1>27. CASE Tick
  BY <1>27, <1>a, TimeAssumption, GraceAssumption, FaultCounts DEF Tick, NumberType, CountInv
<1>28. CASE UNCHANGED vars
  BY <1>28, <1>a, TimeAssumption, GraceAssumption, FaultCounts DEF vars, NumberType, CountInv
<1> QED
  BY <1>1, <1>2, <1>3, <1>4, <1>5, <1>6, <1>7, <1>8, <1>9, <1>10, <1>11, <1>12, <1>13, <1>14, <1>15, <1>16, <1>17, <1>18, <1>19, <1>20, <1>21, <1>22, <1>23, <1>24, <1>25, <1>26, <1>27, <1>28
  DEF Next, LauncherStep, GuestStep

-----------------------------------------------------------------------------
(* The launcher's counters and the age of the guest's phase. *)

LEMMA CountStep == Inv /\ [Next]_vars => CountInv'
<1> SUFFICES ASSUME Inv, [Next]_vars PROVE CountInv'
  OBVIOUS
<1> USE DEF Early, launcher, inside
<1>a. NumberType /\ CountInv
  BY TypeParts DEF Inv
<1>b. ASSUME pc' \in Early => pc \in Early /\ high' = high
      PROVE  pc' \in Early => high' < HighLimit
  BY <1>a, <1>b DEF CountInv
<1>c. ASSUME UNCHANGED <<guest, age>>
      PROVE  /\ guest' = "halting" => age' <= HaltMax
             /\ guest' = "boot" => age' <= MountMin
  BY <1>a, <1>c DEF CountInv
<1>d. ASSUME age' = 0
      PROVE  /\ guest' = "halting" => age' <= HaltMax
             /\ guest' = "boot" => age' <= MountMin
  BY <1>d, TimeAssumption
<1>1. CASE LauncherStep
  <2>1. pause' > 0 => pc' \in {"probe", "sample", "await", "reap"}
    BY <1>1, <1>a DEF LauncherStep, ContainerStart, StartQemu, StartLimiter, ChooseProbe,
       Probe, Watch, TakeSample, OnSignal, EndLimiter, Request, Await, Terminate, Reap, Exit,
       NumberType, CountInv
  <2>w. pc' = "await" => pause' <= 1
    BY <1>1, <1>a DEF LauncherStep, ContainerStart, StartQemu, StartLimiter, ChooseProbe,
       Probe, Watch, TakeSample, OnSignal, EndLimiter, Request, Await, Terminate, Reap, Exit,
       NumberType, CountInv
  <2>2. pc' \in Early => high' < HighLimit
    <3>1. CASE ContainerStart
      BY <3>1, TimeAssumption DEF ContainerStart
    <3>2. CASE TakeSample
      <4>1. pc' = IF high' >= HighLimit THEN "unlimit" ELSE "watch"
        BY <3>2 DEF TakeSample
      <4>2. high' = 0 \/ high' = high + 1
        BY <3>2 DEF TakeSample
      <4>3. high' \in Nat
        BY <4>2, <1>a DEF NumberType
      <4> QED  BY <4>1, <4>3, TimeAssumption
    <3>3. CASE ~ContainerStart /\ ~TakeSample
      <4>1. pc' \in Early => pc \in Early /\ high' = high
        BY <1>1, <3>3 DEF LauncherStep, StartQemu, StartLimiter, ChooseProbe,
           Probe, Watch, OnSignal, EndLimiter, Request, Await, Terminate, Reap, Exit
      <4> QED  BY <4>1, <1>b
    <3> QED  BY <3>1, <3>2, <3>3
  <2>3. UNCHANGED <<guest, age>> \/ age' = 0
    BY <1>1 DEF LauncherStep, ContainerStart, StartQemu, StartLimiter, ChooseProbe,
       Probe, Watch, TakeSample, OnSignal, EndLimiter, Request, Await, Terminate, Reap, Exit,
       MachineOff
  <2> QED  BY <2>1, <2>w, <2>2, <2>3, <1>c, <1>d DEF CountInv
<1>2. CASE Elsewhere
  <2>1. UNCHANGED launcher
    BY <1>2, ElsewhereQuiet
  <2>2. UNCHANGED <<guest, age>> \/ age' = 0 \/ (guest' = "up" /\ age' = age)
    BY <1>2 DEF Elsewhere, GuestStep, Throttle, LimiterEnds, FileSystemFault, Spin, QemuDies,
       Mount, StartHook, StartWeb, Announce, BeginHalt, Restart, MachineOff
  <2> QED  BY <2>1, <2>2, <1>a, <1>b, <1>c, <1>d DEF CountInv
<1>3. CASE Stop
  BY <1>3, <1>a DEF Stop, CountInv
<1>4. CASE Tick
  <2>1. pause > 0 /\ pause' = pause - 1 /\ UNCHANGED <<pc, high, guest>>
    BY <1>4 DEF Tick
  <2>2. guest = "halting" => age' <= HaltMax
    <3>1. age' = age \/ (age' = age + 1 /\ Runs)
      BY <1>4 DEF Tick
    <3>2. guest = "halting" /\ Runs => ~(age >= HaltMax)
      BY <1>4 DEF Tick
    <3> QED  BY <3>1, <3>2, <1>a, TimeAssumption DEF NumberType, CountInv
  <2>3. guest = "boot" => age' <= MountMin
    <3>1. guest = "boot" => age' = age \/ (age' = age + 1 /\ age < MountMin)
      BY <1>4 DEF Tick
    <3> QED  BY <3>1, <1>a, TimeAssumption DEF NumberType, CountInv
  <2> QED  BY <2>1, <2>2, <2>3, <1>a DEF CountInv, NumberType
<1>5. CASE UNCHANGED vars
  BY <1>5, <1>a DEF vars, CountInv
<1> QED  BY <1>1, <1>2, <1>3, <1>4, <1>5, StepBy

-----------------------------------------------------------------------------
(* Who is left. *)

LEMMA OwnerStep == Inv /\ [Next]_vars => OwnerInv'
<1> SUFFICES ASSUME Inv, [Next]_vars PROVE OwnerInv'
  OBVIOUS
<1> USE DEF OwnerInv, launcher, machine, inside
<1>a. OwnerInv
  BY DEF Inv
<1>1. CASE LauncherStep
  BY <1>1, <1>a DEF LauncherStep, ContainerStart, StartQemu, StartLimiter, ChooseProbe,
     Probe, Watch, TakeSample, OnSignal, EndLimiter, Request, Await, Terminate, Reap, Exit,
     MachineOff
<1>2. CASE Elsewhere
  <2>1. pc' = pc /\ (limiter' = limiter \/ limiter' = FALSE)
    BY <1>2 DEF Elsewhere, GuestStep, Throttle, LimiterEnds, FileSystemFault, Spin,
       QemuDies, Mount, StartHook, StartWeb, Announce, BeginHalt, Restart
  <2>2. \/ qemu = "up" /\ qemu' = qemu
        \/ UNCHANGED <<qemu, guest>>
        \/ qemu' = "dead" /\ guest' = "off"
    BY <1>2 DEF Elsewhere, GuestStep, Throttle, LimiterEnds, FileSystemFault, Spin,
       QemuDies, Mount, StartHook, StartWeb, Announce, BeginHalt, Restart, MachineOff, Runs
  <2> QED  BY <2>1, <2>2, <1>a
<1>3. CASE Stop
  BY <1>3, <1>a DEF Stop
<1>4. CASE Tick
  BY <1>4, <1>a DEF Tick
<1>5. CASE UNCHANGED vars
  BY <1>5, <1>a DEF vars
<1> QED  BY <1>1, <1>2, <1>3, <1>4, <1>5, StepBy

-----------------------------------------------------------------------------
(* The grace period. *)

LEMMA GraceStep == Inv /\ [Next]_vars => GraceInv'
<1> SUFFICES ASSUME Inv, [Next]_vars PROVE GraceInv'
  OBVIOUS
<1> USE TimeAssumption DEF GraceInv, Early, launcher, outside
<1>a. NumberType /\ CountInv /\ GraceInv
  BY TypeParts DEF Inv
<1>b. /\ pause \in Nat /\ turns \in Nat /\ grace \in Nat /\ pause <= Sample
      /\ (pause > 0 => pc \in {"probe", "sample", "await", "reap"})
  BY <1>a DEF NumberType, CountInv
<1>1. CASE LauncherStep
  <2>1. asked' = asked /\ grace' = grace
    BY <1>1, LauncherQuiet
  <2>2. CASE ContainerStart
    BY <2>1, <2>2, <1>a, <1>b DEF ContainerStart
  <2>3. CASE StartQemu
    BY <2>1, <2>3, <1>a, <1>b DEF StartQemu
  <2>4. CASE StartLimiter
    BY <2>1, <2>4, <1>a, <1>b DEF StartLimiter
  <2>5. CASE ChooseProbe
    BY <2>1, <2>5, <1>a, <1>b DEF ChooseProbe
  <2>6. CASE Probe
    BY <2>1, <2>6, <1>a, <1>b DEF Probe
  <2>7. CASE Watch
    BY <2>1, <2>7, <1>a, <1>b DEF Watch
  <2>8. CASE TakeSample
    BY <2>1, <2>8, <1>a, <1>b DEF TakeSample
  <2>9. CASE OnSignal
    BY <2>1, <2>9, <1>a, <1>b DEF OnSignal
  <2>10. CASE EndLimiter
    BY <2>1, <2>10, <1>a, <1>b DEF EndLimiter
  <2>11. CASE Request
    BY <2>1, <2>11, <1>a, <1>b DEF Request
  <2>12. CASE Await
    BY <2>1, <2>12, <1>a, <1>b DEF Await
  <2>13. CASE Terminate
    BY <2>1, <2>13, <1>a, <1>b DEF Terminate
  <2>14. CASE Reap
    BY <2>1, <2>14, <1>a, <1>b DEF Reap
  <2>15. CASE Exit
    BY <2>1, <2>15, <1>a, <1>b DEF Exit
  <2> QED
    BY <1>1, <2>2, <2>3, <2>4, <2>5, <2>6, <2>7, <2>8, <2>9, <2>10, <2>11, <2>12, <2>13,
       <2>14, <2>15 DEF LauncherStep
<1>2. CASE Elsewhere
  BY <1>2, <1>a, ElsewhereQuiet
<1>3. CASE Stop
  BY <1>3, <1>a DEF Stop
<1>4. CASE Tick
  <2>1. /\ pause > 0 /\ pause' = pause - 1 /\ UNCHANGED <<pc, turns, asked>>
        /\ grace' = IF asked /\ grace < Grace THEN grace + 1 ELSE grace
    BY <1>4 DEF Tick
  <2>2. grace' = grace \/ grace' = grace + 1
    BY <2>1
  <2>3. ~asked => grace' = grace
    BY <2>1
  <2>4. grace' + pause' <= grace + pause /\ grace' + pause' \in Nat
    BY <2>1, <2>2, <1>b
  <2> QED  BY <2>1, <2>3, <2>4, <1>a, <1>b
<1>5. CASE UNCHANGED vars
  BY <1>5, <1>a DEF vars
<1> QED  BY <1>1, <1>2, <1>3, <1>4, <1>5, StepBy

-----------------------------------------------------------------------------
(* Readiness. *)

(* A line of the log replaces what was known of its marker. *)
LEMMA LoggedIs ==
  /\ (<<"ready", "ready">> \in Logged("ready")) /\ (<<"ready", "stop">> \in Logged("ready"))
  /\ <<"stop", "stop">> \in Logged("stop") /\ <<"ready", "stop">> \notin Logged("stop")
  /\ \A m, n \in Marker : n # "fault" /\ m # "fault" =>
       (<<m, n>> \in Logged("fault") <=> <<m, n>> \in log)
  BY DEF Logged, Marker

LEMMA ReadyStep == Inv /\ [Next]_vars => ReadyInv'
<1> SUFFICES ASSUME Inv, [Next]_vars PROVE ReadyInv'
  OBVIOUS
<1> USE DEF ReadyInv, Has, After, launcher, machine, inside
<1>a. ReadyInv /\ OwnerInv
  BY DEF Inv
<1>k. ASSUME UNCHANGED log, qemu' = "up" => qemu = "up" /\ announced' = announced
      PROVE  ReadyInv'
  BY <1>k, <1>a
<1>1. CASE LauncherStep
  <2>1. CASE StartQemu
    BY <2>1 DEF StartQemu
  <2>2. CASE ~StartQemu
    <3>1. UNCHANGED log /\ (qemu' = "up" => qemu = "up" /\ announced' = announced)
      BY <1>1, <2>2 DEF LauncherStep, ContainerStart, StartLimiter, ChooseProbe,
         Probe, Watch, TakeSample, OnSignal, EndLimiter, Request, Await, Terminate, Reap, Exit,
         MachineOff
    <3> QED  BY <3>1, <1>k
  <2> QED  BY <2>1, <2>2
<1>2. CASE Elsewhere
  <2>1. CASE Announce
    <3>1. log' = Logged("ready") /\ announced' = TRUE
      BY <2>1 DEF Announce
    <3> QED  BY <3>1, LoggedIs
  <2>2. CASE BeginHalt \/ Restart
    <3>1. log' = Logged("stop")
      BY <2>2 DEF BeginHalt, Restart
    <3> QED  BY <3>1, LoggedIs
  <2>3. CASE FileSystemFault
    <3>1. log' = Logged("fault") /\ UNCHANGED <<qemu, announced>>
      BY <2>3 DEF FileSystemFault
    <3>2. /\ <<"ready", "ready">> \in log' <=> <<"ready", "ready">> \in log
          /\ <<"ready", "stop">> \in log' <=> <<"ready", "stop">> \in log
          /\ <<"stop", "stop">> \in log' <=> <<"stop", "stop">> \in log
      BY <3>1, LoggedIs DEF Marker
    <3> QED  BY <3>1, <3>2, <1>a
  <2>4. CASE Throttle \/ LimiterEnds \/ Mount \/ StartHook \/ StartWeb \/ Spin \/ QemuDies
    <3>1. UNCHANGED log /\ (qemu' = "up" => qemu = "up" /\ announced' = announced)
      BY <2>4 DEF Throttle, LimiterEnds, Mount, StartHook, StartWeb, Spin, QemuDies, MachineOff
    <3> QED  BY <3>1, <1>k
  <2> QED  BY <1>2, <2>1, <2>2, <2>3, <2>4 DEF Elsewhere, GuestStep
<1>3. CASE Stop
  BY <1>3, <1>k DEF Stop
<1>4. CASE Tick
  BY <1>4, <1>k DEF Tick
<1>5. CASE UNCHANGED vars
  BY <1>5, <1>k DEF vars
<1> QED  BY <1>1, <1>2, <1>3, <1>4, <1>5, StepBy

-----------------------------------------------------------------------------
(* The orderly shutdown. *)

LEMMA WaitStep == Inv /\ [Next]_vars => WaitInv'
<1> SUFFICES ASSUME Inv, [Next]_vars PROVE WaitInv'
  OBVIOUS
<1> USE TimeAssumption, HaltAssumption, MountAssumption
    DEF launcher, machine, inside, asking, outside
<1>a. NumberType /\ StateType /\ CountInv /\ OwnerInv /\ WaitInv
  BY TypeParts DEF Inv
<1>b. /\ pause \in Nat /\ turns \in Nat /\ age \in Nat
      /\ (pause > 0 => pc \in {"probe", "sample", "await", "reap"})
      /\ (guest = "halting" => age <= HaltMax)
  BY <1>a DEF NumberType, CountInv
<1>c. limiter => pc \notin {"request", "await", "term"}
  BY <1>a DEF OwnerInv
<1>1. CASE LauncherStep
  <2>1. CASE Request
    <3>1. PICK sent \in BOOLEAN :
            /\ restarted' = FALSE /\ heard' = (sent /\ guest \in {"up", "halting"})
            /\ command' = sent /\ pc' = (IF sent THEN "await" ELSE "term")
            /\ turns' = IF sent THEN WaitLimit ELSE 0
      BY <2>1 DEF Request
    <3>2. pause' = pause /\ pause = 0 /\ UNCHANGED <<frozen, guest, age>>
      BY <2>1, <1>b DEF Request
    <3>3. CASE sent
      <4>1. pc' = "await" /\ turns' = WaitLimit /\ command' /\ ~restarted'
        BY <3>1, <3>3
      <4>2. heard' => guest' \in {"up", "halting"}
        BY <3>1, <3>2
      <4> QED  BY <4>1, <4>2, <3>2, <1>b DEF WaitInv
    <3>4. CASE ~sent
      BY <3>1, <3>4 DEF WaitInv
    <3> QED  BY <3>3, <3>4
  <2>2. CASE Await
    <3>1. /\ pc = "await" /\ pause = 0
          /\ pc' = (IF turns = 0 \/ restarted \/ qemu # "up" THEN "term" ELSE "await")
          /\ turns' = (IF pc' = "await" THEN turns - 1 ELSE 0)
          /\ pause' = (IF pc' = "await" THEN 1 ELSE 0)
          /\ UNCHANGED <<frozen, guest, age, command, restarted, heard, qemu>>
      BY <2>2 DEF Await
    <3> SUFFICES ASSUME heard, ~frozen PROVE WaitInv'
      BY <3>1 DEF WaitInv
    <3>2. CASE turns = 0 \/ restarted \/ qemu # "up"
      <4>1. pc' = "term"
        BY <3>1, <3>2
      <4>2. guest = "off" \/ (guest = "boot" /\ age <= 1)
        BY <3>1, <3>2, <1>a, <1>b DEF WaitInv, OwnerInv
      <4> QED  BY <3>1, <4>1, <4>2 DEF WaitInv
    <3>3. CASE ~(turns = 0 \/ restarted \/ qemu # "up")
      <4>1. pc' = "await" /\ turns' = turns - 1 /\ pause' = 1 /\ turns > 0 /\ ~restarted
        BY <3>1, <3>3, <1>b
      <4>2. pause' + turns' = pause + turns
        BY <3>1, <4>1, <1>b
      <4> QED  BY <3>1, <4>1, <4>2, <1>a, <1>b DEF WaitInv
    <3> QED  BY <3>2, <3>3
  <2>3. CASE ~Request /\ ~Await
    <3>1. pc' \notin {"await", "term"}
      BY <1>1, <2>3 DEF LauncherStep, ContainerStart, StartQemu, StartLimiter, ChooseProbe,
         Probe, Watch, TakeSample, OnSignal, EndLimiter, Terminate, Reap, Exit
    <3> QED  BY <3>1 DEF WaitInv
  <2> QED  BY <2>1, <2>2, <2>3
<1>2. CASE Elsewhere
  <2>0. UNCHANGED launcher
    BY <1>2, ElsewhereQuiet
  <2>1. CASE Throttle
    BY <2>0, <2>1, <1>c DEF Throttle, WaitInv
  <2>2. CASE LimiterEnds
    BY <2>0, <2>2, <1>c DEF LimiterEnds, WaitInv
  <2>3. CASE Mount
    BY <2>0, <2>3, <1>a, <1>b DEF Mount, WaitInv
  <2>4. CASE StartHook
    BY <2>0, <2>4, <1>a DEF StartHook, WaitInv
  <2>5. CASE StartWeb \/ Announce \/ FileSystemFault \/ Spin
    BY <2>0, <2>5, <1>a DEF StartWeb, Announce, FileSystemFault, Spin, WaitInv
  <2>6. CASE BeginHalt
    <3>1. guest = "up" /\ guest' = "halting" /\ age' = 0 /\ UNCHANGED <<frozen, asking>>
      BY <2>6 DEF BeginHalt
    <3>2. pc = "await" /\ heard /\ ~frozen => ~restarted /\ pause + turns = WaitLimit
      BY <3>1, <1>a DEF WaitInv
    <3>3. pc = "await" /\ heard /\ ~frozen => ~restarted /\ age' + pause + turns >= WaitLimit
      BY <3>1, <3>2, <1>b
    <3>4. ~(pc = "term" /\ heard /\ ~frozen)
      BY <3>1, <1>a DEF WaitInv
    <3> QED  BY <2>0, <3>1, <3>3, <3>4 DEF WaitInv
  <2>7. CASE Restart
    <3>1. /\ guest = "halting" /\ guest' = "boot" /\ age' = 0 /\ restarted'
          /\ UNCHANGED <<frozen, heard>>
      BY <2>7 DEF Restart
    <3>2. pc = "await" => age' + pause <= 1
      BY <3>1, <1>a, <1>b DEF CountInv
    <3>3. ~(pc = "term" /\ heard /\ ~frozen)
      BY <3>1, <1>a DEF WaitInv
    <3> QED  BY <2>0, <3>1, <3>2, <3>3 DEF WaitInv
  <2>8. CASE QemuDies
    BY <2>0, <2>8 DEF QemuDies, MachineOff, WaitInv
  <2> QED  BY <1>2, <2>1, <2>2, <2>3, <2>4, <2>5, <2>6, <2>7, <2>8 DEF Elsewhere, GuestStep
<1>3. CASE Stop
  BY <1>3, <1>a DEF Stop, WaitInv
<1>4. CASE Tick
  <2>1. /\ pause > 0 /\ pause' = pause - 1
        /\ UNCHANGED <<pc, turns, frozen, guest, command, restarted, heard>>
    BY <1>4 DEF Tick
  <2>2. pc # "term"
    BY <2>1, <1>b
  <2> SUFFICES ASSUME pc = "await", heard, ~frozen PROVE WaitInv'
    BY <2>1, <2>2 DEF WaitInv
  <2>3. CASE guest = "off"
    BY <2>1, <2>3 DEF WaitInv
  <2>4. qemu = "up" \/ guest = "off"
    BY <1>a DEF OwnerInv
  <2>5. CASE guest = "up" /\ qemu = "up"
    <3>1. command
      BY <2>5, <1>a DEF WaitInv
    <3> QED  BY <3>1, <2>5, <1>4 DEF Tick, Runs
  <2>6. CASE guest = "halting" /\ qemu = "up"
    <3>1. age' = age + 1
      BY <2>6, <1>4 DEF Tick, Runs
    <3>2. ~restarted /\ age + pause + turns >= WaitLimit
      BY <2>6, <1>a DEF WaitInv
    <3>3. age' + pause' + turns >= WaitLimit
      BY <2>1, <3>1, <3>2, <1>b
    <3> QED  BY <2>1, <2>2, <2>6, <3>2, <3>3 DEF WaitInv
  <2>7. CASE guest = "boot"
    <3>1. age' = age \/ age' = age + 1
      BY <1>4 DEF Tick
    <3>2. restarted /\ age + pause <= 1
      BY <2>7, <1>a DEF WaitInv
    <3>3. age' + pause' <= 1
      BY <2>1, <3>1, <3>2, <1>b
    <3> QED  BY <2>1, <2>2, <2>7, <3>2, <3>3 DEF WaitInv
  <2> QED  BY <2>3, <2>4, <2>5, <2>6, <2>7, <1>a DEF WaitInv
<1>5. CASE UNCHANGED vars
  BY <1>5, <1>a DEF vars, WaitInv
<1> QED  BY <1>1, <1>2, <1>3, <1>4, <1>5, StepBy

-----------------------------------------------------------------------------
(* The results. *)

(* The inductive invariant of a container's life. *)
THEOREM InvHolds == Spec => []Inv
<1>1. Inv /\ [Next]_vars => Inv'
  BY StateTypeStep, NumberTypeStep, CountStep, OwnerStep, GraceStep, ReadyStep, WaitStep,
     TypeParts DEF Inv, TypeInv, NumberType, StateType
<1> QED  BY InvInit, <1>1, PTL DEF Spec

(* Every variable keeps its type. *)
THEOREM TypeCorrect == Spec => []TypeInv
<1>1. Inv => TypeInv
  BY DEF Inv
<1> QED  BY InvHolds, <1>1, PTL

(* cleanup: when the launcher exits neither QEMU nor the limiter is left. *)
THEOREM LauncherLeavesNothing == Spec => []NothingLeft
<1>1. Inv => NothingLeft
  BY DEF Inv, OwnerInv, NothingLeft
<1> QED  BY InvHolds, <1>1, PTL

(* The waits of on_signal and cleanup, a sample, WaitLimit and TermLimit    *)
(* seconds, fit in the container's stop_grace_period.                       *)
THEOREM StopsWithinGrace == Spec => []WithinGrace
<1>1. Inv => WithinGrace
  <2> SUFFICES ASSUME Inv PROVE grace < Grace
    BY DEF WithinGrace
  <2>1. /\ pause \in Nat /\ turns \in Nat /\ grace \in Nat
    BY TypeParts, TimeAssumption, GraceAssumption DEF Inv, NumberType
  <2>2. pc \in Early \/ pc \in {"unlimit", "request", "await", "term", "reap", "exit", "down"}
    BY TypeParts DEF Inv, StateType, Early
  <2>3. grace <= Sample + WaitLimit + TermLimit
    <3>1. CASE pc \in Early
      BY <2>1, <3>1, TimeAssumption DEF Inv, GraceInv
    <3>2. CASE pc \in {"unlimit", "request", "await", "term", "reap", "exit", "down"}
      BY <2>1, <3>2, TimeAssumption DEF Inv, GraceInv
    <3> QED  BY <2>2, <3>1, <3>2
  <2> QED  BY <2>1, <2>3, TimeAssumption, GraceAssumption
<1> QED  BY InvHolds, <1>1, PTL

(* zd-healthcheck.sh: a container is healthy only when its present guest    *)
(* boot has reached readiness.                                              *)
THEOREM HealthIsReadiness == Spec => []HealthyMeansReady
<1>1. Inv => HealthyMeansReady
  BY DEF Inv, ReadyInv, HealthyMeansReady, Healthy
<1> QED  BY InvHolds, <1>1, PTL

(* cleanup ends a guest that took the request and was not stopped by the    *)
(* limiter only when it has shut down, and before the next boot has mounted *)
(* hda4.                                                                    *)
THEOREM ThawedStopsOrderly == Spec => OrderlyThawed
<1>1. Inv /\ [Next]_vars => [frozen \/ Orderly]_vars
  <2> SUFFICES ASSUME Inv, [Next]_vars, pc = "term", pc' = "reap", heard, ~frozen
               PROVE  guest \in {"boot", "off"}
    BY DEF Orderly
  <2> QED  BY DEF Inv, WaitInv
<1> QED  BY InvHolds, <1>1, PTL DEF Spec, OrderlyThawed
=============================================================================
