------------------------------ MODULE Handoff ------------------------------
(***************************************************************************)
(* Invocations of zjudo against the machine they share: the one slot Linux *)
(* has for a kexec image, the secondary CPUs, and the reboot that ends     *)
(* everything.  The steps are the system calls and sysfs accesses of       *)
(* boot(), unload(), info() and test() of src/cli/commands.rs, made by     *)
(* src/system/kexec.rs and src/system/smp.rs; everything boot() prepares   *)
(* in between is one step here and the subject of BootLayout.  The other   *)
(* commands (load, list, config) touch nothing that is shared.             *)
(***************************************************************************)
EXTENDS Naturals, FiniteSets

CONSTANTS
  Proc,            \* invocations of zjudo, each of one command
  Cpu,             \* CPU numbers
  BootCpu,         \* CPU 0
  Uncontrolled,    \* CPUs without an online file in sysfs
  KexecSupported,  \* is kexec_load built into the running kernel?
  NoImage,         \* the empty image slot
  PollLimit,       \* polls of a CPU that is going offline
  MaxPlugs         \* bound: hotplug events made by others

ASSUME HandoffAssumption ==
  /\ Cpu \subseteq Nat /\ IsFiniteSet(Cpu) /\ BootCpu \in Cpu /\ Uncontrolled \subseteq Cpu
  /\ NoImage \notin Proc /\ KexecSupported \in BOOLEAN
  /\ PollLimit \in Nat \ {0} /\ MaxPlugs \in Nat

VARIABLES
  cmd,      \* the command of each invocation
  root,     \* does it run with effective uid 0?
  exclusive,  \* does nobody start zjudo while one is running?
  pc,       \* its next step
  todo,     \* the secondary CPUs it has still to take offline
  target,   \* the CPU it is taking offline
  polls,    \* polls of that CPU so far
  image,    \* whose image the kernel holds
  cpu,      \* the state of each CPU
  plugs,    \* hotplug events by others so far
  machine   \* "running" or "booted", into the image

given == <<cmd, root, exclusive>>
local == <<todo, target, polls>>
shared == <<image, cpu, plugs, machine>>
vars == <<given, pc, local, shared>>

Ended == {"ok", "err"}
HandingOff == {"cpus", "offline", "write", "poll", "reboot"}
Steps == {"idle", "supported", "unload", "plan", "load"} \union HandingOff \union Ended
Secondary == Cpu \ {BootCpu}

Init ==
  /\ cmd \in [Proc -> {"boot", "unload", "info"}]
  /\ root \in [Proc -> BOOLEAN] /\ exclusive \in BOOLEAN
  /\ pc = [p \in Proc |-> "idle"]
  /\ todo = [p \in Proc |-> {}] /\ polls = [p \in Proc |-> 0]
  /\ target = [p \in Proc |-> BootCpu]
  /\ image = NoImage /\ plugs = 0 /\ machine = "running"
  /\ cpu \in [Cpu -> {"on", "off"}] /\ cpu[BootCpu] = "on"

Goto(p, step) == pc' = [pc EXCEPT ![p] = step]
At(p, step) == machine = "running" /\ pc[p] = step
---------------------------------------------------------------------------
(* An invocation. *)

\* check_root; info() and test() do not call it.
Begin(p) ==
  /\ At(p, "idle")
  /\ exclusive => \A q \in Proc : pc[q] \in {"idle"} \union Ended
  /\ \/ cmd[p] = "info" /\ Goto(p, "supported")
     \/ cmd[p] # "info" /\ ~root[p] /\ Goto(p, "err")
     \/ cmd[p] = "boot" /\ root[p] /\ Goto(p, "supported")
     \/ cmd[p] = "unload" /\ root[p] /\ Goto(p, "unload")
  /\ UNCHANGED <<given, local, shared>>

\* The kexec_load system call with no segments empties the slot, unless it
\* fails: not built in, no privilege, or another reason such as EBUSY.
EmptySlot(p) == KexecSupported /\ root[p] /\ image' = NoImage

\* kexec_supported: any answer but ENOSYS means yes.
Supported(p) ==
  /\ At(p, "supported")
  /\ EmptySlot(p) \/ UNCHANGED image
  /\ \/ cmd[p] = "info" /\ \E r \in Ended : Goto(p, r)
     \/ cmd[p] = "boot" /\ Goto(p, IF KexecSupported THEN "plan" ELSE "err")
  /\ UNCHANGED <<given, local, cpu, plugs, machine>>

\* Everything from load_kernel to prepare_kexec_segments.
Plan(p) ==
  /\ At(p, "plan")
  /\ \E next \in {"load", "err"} : Goto(p, next)
  /\ UNCHANGED <<given, local, shared>>

KexecLoadUnchecked(p) ==
  /\ At(p, "load")
  /\ (KexecSupported /\ image' = p) \/ UNCHANGED image
  /\ Goto(p, "cpus")
  /\ UNCHANGED <<given, local, cpu, plugs, machine>>

KexecLoad(p) ==
  /\ At(p, "load")
  /\ \/ KexecSupported /\ image' = p /\ Goto(p, "cpus")
     \/ UNCHANGED image /\ Goto(p, "err")
  /\ UNCHANGED <<given, local, cpu, plugs, machine>>

\* The online list, read once; a CPU on its way out is still listed.
Listed == {c \in Cpu : cpu[c] # "off"}

ReadCpuList(p) ==
  /\ At(p, "cpus")
  /\ \/ todo' = [todo EXCEPT ![p] = Listed \ {BootCpu}] /\ Goto(p, "offline")
     \/ UNCHANGED todo /\ Goto(p, "err")
  /\ UNCHANGED <<given, target, polls, shared>>

\* The head of the loop over the list, in ascending order: look for the
\* CPU's online file and read it.
NextCpu(p) ==
  /\ At(p, "offline")
  /\ \/ todo[p] = {} /\ Goto(p, "reboot") /\ UNCHANGED local
     \/ \E c \in todo[p] :
          /\ \A d \in todo[p] : c <= d
          /\ \/ Goto(p, "err") /\ UNCHANGED local
             \/ /\ c \notin Uncontrolled /\ cpu[c] = "off"
                /\ todo' = [todo EXCEPT ![p] = @ \ {c}]
                /\ UNCHANGED <<pc, target, polls>>
             \/ /\ c \notin Uncontrolled /\ cpu[c] # "off"
                /\ target' = [target EXCEPT ![p] = c]
                /\ polls' = [polls EXCEPT ![p] = 0]
                /\ Goto(p, "write") /\ UNCHANGED todo
  /\ UNCHANGED <<given, shared>>

\* Writing "0" to the online file asks the kernel to take the CPU down.
WriteOffline(p) ==
  /\ At(p, "write")
  /\ \/ /\ cpu' = [cpu EXCEPT ![target[p]] = IF @ = "off" THEN "off" ELSE "dying"]
        /\ Goto(p, "poll")
     \/ UNCHANGED cpu /\ Goto(p, "err")
  /\ UNCHANGED <<given, local, image, plugs, machine>>

PollUnbounded(p) ==
  /\ At(p, "poll")
  /\ \/ /\ cpu[target[p]] = "off" /\ Goto(p, "offline")
        /\ todo' = [todo EXCEPT ![p] = @ \ {target[p]}] /\ UNCHANGED polls
     \/ /\ cpu[target[p]] # "off"
        /\ polls' = [polls EXCEPT ![p] = (@ + 1) % PollLimit]
        /\ UNCHANGED <<pc, todo>>
     \/ Goto(p, "err") /\ UNCHANGED <<todo, polls>>
  /\ UNCHANGED <<given, target, shared>>

PollOnceMore(p) ==
  /\ At(p, "poll")
  /\ \/ /\ cpu[target[p]] = "off" /\ Goto(p, "offline")
        /\ todo' = [todo EXCEPT ![p] = @ \ {target[p]}] /\ UNCHANGED polls
     \/ /\ cpu[target[p]] # "off" /\ polls[p] < PollLimit
        /\ polls' = [polls EXCEPT ![p] = @ + 1]
        /\ UNCHANGED <<pc, todo>>
     \/ Goto(p, "err") /\ UNCHANGED <<todo, polls>>
  /\ UNCHANGED <<given, target, shared>>

PollTimeoutIgnored(p) ==
  /\ At(p, "poll")
  /\ \/ /\ cpu[target[p]] = "off" \/ polls[p] + 1 = PollLimit
        /\ Goto(p, "offline")
        /\ todo' = [todo EXCEPT ![p] = @ \ {target[p]}] /\ UNCHANGED polls
     \/ /\ cpu[target[p]] # "off" /\ polls[p] + 1 < PollLimit
        /\ polls' = [polls EXCEPT ![p] = @ + 1]
        /\ UNCHANGED <<pc, todo>>
     \/ Goto(p, "err") /\ UNCHANGED <<todo, polls>>
  /\ UNCHANGED <<given, target, shared>>

\* One turn of the polling loop; a failed read ends the invocation, too.
Poll(p) ==
  /\ At(p, "poll")
  /\ \/ /\ cpu[target[p]] = "off" /\ Goto(p, "offline")
        /\ todo' = [todo EXCEPT ![p] = @ \ {target[p]}] /\ UNCHANGED polls
     \/ /\ cpu[target[p]] # "off" /\ polls[p] + 1 < PollLimit
        /\ polls' = [polls EXCEPT ![p] = @ + 1]
        /\ UNCHANGED <<pc, todo>>
     \/ Goto(p, "err") /\ UNCHANGED <<todo, polls>>
  /\ UNCHANGED <<given, target, shared>>

\* shutdown(): reboot(LINUX_REBOOT_CMD_KEXEC), into whatever the slot holds.
Reboot(p) ==
  /\ At(p, "reboot")
  /\ \/ image # NoImage /\ machine' = "booted" /\ Goto(p, "ok")
     \/ UNCHANGED machine /\ Goto(p, "err")
  /\ UNCHANGED <<given, local, image, cpu, plugs>>

Unload(p) ==
  /\ At(p, "unload")
  /\ \/ EmptySlot(p) /\ Goto(p, "ok")
     \/ UNCHANGED image /\ Goto(p, "err")
  /\ UNCHANGED <<given, local, cpu, plugs, machine>>

Invocation(p) ==
  \/ Begin(p) \/ Supported(p) \/ Plan(p) \/ KexecLoad(p) \/ ReadCpuList(p)
  \/ NextCpu(p) \/ WriteOffline(p) \/ Poll(p) \/ Reboot(p) \/ Unload(p)
---------------------------------------------------------------------------
(* The CPUs. *)

GoesOffline(c) ==
  /\ machine = "running" /\ cpu[c] = "dying"
  /\ cpu' = [cpu EXCEPT ![c] = "off"]
  /\ UNCHANGED <<given, pc, local, image, plugs, machine>>

\* Somebody else brings a CPU up or takes it down.
Hotplug(c) ==
  /\ machine = "running" /\ plugs < MaxPlugs /\ cpu[c] # "dying"
  /\ cpu' = [cpu EXCEPT ![c] = IF @ = "on" THEN "off" ELSE "on"]
  /\ plugs' = plugs + 1
  /\ UNCHANGED <<given, pc, local, image, machine>>

Done ==
  /\ machine = "booted" \/ \A p \in Proc : pc[p] \in Ended
  /\ UNCHANGED vars

Next ==
  \/ \E p \in Proc : Invocation(p)
  \/ \E c \in Secondary : GoesOffline(c) \/ Hotplug(c)
  \/ Done

Spec == Init /\ [][Next]_vars

\* Linux runs every process that can run.
FairSpec == Spec /\ \A p \in Proc : WF_vars(Invocation(p))
---------------------------------------------------------------------------
\* Type invariant.
TypeOK ==
  /\ cmd \in [Proc -> {"boot", "unload", "info"}] /\ root \in [Proc -> BOOLEAN]
  /\ exclusive \in BOOLEAN /\ pc \in [Proc -> Steps]
  /\ todo \in [Proc -> SUBSET Secondary] /\ target \in [Proc -> Cpu]
  /\ polls \in [Proc -> 0 .. PollLimit - 1]
  /\ image \in Proc \union {NoImage}
  /\ cpu \in [Cpu -> {"on", "dying", "off"}]
  /\ plugs \in 0 .. MaxPlugs /\ machine \in {"running", "booted"}

\* offline_secondary_cpus: whichever invocation reboots, and whatever others do
\* at the same time, the image starts with only the boot CPU running, unless
\* somebody else brought one up.
SingleCpuHandoff ==
  machine = "booted" /\ plugs = 0 => \A c \in Secondary : cpu[c] = "off"

\* An invocation nobody disturbs holds its own image from kexec_load to the
\* reboot: it never takes CPUs down for nothing and never boots a stale image.
ImageUntilReboot ==
  exclusive => \A p \in Proc : pc[p] \in HandingOff => image = p

\* Every invocation ends, or the machine boots the image: no CPU that refuses
\* to go down keeps boot() waiting.
Termination ==
  <>(machine = "booted" \/ \A p \in Proc : pc[p] \in Ended)
---------------------------------------------------------------------------
\* Comment in kexec_supported: "Try to perform a no-op kexec_load to check
\* support".
SupportedIsNoOp == [][\A p \in Proc : Supported(p) => image' = image]_vars
---------------------------------------------------------------------------
(* The inductive invariant behind SingleCpuHandoff: past the list, every   *)
(* secondary CPU is down or still to be taken down by this invocation.     *)
ListedOrDown ==
  plugs = 0 =>
    \A p \in Proc : pc[p] \in HandingOff \ {"cpus"} =>
      \A c \in Secondary : cpu[c] = "off" \/ c \in todo[p]

RebootsAlone == \A p \in Proc : pc[p] = "reboot" => todo[p] = {}

HandoffInv == ListedOrDown /\ RebootsAlone /\ SingleCpuHandoff

(* The one behind ImageUntilReboot: an undisturbed invocation is alone.    *)
Active == Steps \ ({"idle"} \union Ended)

OneActive ==
  exclusive => \A p, q \in Proc : pc[p] \in Active /\ pc[q] \in Active => p = q

SerialInv == OneActive /\ ImageUntilReboot
---------------------------------------------------------------------------
(* Why every invocation ends: no more steps are left to it than this, and  *)
(* nothing anybody does adds to them.                                      *)
InLoop == \A p \in Proc : pc[p] \in {"write", "poll"} => target[p] \in todo[p]

Turns(cpus) == Cardinality(cpus) * (PollLimit + 2)
LeftAt(step, cpus, polled) ==
  CASE step \in Ended -> 0
    [] step \in {"reboot", "unload"} -> 1
    [] step = "poll" -> Turns(cpus) - polled
    [] step = "write" -> Turns(cpus) + 1
    [] step = "offline" -> Turns(cpus) + 2
    [] step = "cpus" -> Turns(Secondary) + 3
    [] step = "load" -> Turns(Secondary) + 4
    [] step = "plan" -> Turns(Secondary) + 5
    [] step = "supported" -> Turns(Secondary) + 6
    [] step = "idle" -> Turns(Secondary) + 7
StepsLeft(p) == LeftAt(pc[p], todo[p], polls[p])

\* What others do at the same time, CPUs that come and go included, may turn
\* an invocation's steps, but never gives it one more.
StepsCount ==
  \A p \in Proc :
    /\ StepsLeft(p) \in Nat /\ StepsLeft(p)' <= StepsLeft(p)
    /\ Invocation(p) => StepsLeft(p)' < StepsLeft(p)
EachStepCounts == [][StepsCount]_vars
============================================================================
