----------------------------- MODULE BootChoice -----------------------------
(***************************************************************************)
(* Which root file system the booted FreeBSD is told to mount, over a      *)
(* series of boots: the choice of the command line in boot(), the walk     *)
(* over the pools' bootonce properties (zfs/mod.rs), the detection of a    *)
(* boot device (system/bootdev.rs) and what the environment block keeps of *)
(* the line. Every read of a property is a process of its own: pools and   *)
(* properties may change between two of them, and a read may fail. What    *)
(* FreeBSD does with bootonce-used is external; zjudo only reads it.       *)
(*                                                                         *)
(* A command line is the value of its vfs.root.mountfrom token; a value is *)
(* whether it starts with "zfs:" and the name that follows.                *)
(***************************************************************************)
EXTENDS Naturals, Sequences

CONSTANTS
  Pools,       \* how many pools there are; zpool list prints them in order
  Name,        \* names of datasets and devices
  Empty,       \* the empty name
  FirstWord,   \* a name up to its first white space
  Missing,     \* no value, no command line
  Bootonces,   \* bound: values of freebsd:bootonce
  Lines,       \* bound: arguments --cmdline
  LinuxRoots,  \* bound: the values of the tokens root= in /proc/cmdline
  MaxWrong     \* bound: what goes wrong in all

Value == [zfs : BOOLEAN, name : Name]
Optional == Value \union {Missing}
Pool == 1 .. Pools
NoPool == 0

ASSUME ChoiceAssumption ==
  /\ Pools \in Nat /\ MaxWrong \in Nat
  /\ Empty \in Name /\ FirstWord \in [Name -> Name] /\ FirstWord[Empty] = Empty
  /\ Missing \notin Value /\ Missing \notin [mountfrom : Optional]
  /\ Bootonces \subseteq Value /\ Lines \subseteq [mountfrom : Optional]
  /\ LinuxRoots \subseteq Seq(Value)

VARIABLES
  bootonce, used,  \* the properties of each pool
  imported,        \* the pools Linux has imported
  linux,           \* the root= tokens of Linux's own command line
  pc,
  args,            \* arguments of the boot
  todo,            \* pools still to be asked
  pool, value,     \* the pool asked last and its bootonce
  choice,          \* bootonce_dataset
  bootdev,         \* detected_bootdev
  cmdline,
  root,            \* vfs.root.mountfrom in FreeBSD's environment
  tries,           \* starts of FreeBSD on the root a pool names (history)
  crashes, edits, misreads, faults,  \* what went wrong so far
  clean            \* nothing changed or failed since the boot began (history)

pools == <<bootonce, used, imported>>
walk == <<todo, pool, value, choice>>
wrong == <<crashes, edits, misreads, faults>>
vars == <<pools, linux, pc, args, walk, bootdev, cmdline, root, tries, wrong, clean>>

NoArgs == [cmdline |-> Missing, bootonce |-> FALSE]

Init ==
  /\ bootonce \in [Pool -> Bootonces \union {Missing}] /\ used = [p \in Pool |-> Missing]
  /\ imported = Pool /\ linux \in LinuxRoots
  /\ pc = "linux" /\ args = NoArgs
  /\ todo = {} /\ pool = NoPool /\ value = Missing /\ choice = Missing
  /\ bootdev = Missing /\ cmdline = Missing /\ root = Missing /\ clean = TRUE
  /\ tries = [p \in Pool |-> 0]
  /\ crashes = 0 /\ edits = 0 /\ misreads = 0 /\ faults = 0

\* Linux runs and no boot does; none has left anything behind.
BackToLinux ==
  /\ pc' = "linux" /\ args' = NoArgs
  /\ todo' = {} /\ pool' = NoPool /\ value' = Missing /\ choice' = Missing
  /\ bootdev' = Missing /\ cmdline' = Missing /\ root' = Missing /\ clean' = TRUE
---------------------------------------------------------------------------
(* boot() *)

\* The pools are asked if that is wanted and no line is given; without a line
\* a boot device is looked for.
Boot(line, once) ==
  /\ pc = "linux"
  /\ args' = [cmdline |-> line, bootonce |-> once] /\ cmdline' = line
  /\ pc' = IF line # Missing THEN "resolve" ELSE IF once THEN "list" ELSE "detect"
  /\ UNCHANGED <<pools, linux, walk, bootdev, root, tries, wrong, clean>>

\* list_pools
ListPools ==
  /\ pc = "list"
  /\ todo' = imported
  /\ pc' = "bootonce"
  /\ UNCHANGED <<pools, linux, args, pool, value, choice, bootdev, cmdline, root, tries, wrong, clean>>

\* get_pool_property: an exported pool has none.
Property(prop, p) == IF p \in imported THEN prop[p] ELSE Missing
IsNext(p) == p \in todo /\ \A q \in todo : p <= q

\* A pool without a bootonce is passed over.
Bootonce(p, v) ==
  IF v = Missing THEN todo' = todo \ {p} /\ UNCHANGED <<pc, pool, value>>
  ELSE pool' = p /\ value' = v /\ pc' = "used" /\ UNCHANGED todo

ReadBootonce ==
  /\ pc = "bootonce"
  /\ \E p \in Pool : IsNext(p) /\ Bootonce(p, Property(bootonce, p))
  /\ UNCHANGED <<pools, linux, args, choice, bootdev, cmdline, root, tries, wrong, clean>>

Take == choice' = value /\ pc' = "detect" /\ UNCHANGED todo
PassOver == todo' = todo \ {pool} /\ pc' = "bootonce" /\ UNCHANGED choice

UsedIgnored(u) == Take
UsedWhatever(u) == IF u # Missing THEN PassOver ELSE Take
UsedEndsWalk(u) ==
  IF u = value THEN pc' = "detect" /\ UNCHANGED <<todo, choice>> ELSE Take

\* The bootonce is taken unless it is the one already used.
Used(u) == IF u = value THEN PassOver ELSE Take

ReadUsed ==
  /\ pc = "used"
  /\ Used(Property(used, pool))
  /\ UNCHANGED <<pools, linux, args, pool, value, bootdev, cmdline, root, tries, wrong, clean>>

NoneUnused ==
  /\ pc = "bootonce" /\ todo = {}
  /\ pc' = "detect"
  /\ UNCHANGED <<pools, linux, args, walk, bootdev, cmdline, root, tries, wrong, clean>>

\* parse_root_from_cmdline: the first root= that is not empty.
NotEmpty(i) == linux[i].zfs \/ linux[i].name # Empty
FirstGiven(i) == NotEmpty(i) /\ \A j \in 1 .. i - 1 : ~NotEmpty(j)

\* detect_bootdev; pools count if zfs is installed and lists them.
DetectFrom(device) ==
  /\ pc = "detect"
  /\ \E answers \in BOOLEAN :
       bootdev' = IF device # Missing THEN device
                  ELSE IF answers /\ imported # {} THEN [zfs |-> TRUE, name |-> Empty]
                  ELSE Missing
  /\ pc' = "resolve"
  /\ UNCHANGED <<pools, linux, args, walk, cmdline, root, tries, crashes, edits, faults>>

Detect ==
  /\ \/ \E i \in DOMAIN linux : FirstGiven(i) /\ DetectFrom(linux[i])
     \/ (\A i \in DOMAIN linux : ~NotEmpty(i)) /\ DetectFrom(Missing)
  /\ UNCHANGED <<misreads, clean>>

MountfromAsIs(v) == v

\* format_zfs_mountfrom
Mountfrom(v) == [v EXCEPT !.zfs = TRUE]

OnZfs(device) == device # Missing /\ device.zfs

ResolveDeviceFirst ==
  /\ pc = "resolve"
  /\ cmdline' = IF args.cmdline # Missing THEN args.cmdline
                ELSE IF OnZfs(bootdev) THEN [mountfrom |-> Mountfrom(bootdev)]
                ELSE IF choice # Missing THEN [mountfrom |-> Mountfrom(choice)]
                ELSE Missing
  /\ pc' = "handoff"
  /\ UNCHANGED <<pools, linux, args, walk, bootdev, root, tries, wrong, clean>>

\* resolve_boot_cmdline
Resolve ==
  /\ pc = "resolve"
  /\ cmdline' = IF args.cmdline # Missing THEN args.cmdline
                ELSE IF choice # Missing THEN [mountfrom |-> Mountfrom(choice)]
                ELSE IF OnZfs(bootdev) THEN [mountfrom |-> Mountfrom(bootdev)]
                ELSE Missing
  /\ pc' = "handoff"
  /\ UNCHANGED <<pools, linux, args, walk, bootdev, root, tries, wrong, clean>>

\* build_env_block cuts the line at white space.
EnvRoot(line) ==
  IF line = Missing THEN Missing
  ELSE IF line.mountfrom = Missing THEN Missing
  ELSE [line.mountfrom EXCEPT !.name = FirstWord[line.mountfrom.name]]

\* The rest of boot(), up to the reboot into FreeBSD.
Handoff ==
  /\ pc = "handoff"
  /\ root' = EnvRoot(cmdline)
  /\ pc' = "freebsd"
  /\ tries' = IF choice # Missing /\ root' = Mountfrom(choice)
              THEN [tries EXCEPT ![pool] = @ + 1] ELSE tries
  /\ UNCHANGED <<pools, linux, args, walk, bootdev, cmdline, wrong, clean>>
---------------------------------------------------------------------------
(* What may fail. *)

InBoot == pc \in {"list", "bootonce", "used", "detect", "resolve", "handoff"}
Trouble == crashes + edits + misreads + faults < MaxWrong

\* A step of boot() that returns an error: Linux goes on running.
Fault ==
  /\ InBoot /\ Trouble
  /\ faults' = faults + 1
  /\ BackToLinux
  /\ UNCHANGED <<pools, linux, tries, crashes, edits, misreads>>

\* zpool get fails: the property counts as absent.
Misread == Trouble /\ misreads' = misreads + 1 /\ clean' = FALSE

MisreadBootonce ==
  /\ Misread
  /\ pc = "bootonce"
  /\ \E p \in Pool : IsNext(p) /\ Bootonce(p, Missing)
  /\ UNCHANGED <<pools, linux, args, choice, bootdev, cmdline, root, tries, crashes, edits, faults>>

MisreadUsed ==
  /\ Misread
  /\ pc = "used"
  /\ Used(Missing)
  /\ UNCHANGED <<pools, linux, args, pool, value, bootdev, cmdline, root, tries, crashes, edits, faults>>

\* /proc/cmdline cannot be read.
MisreadCmdline == Misread /\ DetectFrom(Missing)
---------------------------------------------------------------------------
(* Outside: FreeBSD, and whoever administers the pools. *)

NamesRoot(p) == p \in imported /\ bootonce[p] # Missing /\ Mountfrom(bootonce[p]) = root

\* FreeBSD comes up on the root it was told and marks the pools that named it.
FreeBSDMarks ==
  /\ pc = "freebsd"
  /\ used' = [p \in Pool |-> IF NamesRoot(p) THEN bootonce[p] ELSE used[p]]
  /\ BackToLinux
  /\ UNCHANGED <<bootonce, imported, linux, tries, wrong>>

FreeBSDCrashes ==
  /\ pc = "freebsd" /\ Trouble
  /\ crashes' = crashes + 1
  /\ BackToLinux
  /\ UNCHANGED <<pools, linux, tries, edits, misreads, faults>>

\* A property is set or cleared, a pool is exported or imported.
Edit(p) ==
  /\ Trouble
  /\ edits' = edits + 1 /\ clean' = (pc = "linux")
  /\ \/ /\ \E v \in Bootonces \union {Missing} : bootonce' = [bootonce EXCEPT ![p] = v]
        /\ UNCHANGED <<used, imported>>
     \/ used' = [used EXCEPT ![p] = Missing] /\ UNCHANGED <<bootonce, imported>>
     \/ /\ imported' = IF p \in imported THEN imported \ {p} ELSE imported \union {p}
        /\ UNCHANGED <<bootonce, used>>
  /\ UNCHANGED <<linux, pc, args, walk, bootdev, cmdline, root, tries, crashes, misreads, faults>>

Walk == ListPools \/ ReadBootonce \/ ReadUsed \/ NoneUnused \/ Detect \/ Resolve \/ Handoff

Next ==
  \/ \E line \in Lines \union {Missing}, once \in BOOLEAN : Boot(line, once)
  \/ Walk \/ Fault \/ MisreadBootonce \/ MisreadUsed \/ MisreadCmdline
  \/ FreeBSDMarks \/ FreeBSDCrashes
  \/ \E p \in Pool : Edit(p)

Spec == Init /\ [][Next]_vars

\* A boot goes on, FreeBSD comes up and is left again, and somebody boots with
\* --bootonce and no command line again and again.
FairSpec == Spec /\ WF_vars(Walk) /\ WF_vars(FreeBSDMarks) /\ SF_vars(Boot(Missing, TRUE))
---------------------------------------------------------------------------
\* Type invariant; a line zjudo makes itself always says zfs.
TypeOK ==
  /\ bootonce \in [Pool -> Optional] /\ used \in [Pool -> Optional] /\ imported \subseteq Pool
  /\ linux \in LinuxRoots
  /\ args \in [cmdline : Lines \union {Missing}, bootonce : BOOLEAN]
  /\ pc \in {"linux", "list", "bootonce", "used", "detect", "resolve", "handoff", "freebsd"}
  /\ todo \subseteq Pool /\ value \in Optional /\ choice \in Optional
  /\ pool \in Pool \union {NoPool}
  /\ pc = "used" \/ choice # Missing => pool \in Pool /\ value # Missing
  /\ bootdev \in Optional
  /\ cmdline \in Lines \union {Missing} \union [mountfrom : {v \in Value : v.zfs}]
  /\ root \in Optional
  /\ tries \in [Pool -> Nat] /\ clean \in BOOLEAN
  /\ crashes \in Nat /\ edits \in Nat /\ misreads \in Nat /\ faults \in Nat

Causes == crashes + edits + misreads

\* get_bootonce_dataset over a series of boots: a data set is started once,
\* and once more only for a crash before FreeBSD marked it, a change somebody
\* made or a property that could not be read.
OnceForEachCause == \A p \in Pool : tries[p] <= 1 + Causes

Unused(p) == p \in imported /\ bootonce[p] # Missing /\ bootonce[p] # used[p]

\* The walk of a boot in which nothing changed or failed returns the first
\* unused bootonce there is, of the pools in the order of the list, or none.
WalkExact ==
  pc = "handoff" /\ clean /\ args.bootonce /\ args.cmdline = Missing =>
    \/ choice = Missing /\ \A p \in Pool : ~Unused(p)
    \/ \E p \in Pool : Unused(p) /\ choice = bootonce[p] /\ \A q \in 1 .. p - 1 : ~Unused(q)

Plain(v) == FirstWord[v.name] = v.name

\* From the choice through the command line, the environment block and the
\* kernel's variables: FreeBSD mounts the data set that was chosen, else the
\* root Linux itself was started with if that is on ZFS, unless a name has
\* white space in it or the line is the caller's.
RootReachesKernel ==
  pc = "freebsd" /\ args.cmdline = Missing =>
    /\ choice # Missing /\ Plain(choice) => root = Mountfrom(choice)
    /\ choice = Missing /\ clean =>
         \A i \in DOMAIN linux : FirstGiven(i) =>
           /\ linux[i].zfs /\ Plain(linux[i]) => root = linux[i]
           /\ ~linux[i].zfs => root = Missing

\* Every bootonce is used up: no pool starves behind another one, unless one
\* names a data set FreeBSD cannot be told.
EachTried ==
  \A p \in Pool :
    Unused(p) ~> (~Unused(p) \/ \E q \in Pool : Unused(q) /\ ~Plain(bootonce[q]))
---------------------------------------------------------------------------
(* The inductive invariant behind OnceForEachCause.                        *)
Marked(p) == bootonce[p] # Missing /\ used[p] = bootonce[p]

\* The pool whose bootonce was read last, until its used value is read.
AskedInv ==
  pc = "used" =>
    \/ tries[pool] + 1 <= Causes
    \/ tries[pool] <= Causes /\ used[pool] = value /\ (pool \in imported \/ bootonce[pool] = value)
    \/ tries[pool] <= Causes /\ bootonce[pool] = value /\ pool \in imported
    \/ Marked(pool) /\ bootonce[pool] = value /\ pool \in imported

\* The pool whose bootonce was taken, until FreeBSD starts.
TakenInv ==
  choice # Missing /\ pc # "freebsd" =>
    \/ tries[pool] + 1 <= Causes
    \/ /\ tries[pool] <= Causes /\ bootonce[pool] = choice
       /\ pool \in imported \/ used[pool] = choice

OnceInv ==
  /\ \A p \in Pool :
       /\ tries[p] <= 1 + Causes
       /\ tries[p] <= Causes \/ Marked(p) \/ (pc = "freebsd" /\ NamesRoot(p))
  /\ AskedInv /\ TakenInv
  /\ choice # Missing => pc \in {"detect", "resolve", "handoff", "freebsd"}

(* The one behind WalkExact: what has been passed over is not unused.      *)
WalkInv ==
  clean =>
    /\ pc \in {"bootonce", "used"} => todo \subseteq imported
    /\ pc \in {"bootonce", "used"} => \A p \in Pool \ todo : ~Unused(p)
    /\ pc = "used" => IsNext(pool) /\ bootonce[pool] = value
    /\ pc \in {"detect", "resolve", "handoff"} /\ args.bootonce /\ args.cmdline = Missing =>
         IF choice = Missing THEN \A p \in Pool : ~Unused(p)
         ELSE /\ Unused(pool) /\ choice = bootonce[pool]
              /\ \A q \in 1 .. pool - 1 : ~Unused(q)

(* The one behind RootReachesKernel: what was chosen and what was detected *)
(* make the line, and the line the root.                                   *)
LineOf ==
  IF choice # Missing THEN [mountfrom |-> Mountfrom(choice)]
  ELSE IF OnZfs(bootdev) THEN [mountfrom |-> Mountfrom(bootdev)]
  ELSE Missing

RootInv ==
  /\ pc \in {"resolve", "handoff", "freebsd"} /\ clean /\ args.cmdline = Missing =>
       \A i \in DOMAIN linux : FirstGiven(i) => bootdev = linux[i]
  /\ pc \in {"handoff", "freebsd"} /\ args.cmdline = Missing => cmdline = LineOf
  /\ pc = "freebsd" => root = EnvRoot(cmdline)
---------------------------------------------------------------------------
(* The step behind EachTried: an undisturbed boot that asks the pools      *)
(* leaves fewer of them unused once FreeBSD is up, unless there was none   *)
(* or one names a data set FreeBSD cannot be told.                         *)
UnusedPools == {p \in Pool : Unused(p)}

StartedInv ==
  pc = "freebsd" /\ clean /\ args.bootonce /\ args.cmdline = Missing =>
    IF choice = Missing THEN UnusedPools = {} ELSE Unused(pool) /\ choice = bootonce[pool]

BootUsesUp ==
  FreeBSDMarks /\ clean /\ args.bootonce /\ args.cmdline = Missing =>
    \/ UnusedPools = {} \/ \E p \in UnusedPools : ~Plain(bootonce[p])
    \/ UnusedPools' \subseteq UnusedPools /\ UnusedPools' # UnusedPools
EachBootUsesUp == [][BootUsesUp]_vars
=============================================================================
