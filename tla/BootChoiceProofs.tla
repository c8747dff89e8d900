-------------------------- MODULE BootChoiceProofs --------------------------
(***************************************************************************)
(* Theorems about BootChoice, for any pools, names, command lines and any  *)
(* number of things that go wrong.                                         *)
(***************************************************************************)
EXTENDS BootChoice, TLAPS

USE ChoiceAssumption

\* What a sequence holds.
LEMMA Element ==
  ASSUME NEW S, NEW s \in Seq(S), NEW i \in DOMAIN s
  PROVE  s[i] \in S
OBVIOUS

\* Every variable keeps its type under every step.
LEMMA TypeStep ==
  ASSUME TypeOK, [Next]_vars
  PROVE  TypeOK'
<1> USE DEF TypeOK, Optional, Pool, NoPool, Value
<1>m. ASSUME Misread PROVE misreads' \in Nat /\ clean' \in BOOLEAN
  <2>1. misreads' \in Nat
    <3>1. misreads \in Nat /\ misreads' = misreads + 1
      BY <1>m, Zenon DEF Misread
    <3> QED BY ONLY <3>1
  <2>2. clean' \in BOOLEAN
    BY <1>m, Zenon DEF Misread
  <2> QED BY <2>1, <2>2
<1>1. ASSUME NEW line \in Lines \union {Missing}, NEW once \in BOOLEAN, Boot(line, once)
      PROVE  TypeOK'
  BY <1>1 DEF Boot, pools, walk, wrong
<1>2. CASE ListPools
  BY <1>2 DEF ListPools, pools, wrong
<1>3. ASSUME NEW p \in Pool, NEW v \in Optional, Bootonce(p, v), pc = "bootonce"
      PROVE  /\ todo' \subseteq Pool /\ value' \in Optional /\ pool' \in Pool \union {NoPool}
             /\ pc' \in {"bootonce", "used"} /\ (pc' = "used" => pool' \in Pool /\ value' # Missing)
             /\ (choice # Missing => pool' \in Pool /\ value' # Missing)
  BY <1>3 DEF Bootonce
<1>4. ASSUME NEW p \in Pool, NEW v \in Optional, Bootonce(p, v), pc = "bootonce",
             UNCHANGED <<pools, linux, args, choice, bootdev, cmdline, root, tries>>,
             UNCHANGED <<crashes, edits, faults>>, misreads' \in Nat, clean' \in BOOLEAN
      PROVE  TypeOK'
  BY <1>3, <1>4 DEF pools
<1>r. CASE ReadBootonce
  <2>1. \A p \in Pool : Property(bootonce, p) \in Optional
    BY DEF Property
  <2> QED BY <1>4, <1>r, <2>1 DEF ReadBootonce, wrong
<1>u. CASE ReadUsed
  BY <1>u DEF ReadUsed, Used, Take, PassOver, pools, wrong
<1>5. CASE NoneUnused
  BY <1>5 DEF NoneUnused, pools, walk, wrong
<1>6. ASSUME NEW device \in Optional, DetectFrom(device),
             misreads' \in Nat, clean' \in BOOLEAN
      PROVE  TypeOK'
  BY <1>6 DEF DetectFrom, pools, walk
<1>7. CASE Detect
  <2>1. linux \in Seq(Value)
    OBVIOUS
  <2>2. \A i \in DOMAIN linux : linux[i] \in Optional
    <3>1. ASSUME NEW i \in DOMAIN linux PROVE linux[i] \in Value
      BY <2>1, <3>1, Element
    <3> QED BY <3>1
  <2> QED BY <1>6, <1>7, <2>2 DEF Detect
<1>8. CASE Resolve
  BY <1>8 DEF Resolve, OnZfs, Mountfrom, pools, walk, wrong
<1>9. CASE Handoff
  BY <1>9 DEF Handoff, EnvRoot, Mountfrom, pools, walk, wrong
<1>10. CASE Fault
  BY <1>10 DEF Fault, BackToLinux, NoArgs, pools
<1>11. CASE MisreadBootonce
  <2>1. misreads' \in Nat /\ clean' \in BOOLEAN
    BY <1>m, <1>11 DEF MisreadBootonce
  <2> QED BY <1>4, <1>11, <2>1 DEF MisreadBootonce
<1>12. CASE MisreadUsed
  <2>1. misreads' \in Nat /\ clean' \in BOOLEAN
    BY <1>m, <1>12 DEF MisreadUsed
  <2>2. pool \in Pool /\ value # Missing
    BY <1>12 DEF MisreadUsed
  <2> QED BY <1>12, <2>1, <2>2 DEF MisreadUsed, Used, Take, PassOver, pools
<1>13. CASE MisreadCmdline
  <2>1. misreads' \in Nat /\ clean' \in BOOLEAN
    BY <1>m, <1>13 DEF MisreadCmdline
  <2> QED BY <1>6, <1>13, <2>1 DEF MisreadCmdline
<1>14. CASE FreeBSDMarks
  BY <1>14 DEF FreeBSDMarks, BackToLinux, NoArgs, wrong
<1>15. CASE FreeBSDCrashes
  BY <1>15 DEF FreeBSDCrashes, BackToLinux, NoArgs, pools
<1>16. ASSUME NEW p \in Pool, Edit(p) PROVE TypeOK'
  <2>1. bootonce' \in [Pool -> Optional]
    BY <1>16 DEF Edit
  <2>u. used' \in [Pool -> Optional]
    BY <1>16 DEF Edit
  <2>i. imported' \subseteq Pool
    <3>1. imported' \in {imported, imported \ {p}, imported \union {p}}
      BY <1>16, Zenon DEF Edit
    <3>2. imported \subseteq Pool /\ p \in Pool
      OBVIOUS
    <3> QED BY ONLY <3>1, <3>2
  <2>2. edits' \in Nat /\ clean' \in BOOLEAN
    BY <1>16 DEF Edit
  <2> QED BY <1>16, <2>1, <2>u, <2>i, <2>2 DEF Edit, walk
<1>17. CASE UNCHANGED vars
  BY <1>17 DEF vars, pools, walk, wrong
<1> HIDE DEF TypeOK, Optional, Pool, NoPool, Value
<1> QED
  BY <1>1, <1>2, <1>r, <1>u, <1>5, <1>7, <1>8, <1>9, <1>10, <1>11, <1>12, <1>13,
     <1>14, <1>15, <1>16, <1>17 DEF Next, Walk

\* The type invariant of the choice of the root file system.
THEOREM ChoiceTypes == Spec => []TypeOK
<1>1. Init => TypeOK
  BY DEF Init, TypeOK, NoArgs, Optional, Pool, NoPool
<1> QED BY <1>1, TypeStep, PTL DEF Spec
---------------------------------------------------------------------------
\* The inductive step of OnceInv. A step that goes wrong raises Causes, which
\* pays for one more start; the others carry the reason why no start is owed.
LEMMA OnceStep ==
  ASSUME TypeOK, OnceInv, [Next]_vars
  PROVE  OnceInv'
<1> USE DEF TypeOK, OnceInv, AskedInv, TakenInv, Marked, NamesRoot, Causes
<1>1. ASSUME NEW line \in Lines \union {Missing}, NEW once \in BOOLEAN, Boot(line, once)
      PROVE  OnceInv'
  BY <1>1 DEF Boot, pools, walk, wrong
<1>2. CASE ListPools
  BY <1>2 DEF ListPools, pools, wrong
<1>3. CASE ReadBootonce
  BY <1>3 DEF ReadBootonce, Bootonce, Property, pools, wrong
<1>4. CASE ReadUsed
  BY <1>4 DEF ReadUsed, Used, Take, PassOver, Property, pools, wrong
<1>5. CASE NoneUnused
  BY <1>5 DEF NoneUnused, pools, walk, wrong
<1>6. ASSUME NEW device, DetectFrom(device), misreads' \in Nat, misreads' >= misreads
      PROVE  OnceInv'
  BY <1>6 DEF DetectFrom, pools, walk
<1>7. CASE Detect
  BY <1>6, <1>7 DEF Detect
<1>8. CASE Resolve
  BY <1>8 DEF Resolve, pools, walk, wrong
<1>9. CASE Handoff
  BY <1>9 DEF Handoff, pools, walk, wrong
<1>10. CASE Fault
  BY <1>10 DEF Fault, BackToLinux, InBoot, pools
<1>11. CASE MisreadBootonce
  BY <1>11 DEF MisreadBootonce, Misread, Bootonce, pools
<1>12. CASE MisreadUsed
  BY <1>12 DEF MisreadUsed, Misread, Used, Take, PassOver, pools
<1>13. CASE MisreadCmdline
  <2>1. misreads \in Nat /\ misreads' = misreads + 1
    BY <1>13, Zenon DEF MisreadCmdline, Misread
  <2>2. misreads' \in Nat /\ misreads' >= misreads
    BY ONLY <2>1
  <2> QED BY <1>6, <1>13, <2>2, Zenon DEF MisreadCmdline
<1>14. CASE FreeBSDMarks
  BY <1>14 DEF FreeBSDMarks, BackToLinux, wrong
<1>15. CASE FreeBSDCrashes
  BY <1>15 DEF FreeBSDCrashes, BackToLinux, pools
<1>16. ASSUME NEW p \in Pool, Edit(p) PROVE OnceInv'
  BY <1>16 DEF Edit, walk
<1>17. CASE UNCHANGED vars
  BY <1>17 DEF vars, pools, walk, wrong
<1> HIDE DEF TypeOK, OnceInv
<1> QED
  BY <1>1, <1>2, <1>3, <1>4, <1>5, <1>7, <1>8, <1>9, <1>10, <1>11, <1>12, <1>13,
     <1>14, <1>15, <1>16, <1>17 DEF Next, Walk

LEMMA OnceAlways == Spec => []OnceInv
<1>1. Init => OnceInv
  BY DEF Init, OnceInv, AskedInv, TakenInv, Causes
<1> QED BY <1>1, OnceStep, ChoiceTypes, PTL DEF Spec

\* A bootonce is started once, and once more only for a crash, a change or a
\* failed read, for any number of pools.
THEOREM OncePerCause == Spec => []OnceForEachCause
<1>1. OnceInv => OnceForEachCause
  BY DEF OnceInv, OnceForEachCause
<1> QED BY <1>1, OnceAlways, PTL
---------------------------------------------------------------------------
\* The inductive step of WalkInv: the pools passed over were not unused, and
\* the one taken is the least of those left.
LEMMA WalkStep ==
  ASSUME TypeOK, OnceInv, WalkInv, [Next]_vars
  PROVE  WalkInv'
<1> USE DEF TypeOK, WalkInv, Unused, IsNext, Pool
<1>1. ASSUME NEW line \in Lines \union {Missing}, NEW once \in BOOLEAN, Boot(line, once)
      PROVE  WalkInv'
  BY <1>1 DEF Boot, pools, walk, wrong
<1>2. CASE ListPools
  BY <1>2 DEF ListPools, pools, wrong
<1>3. CASE ReadBootonce
  BY <1>3 DEF ReadBootonce, Bootonce, Property, pools, wrong
<1>4. CASE ReadUsed
  BY <1>4 DEF ReadUsed, Used, Take, PassOver, Property, pools, wrong
<1>5. CASE NoneUnused
  <2>1. choice = Missing
    BY <1>5 DEF NoneUnused, OnceInv
  <2>2. clean => \A p \in Pool : ~Unused(p)
    BY <1>5 DEF NoneUnused
  <2> QED BY <1>5, <2>1, <2>2 DEF NoneUnused, pools, walk, wrong
<1>7. CASE Detect
  BY <1>7 DEF Detect, DetectFrom, pools, walk
<1>8. CASE Resolve
  BY <1>8 DEF Resolve, pools, walk, wrong
<1>9. CASE Handoff
  BY <1>9 DEF Handoff, pools, walk, wrong
<1>10. CASE Fault
  BY <1>10 DEF Fault, BackToLinux
<1>11. CASE Misread
  BY <1>11 DEF Misread
<1>14. CASE FreeBSDMarks
  BY <1>14 DEF FreeBSDMarks, BackToLinux
<1>15. CASE FreeBSDCrashes
  BY <1>15 DEF FreeBSDCrashes, BackToLinux
<1>16. ASSUME NEW p \in Pool, Edit(p) PROVE WalkInv'
  BY <1>16 DEF Edit
<1>17. CASE UNCHANGED vars
  BY <1>17 DEF vars, pools, walk, wrong
<1> HIDE DEF TypeOK, WalkInv
<1> QED
  BY <1>1, <1>2, <1>3, <1>4, <1>5, <1>7, <1>8, <1>9, <1>10, <1>11,
     <1>14, <1>15, <1>16, <1>17
  DEF Next, Walk, MisreadBootonce, MisreadUsed, MisreadCmdline

\* The walk over the pools returns the first unused bootonce, or none, in every
\* boot that nothing disturbed, for any number of pools.
THEOREM WalkIsExact == Spec => []WalkExact
<1>1. Init => WalkInv
  BY DEF Init, WalkInv
<1>2. TypeOK /\ WalkInv => WalkExact
  BY DEF TypeOK, WalkInv, WalkExact
<1> QED BY <1>1, <1>2, WalkStep, OnceAlways, ChoiceTypes, PTL DEF Spec
---------------------------------------------------------------------------
\* The inductive step of RootInv. The first root= that is not empty is the
\* only such one, and no step changes the line once it is made.
LEMMA RootStep ==
  ASSUME TypeOK, RootInv, [Next]_vars
  PROVE  RootInv'
<1> USE DEF RootInv
<1>1. ASSUME NEW line \in Lines \union {Missing}, NEW once \in BOOLEAN, Boot(line, once)
      PROVE  RootInv'
  BY <1>1 DEF Boot
<1>2. CASE ListPools
  BY <1>2 DEF ListPools
<1>3. CASE ReadBootonce
  BY <1>3 DEF ReadBootonce, Bootonce
<1>4. CASE ReadUsed
  BY <1>4 DEF ReadUsed, Used, Take, PassOver
<1>5. CASE NoneUnused
  BY <1>5 DEF NoneUnused
<1>7. CASE Detect
  <2>1. pc' = "resolve" /\ UNCHANGED linux
    BY <1>7 DEF Detect, DetectFrom
  <2>2. ASSUME NEW i \in DOMAIN linux, FirstGiven(i) PROVE bootdev' = linux[i]
    <3>1. PICK j \in DOMAIN linux : FirstGiven(j) /\ DetectFrom(linux[j])
      BY <1>7, <2>2, Zenon DEF Detect, FirstGiven
    <3>2. linux \in Seq(Value)
      BY DEF TypeOK
    <3>3. i \in Nat \ {0} /\ j \in Nat \ {0}
      BY <3>2
    <3>4. ~(i < j) /\ ~(j < i)
      BY <2>2, <3>1, <3>3 DEF FirstGiven
    <3>5. i = j
      BY ONLY <3>3, <3>4
    <3>6. linux[j] # Missing
      BY <3>1, <3>2, Element
    <3> QED BY <3>1, <3>5, <3>6 DEF DetectFrom
  <2> QED BY <2>1, <2>2 DEF FirstGiven, NotEmpty
<1>8. CASE Resolve
  BY <1>8 DEF Resolve, LineOf, walk, wrong, FirstGiven, NotEmpty
<1>9. CASE Handoff
  BY <1>9 DEF Handoff, LineOf, walk, wrong, FirstGiven, NotEmpty
<1>10. CASE Fault
  BY <1>10 DEF Fault, BackToLinux
<1>11. CASE MisreadBootonce
  BY <1>11 DEF MisreadBootonce, Bootonce
<1>12. CASE MisreadUsed
  BY <1>12 DEF MisreadUsed, Used, Take, PassOver
<1>13. CASE MisreadCmdline
  BY <1>13 DEF MisreadCmdline, Misread, DetectFrom
<1>14. CASE FreeBSDMarks
  BY <1>14 DEF FreeBSDMarks, BackToLinux
<1>15. CASE FreeBSDCrashes
  BY <1>15 DEF FreeBSDCrashes, BackToLinux
<1>16. ASSUME NEW p \in Pool, Edit(p) PROVE RootInv'
  <2>1. /\ clean' = (pc = "linux")
        /\ UNCHANGED <<linux, pc, args, walk, bootdev, cmdline, root>>
    BY <1>16, Zenon DEF Edit
  <2> QED BY <2>1 DEF walk, LineOf
<1>17. CASE UNCHANGED vars
  BY <1>17 DEF vars, walk, wrong, LineOf, FirstGiven, NotEmpty
<1> HIDE DEF RootInv
<1> QED
  BY <1>1, <1>2, <1>3, <1>4, <1>5, <1>7, <1>8, <1>9, <1>10, <1>11, <1>12, <1>13,
     <1>14, <1>15, <1>16, <1>17 DEF Next, Walk

\* A name without white space comes out of the environment as it went in.
LEMMA EnvKeeps ==
  ASSUME NEW v \in Value, Plain(v)
  PROVE  EnvRoot([mountfrom |-> Mountfrom(v)]) = Mountfrom(v)
<1> DEFINE line == [mountfrom |-> Mountfrom(v)]
<1>1. Mountfrom(v) \in Value
  BY DEF Mountfrom, Value
<1>2. line # Missing /\ line.mountfrom # Missing
  BY <1>1 DEF Optional
<1>3. EnvRoot(line) = [Mountfrom(v) EXCEPT !.name = FirstWord[Mountfrom(v).name]]
  BY <1>2 DEF EnvRoot
<1>4. FirstWord[Mountfrom(v).name] = Mountfrom(v).name
  BY DEF Mountfrom, Plain, Value
<1> QED BY <1>1, <1>3, <1>4 DEF Value

\* FreeBSD mounts what was chosen, else what Linux was started from if that
\* is on ZFS, for any number of pools, any roots and whatever goes wrong.
THEOREM RootIsMounted == Spec => []RootReachesKernel
<1>1. Init => RootInv
  BY DEF Init, RootInv
<1>2. TypeOK /\ RootInv => RootReachesKernel
  <2> SUFFICES ASSUME TypeOK, RootInv, pc = "freebsd", args.cmdline = Missing
               PROVE  /\ choice # Missing /\ Plain(choice) => root = Mountfrom(choice)
                      /\ choice = Missing /\ clean =>
                           \A i \in DOMAIN linux : FirstGiven(i) =>
                             /\ linux[i].zfs /\ Plain(linux[i]) => root = linux[i]
                             /\ ~linux[i].zfs => root = Missing
    BY DEF RootReachesKernel
  <2>1. root = EnvRoot(LineOf)
    BY DEF RootInv
  <2>2. ASSUME choice # Missing, Plain(choice) PROVE root = Mountfrom(choice)
    <3>1. choice \in Value
      BY <2>2 DEF TypeOK, Optional
    <3> QED BY <2>1, <2>2, <3>1, EnvKeeps DEF LineOf
  <2>3. ASSUME choice = Missing, clean, NEW i \in DOMAIN linux, FirstGiven(i)
        PROVE  /\ linux[i].zfs /\ Plain(linux[i]) => root = linux[i]
               /\ ~linux[i].zfs => root = Missing
    <3>1. linux \in Seq(Value)
      BY DEF TypeOK
    <3>2. linux[i] \in Value /\ bootdev = linux[i]
      BY <2>3, <3>1, Element DEF RootInv
    <3>3. ASSUME linux[i].zfs, Plain(linux[i]) PROVE root = linux[i]
      <4>1. LineOf = [mountfrom |-> Mountfrom(linux[i])]
        BY <2>3, <3>2, <3>3 DEF LineOf, OnZfs
      <4>2. Mountfrom(linux[i]) = linux[i]
        BY <3>2, <3>3 DEF Mountfrom, Value
      <4> QED BY <2>1, <3>2, <3>3, <4>1, <4>2, EnvKeeps
    <3>4. ASSUME ~linux[i].zfs PROVE root = Missing
      BY <2>1, <2>3, <3>2, <3>4 DEF LineOf, OnZfs, EnvRoot
    <3> QED BY <3>3, <3>4
  <2> QED BY <2>2, <2>3
<1> QED BY <1>1, <1>2, RootStep, ChoiceTypes, PTL DEF Spec
---------------------------------------------------------------------------
\* What an undisturbed boot has started FreeBSD from is what the walk returned.
LEMMA StartedStep ==
  ASSUME TypeOK, WalkInv, StartedInv, [Next]_vars
  PROVE  StartedInv'
<1>1. CASE pc' # "freebsd"
  BY <1>1 DEF StartedInv
<1>2. CASE Handoff
  <2>1. pc = "handoff" /\ UNCHANGED <<pools, linux, args, walk, clean>>
    BY <1>2 DEF Handoff
  <2> QED BY <2>1 DEF WalkInv, StartedInv, UnusedPools, Unused, pools, walk
<1>3. ASSUME NEW line \in Lines \union {Missing}, NEW once \in BOOLEAN, Boot(line, once)
      PROVE  StartedInv'
  BY <1>1, <1>3 DEF Boot
<1>4. CASE ListPools \/ ReadBootonce \/ ReadUsed \/ NoneUnused \/ Detect \/ Resolve
  BY <1>1, <1>4
  DEF ListPools, ReadBootonce, Bootonce, ReadUsed, Used, Take, PassOver, NoneUnused, Detect,
      DetectFrom, Resolve
<1>5. CASE MisreadBootonce \/ MisreadUsed \/ MisreadCmdline
  BY <1>5 DEF StartedInv, MisreadBootonce, MisreadUsed, MisreadCmdline, Misread
<1>6. CASE Fault \/ FreeBSDMarks \/ FreeBSDCrashes
  BY <1>1, <1>6 DEF Fault, FreeBSDMarks, FreeBSDCrashes, BackToLinux
<1>7. ASSUME NEW p \in Pool, Edit(p) PROVE StartedInv'
  <2>1. clean' = (pc = "linux") /\ pc' = pc
    BY <1>7, Zenon DEF Edit
  <2> QED BY <2>1 DEF StartedInv
<1>8. CASE UNCHANGED vars
  BY <1>8 DEF vars, pools, walk, StartedInv, UnusedPools, Unused
<1> QED
  BY <1>2, <1>3, <1>4, <1>5, <1>6, <1>7, <1>8 DEF Next, Walk

\* FreeBSD marks the pool it was started for, and none becomes unused by that.
LEMMA MarksOne ==
  ASSUME TypeOK, RootReachesKernel, StartedInv, FreeBSDMarks,
         clean, args.bootonce, args.cmdline = Missing,
         UnusedPools # {}, \A p \in UnusedPools : Plain(bootonce[p])
  PROVE  UnusedPools' \subseteq UnusedPools /\ UnusedPools' # UnusedPools
<1>1. pc = "freebsd" /\ UNCHANGED <<bootonce, imported>>
      /\ used' = [p \in Pool |-> IF NamesRoot(p) THEN bootonce[p] ELSE used[p]]
  BY DEF FreeBSDMarks
<1>2. choice # Missing /\ Unused(pool) /\ choice = bootonce[pool]
  BY <1>1 DEF StartedInv
<1>3. pool \in Pool
  BY <1>2 DEF TypeOK
<1>4. pool \in UnusedPools
  BY <1>2, <1>3 DEF UnusedPools
<1>5. root = Mountfrom(choice)
  BY <1>1, <1>2, <1>4 DEF RootReachesKernel
<1>6. NamesRoot(pool)
  BY <1>2, <1>5 DEF NamesRoot, Unused
<1>7. ASSUME NEW p \in Pool, Unused(p)' PROVE Unused(p) /\ p # pool
  <2>1. used'[p] = IF NamesRoot(p) THEN bootonce[p] ELSE used[p]
    BY <1>1
  <2>2. p \in imported /\ bootonce[p] # Missing /\ bootonce[p] # used'[p]
    BY <1>1, <1>7 DEF Unused
  <2>3. ~NamesRoot(p)
    BY <2>1, <2>2
  <2> QED BY <1>6, <2>1, <2>2, <2>3 DEF Unused
<1>8. UnusedPools' \subseteq UnusedPools /\ pool \notin UnusedPools'
  BY <1>7 DEF UnusedPools
<1> QED BY <1>4, <1>8

\* The measure behind EachTried, for any number of pools: every undisturbed boot that asks
\* the pools leaves fewer of them unused.
THEOREM BootsUseUp == Spec => EachBootUsesUp
<1>1. Init => WalkInv /\ RootInv /\ StartedInv
  BY DEF Init, WalkInv, RootInv, StartedInv
<1>2. TypeOK /\ WalkInv /\ StartedInv /\ [Next]_vars => StartedInv'
  BY StartedStep
<1>3. TypeOK /\ RootReachesKernel /\ StartedInv => BootUsesUp
  BY MarksOne DEF BootUsesUp
<1>4. Spec => []WalkInv
  BY <1>1, WalkStep, OnceAlways, ChoiceTypes, PTL DEF Spec
<1> QED BY <1>1, <1>2, <1>3, <1>4, ChoiceTypes, RootIsMounted, PTL DEF Spec, EachBootUsesUp
=============================================================================
