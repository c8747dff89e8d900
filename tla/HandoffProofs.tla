--------------------------- MODULE HandoffProofs ---------------------------
(***************************************************************************)
(* Theorems about Handoff, for any invocations, CPUs and poll limits.      *)
(***************************************************************************)
EXTENDS Handoff, TLAPS, FiniteSetTheorems

USE HandoffAssumption

\* Every variable keeps its type under every step.
THEOREM HandoffTypes == Spec => []TypeOK
<1>1. Init => TypeOK
  BY DEF Init, TypeOK, Steps, HandingOff, Ended, Secondary
<1>2. ASSUME TypeOK, [Next]_vars PROVE TypeOK'
  <2> USE <1>2 DEF TypeOK, Goto, At, Steps, HandingOff, Ended, Secondary
  <2>1. ASSUME NEW p \in Proc, Begin(p) PROVE TypeOK'
    BY <2>1 DEF Begin, given, local, shared
  <2>2. ASSUME NEW p \in Proc, Supported(p) PROVE TypeOK'
    BY <2>2 DEF Supported, given, EmptySlot, local
  <2>3. ASSUME NEW p \in Proc, Plan(p) PROVE TypeOK'
    BY <2>3 DEF Plan, given, local, shared
  <2>4. ASSUME NEW p \in Proc, KexecLoad(p) PROVE TypeOK'
    BY <2>4 DEF KexecLoad, given, local
  <2>5. ASSUME NEW p \in Proc, ReadCpuList(p) PROVE TypeOK'
    BY <2>5 DEF ReadCpuList, given, Listed, shared
  <2>6. ASSUME NEW p \in Proc, NextCpu(p) PROVE TypeOK'
    BY <2>6 DEF NextCpu, given, local, shared
  <2>7. ASSUME NEW p \in Proc, WriteOffline(p) PROVE TypeOK'
    BY <2>7 DEF WriteOffline, given, local
  <2>8. ASSUME NEW p \in Proc, Poll(p) PROVE TypeOK'
    BY <2>8 DEF Poll, given, shared
  <2>9. ASSUME NEW p \in Proc, Reboot(p) PROVE TypeOK'
    BY <2>9 DEF Reboot, given, local
  <2>10. ASSUME NEW p \in Proc, Unload(p) PROVE TypeOK'
    BY <2>10 DEF Unload, given, EmptySlot, local
  <2>11. ASSUME NEW c \in Secondary, GoesOffline(c) PROVE TypeOK'
    BY <2>11 DEF GoesOffline, given, local
  <2>12. ASSUME NEW c \in Secondary, Hotplug(c) PROVE TypeOK'
    BY <2>12 DEF Hotplug, given, local
  <2>13. CASE UNCHANGED vars
    BY <2>13 DEF vars, given, local, shared
  <2> QED
    BY <1>2, <2>1, <2>2, <2>3, <2>4, <2>5, <2>6, <2>7, <2>8, <2>9, <2>10, <2>11,
       <2>12, <2>13 DEF Next, Invocation, Done
<1> QED BY <1>1, <1>2, PTL DEF Spec
---------------------------------------------------------------------------
\* The inductive step of HandoffInv: steps that take no CPU up keep what is
\* down down, and an invocation drops a CPU from its list only when it is.
LEMMA HandoffStep ==
  ASSUME TypeOK, HandoffInv, [Next]_vars
  PROVE  HandoffInv'
<1> USE DEF TypeOK, HandoffInv, ListedOrDown, RebootsAlone, SingleCpuHandoff,
            Goto, At, HandingOff, Secondary
<1>1. ASSUME NEW p \in Proc, Begin(p) PROVE HandoffInv'
  BY <1>1 DEF Begin, given, local, shared
<1>2. ASSUME NEW p \in Proc, Supported(p) PROVE HandoffInv'
  BY <1>2 DEF Supported, given, Ended, local
<1>3. ASSUME NEW p \in Proc, Plan(p) PROVE HandoffInv'
  BY <1>3 DEF Plan, given, local, shared
<1>4. ASSUME NEW p \in Proc, KexecLoad(p) PROVE HandoffInv'
  BY <1>4 DEF KexecLoad, given, local
<1>5. ASSUME NEW p \in Proc, ReadCpuList(p) PROVE HandoffInv'
  BY <1>5 DEF ReadCpuList, given, Listed, shared
<1>6. ASSUME NEW p \in Proc, NextCpu(p) PROVE HandoffInv'
  <2>1. CASE todo[p] = {} /\ Goto(p, "reboot") /\ UNCHANGED local
    BY <1>6, <2>1 DEF NextCpu, given, local, shared
  <2>2. CASE Goto(p, "err") /\ UNCHANGED local
    BY <1>6, <2>2 DEF NextCpu, given, local, shared
  <2>3. ASSUME NEW c \in todo[p], cpu[c] = "off",
               todo' = [todo EXCEPT ![p] = @ \ {c}], UNCHANGED pc
        PROVE  HandoffInv'
    BY <1>6, <2>3 DEF NextCpu, given, shared
  <2>4. ASSUME NEW c \in todo[p], Goto(p, "write"), UNCHANGED todo
        PROVE  HandoffInv'
    BY <1>6, <2>4 DEF NextCpu, given, shared
  <2> QED BY <1>6, <2>1, <2>2, <2>3, <2>4 DEF NextCpu, given
<1>7. ASSUME NEW p \in Proc, WriteOffline(p) PROVE HandoffInv'
  BY <1>7 DEF WriteOffline, given, local
<1>8. ASSUME NEW p \in Proc, Poll(p) PROVE HandoffInv'
  BY <1>8 DEF Poll, given, shared
<1>9. ASSUME NEW p \in Proc, Reboot(p) PROVE HandoffInv'
  BY <1>9 DEF Reboot, given, local
<1>10. ASSUME NEW p \in Proc, Unload(p) PROVE HandoffInv'
  BY <1>10 DEF Unload, given, local
<1>11. ASSUME NEW c \in Secondary, GoesOffline(c) PROVE HandoffInv'
  BY <1>11 DEF GoesOffline, given, local
<1>12. ASSUME NEW c \in Secondary, Hotplug(c) PROVE HandoffInv'
  BY <1>12 DEF Hotplug, given, local
<1>13. CASE UNCHANGED vars
  BY <1>13 DEF vars, given, local, shared
<1> QED
  BY <1>1, <1>2, <1>3, <1>4, <1>5, <1>6, <1>7, <1>8, <1>9, <1>10, <1>11, <1>12,
     <1>13 DEF Next, Invocation, Done

\* The image starts with only the boot CPU running, for any number of CPUs and
\* of invocations that run at the same time.
THEOREM HandoffIsSingleCpu == Spec => []SingleCpuHandoff
<1>1. Init => HandoffInv
  BY DEF Init, HandoffInv, ListedOrDown, RebootsAlone, SingleCpuHandoff, HandingOff
<1>2. HandoffInv => SingleCpuHandoff
  BY DEF HandoffInv
<1> QED BY <1>1, <1>2, HandoffStep, HandoffTypes, PTL DEF Spec
---------------------------------------------------------------------------
\* The inductive step of SerialInv: nobody begins beside an active invocation,
\* so nobody else empties or fills the slot.
LEMMA SerialStep ==
  ASSUME TypeOK, SerialInv, [Next]_vars
  PROVE  SerialInv'
<1> USE DEF TypeOK, SerialInv, OneActive, ImageUntilReboot, Active, Goto, At,
            Steps, HandingOff, Ended
<1>1. ASSUME NEW p \in Proc, Begin(p) PROVE SerialInv'
  BY <1>1 DEF Begin, given, shared
<1>2. ASSUME NEW p \in Proc, Supported(p) PROVE SerialInv'
  BY <1>2 DEF Supported, given, EmptySlot
<1>3. ASSUME NEW p \in Proc, Plan(p) PROVE SerialInv'
  BY <1>3 DEF Plan, given, shared
<1>4. ASSUME NEW p \in Proc, KexecLoad(p) PROVE SerialInv'
  BY <1>4 DEF KexecLoad, given
<1>5. ASSUME NEW p \in Proc, ReadCpuList(p) PROVE SerialInv'
  BY <1>5 DEF ReadCpuList, given, shared
<1>6. ASSUME NEW p \in Proc, NextCpu(p) PROVE SerialInv'
  BY <1>6 DEF NextCpu, given, shared
<1>7. ASSUME NEW p \in Proc, WriteOffline(p) PROVE SerialInv'
  BY <1>7 DEF WriteOffline, given
<1>8. ASSUME NEW p \in Proc, Poll(p) PROVE SerialInv'
  BY <1>8 DEF Poll, given, shared
<1>9. ASSUME NEW p \in Proc, Reboot(p) PROVE SerialInv'
  BY <1>9 DEF Reboot, given
<1>10. ASSUME NEW p \in Proc, Unload(p) PROVE SerialInv'
  BY <1>10 DEF Unload, given, EmptySlot
<1>11. ASSUME NEW c \in Secondary, GoesOffline(c) PROVE SerialInv'
  BY <1>11 DEF GoesOffline, given
<1>12. ASSUME NEW c \in Secondary, Hotplug(c) PROVE SerialInv'
  BY <1>12 DEF Hotplug, given
<1>13. CASE UNCHANGED vars
  BY <1>13 DEF vars, given, shared
<1> QED
  BY <1>1, <1>2, <1>3, <1>4, <1>5, <1>6, <1>7, <1>8, <1>9, <1>10, <1>11, <1>12,
     <1>13 DEF Next, Invocation, Done

\* An invocation nobody disturbs holds its own image until the reboot.
THEOREM OwnImageUntilReboot == Spec => []ImageUntilReboot
<1>1. Init => SerialInv
  BY DEF Init, SerialInv, OneActive, ImageUntilReboot, Active, HandingOff, Ended, Steps
<1>2. SerialInv => ImageUntilReboot
  BY DEF SerialInv
<1> QED BY <1>1, <1>2, SerialStep, HandoffTypes, PTL DEF Spec
---------------------------------------------------------------------------
(* How many steps an invocation has left.                                  *)

\* Taking one CPU off the list takes away one turn of the loop.
LEMMA TurnsFacts ==
  ASSUME NEW S, S \subseteq Secondary
  PROVE  /\ Turns(S) \in Nat /\ Turns(S) <= Turns(Secondary)
         /\ \A c \in S : Turns(S \ {c}) \in Nat /\ Turns(S) = Turns(S \ {c}) + PollLimit + 2
<1>1. IsFiniteSet(Secondary)
  BY FS_Difference DEF Secondary
<1>2. IsFiniteSet(S)
  BY <1>1, FS_Subset
<1>3. /\ Cardinality(S) \in Nat /\ Cardinality(Secondary) \in Nat
      /\ Cardinality(S) <= Cardinality(Secondary)
  BY <1>1, <1>2, FS_CardinalityType, FS_Subset
<1>4. PollLimit + 2 \in Nat
  OBVIOUS
<1>5. \A a, b, n \in Nat : a <= b => a * n \in Nat /\ a * n <= b * n
  OBVIOUS
<1>6. \A a, n \in Nat : a >= 1 => (a - 1) * n \in Nat /\ a * n = (a - 1) * n + n
  OBVIOUS
<1>7. Turns(S) \in Nat /\ Turns(S) <= Turns(Secondary)
  BY <1>3, <1>4, <1>5 DEF Turns
<1>8. ASSUME NEW c \in S
      PROVE  Turns(S \ {c}) \in Nat /\ Turns(S) = Turns(S \ {c}) + PollLimit + 2
  <2>1. Cardinality(S \ {c}) = Cardinality(S) - 1
    BY <1>2, FS_RemoveElement
  <2>2. Cardinality(S) >= 1
    <3>1. S # {}
      BY <1>8
    <3>2. Cardinality(S) # 0
      BY <1>2, <3>1, FS_EmptySet
    <3> QED BY <1>3, <3>2
  <2> DEFINE a == Cardinality(S)
             n == PollLimit + 2
  <2>3. Turns(S) = a * n /\ Turns(S \ {c}) = (a - 1) * n
    BY <2>1, Zenon DEF Turns
  <2>4. (a - 1) * n \in Nat /\ a * n = (a - 1) * n + n
    BY <1>3, <1>4, <1>6, <2>2
  <2> HIDE DEF a
  <2> QED BY <2>3, <2>4
<1> QED BY <1>7, <1>8

\* The steps left at each step of an invocation.
LEMMA LeftIs ==
  ASSUME NEW S, NEW n
  PROVE  /\ LeftAt("ok", S, n) = 0 /\ LeftAt("err", S, n) = 0
         /\ LeftAt("reboot", S, n) = 1 /\ LeftAt("unload", S, n) = 1
         /\ LeftAt("poll", S, n) = Turns(S) - n /\ LeftAt("write", S, n) = Turns(S) + 1
         /\ LeftAt("offline", S, n) = Turns(S) + 2 /\ LeftAt("cpus", S, n) = Turns(Secondary) + 3
         /\ LeftAt("load", S, n) = Turns(Secondary) + 4 /\ LeftAt("plan", S, n) = Turns(Secondary) + 5
         /\ LeftAt("supported", S, n) = Turns(Secondary) + 6 /\ LeftAt("idle", S, n) = Turns(Secondary) + 7
BY DEF LeftAt, Ended

\* An invocation that is busy with a CPU has it on its list.
LEMMA InLoopStep ==
  ASSUME TypeOK, InLoop, [Next]_vars
  PROVE  InLoop'
<1> USE DEF TypeOK, InLoop, Goto, At
<1>1. ASSUME NEW p \in Proc, Begin(p) PROVE InLoop'
  BY <1>1 DEF Begin, local
<1>2. ASSUME NEW p \in Proc, Supported(p) PROVE InLoop'
  BY <1>2 DEF Supported, Ended, local
<1>3. ASSUME NEW p \in Proc, Plan(p) PROVE InLoop'
  BY <1>3 DEF Plan, local
<1>4. ASSUME NEW p \in Proc, KexecLoad(p) PROVE InLoop'
  BY <1>4 DEF KexecLoad, local
<1>5. ASSUME NEW p \in Proc, ReadCpuList(p) PROVE InLoop'
  BY <1>5 DEF ReadCpuList
<1>6. ASSUME NEW p \in Proc, NextCpu(p) PROVE InLoop'
  <2>1. CASE UNCHANGED local /\ (Goto(p, "reboot") \/ Goto(p, "err"))
    BY <1>6, <2>1 DEF local
  <2>2. ASSUME NEW c \in todo[p], todo' = [todo EXCEPT ![p] = @ \ {c}], UNCHANGED <<pc, target, polls>>
        PROVE  InLoop'
    BY <1>6, <2>2 DEF NextCpu
  <2>3. ASSUME NEW c \in todo[p], target' = [target EXCEPT ![p] = c], Goto(p, "write"), UNCHANGED todo
        PROVE  InLoop'
    BY <1>6, <2>3
  <2> QED BY <1>6, <2>1, <2>2, <2>3 DEF NextCpu
<1>7. ASSUME NEW p \in Proc, WriteOffline(p) PROVE InLoop'
  BY <1>7 DEF WriteOffline, local
<1>8. ASSUME NEW p \in Proc, Poll(p) PROVE InLoop'
  BY <1>8 DEF Poll
<1>9. ASSUME NEW p \in Proc, Reboot(p) \/ Unload(p) PROVE InLoop'
  BY <1>9 DEF Reboot, Unload, local
<1>10. ASSUME NEW c \in Secondary, GoesOffline(c) \/ Hotplug(c) PROVE InLoop'
  BY <1>10 DEF GoesOffline, Hotplug, local
<1>11. CASE UNCHANGED vars
  BY <1>11 DEF vars, local
<1> QED
  BY <1>1, <1>2, <1>3, <1>4, <1>5, <1>6, <1>7, <1>8, <1>9, <1>10, <1>11 DEF Next, Invocation, Done
\* Nobody else's steps change what an invocation has left.
LEMMA LeftToOthers ==
  ASSUME TypeOK, NEW q \in Proc,
         pc'[q] = pc[q], todo'[q] = todo[q], polls'[q] = polls[q]
  PROVE  StepsLeft(q)' = StepsLeft(q)
BY DEF StepsLeft

\* An invocation's number of steps left is one, and none only at its end.
LEMMA LeftIsNat ==
  ASSUME NEW here \in Steps, NEW S, S \subseteq Secondary, NEW n \in 0 .. PollLimit - 1,
         here = "poll" => S # {}
  PROVE  LeftAt(here, S, n) \in Nat /\ (here \notin Ended => LeftAt(here, S, n) > 0)
<1>1. Turns(S) \in Nat /\ Turns(Secondary) \in Nat
  BY TurnsFacts
<1>2. ASSUME here = "poll" PROVE Turns(S) - n \in Nat /\ Turns(S) - n > 0
  <2>1. PICK c \in S : TRUE
    BY <1>2
  <2>2. Turns(S \ {c}) \in Nat /\ Turns(S) = Turns(S \ {c}) + PollLimit + 2
    BY TurnsFacts
  <2> QED BY <2>2
<1> QED BY <1>1, <1>2, LeftIs DEF Steps, HandingOff, Ended

LEMMA LeftIsCounted ==
  ASSUME TypeOK, InLoop, NEW p \in Proc
  PROVE  StepsLeft(p) \in Nat /\ (pc[p] \notin Ended => StepsLeft(p) > 0)
<1>1. /\ pc[p] \in Steps /\ todo[p] \subseteq Secondary /\ polls[p] \in 0 .. PollLimit - 1
      /\ pc[p] = "poll" => todo[p] # {}
  BY DEF TypeOK, InLoop
<1> QED BY <1>1, LeftIsNat DEF StepsLeft

\* A step of an invocation leaves it fewer.
LEMMA StepTaken ==
  ASSUME TypeOK, TypeOK', InLoop, InLoop', NEW p \in Proc, Invocation(p)
  PROVE  StepsLeft(p)' < StepsLeft(p)
<1> DEFINE S == todo[p]
           n == polls[p]
<1>1. /\ S \subseteq Secondary /\ n \in 0 .. PollLimit - 1
      /\ pc \in [Proc -> Steps] /\ todo \in [Proc -> SUBSET Secondary]
      /\ polls \in [Proc -> 0 .. PollLimit - 1]
  BY DEF TypeOK
<1>2. /\ Turns(S) \in Nat /\ Turns(Secondary) \in Nat /\ Turns(S) <= Turns(Secondary)
      /\ \A c \in S : Turns(S \ {c}) \in Nat /\ Turns(S) = Turns(S \ {c}) + PollLimit + 2
  BY <1>1, TurnsFacts
<1>3. /\ StepsLeft(p) = LeftAt(pc[p], S, n)
      /\ StepsLeft(p)' = LeftAt(pc'[p], todo'[p], polls'[p])
  BY DEF StepsLeft
<1>4. ASSUME pc'[p] \in Ended, pc[p] \notin Ended PROVE StepsLeft(p)' < StepsLeft(p)
  <2>1. StepsLeft(p)' = 0
    BY <1>3, <1>4, LeftIs DEF Ended
  <2>2. StepsLeft(p) \in Nat /\ StepsLeft(p) > 0
    BY <1>4, LeftIsCounted
  <2> QED BY <2>1, <2>2
<1>5. CASE Begin(p) \/ Supported(p) \/ Plan(p) \/ KexecLoad(p) \/ Unload(p)
  <2>1. UNCHANGED <<todo, polls>>
    BY <1>5 DEF Begin, Supported, Plan, KexecLoad, Unload, local
  <2>2. \/ pc'[p] \in Ended /\ pc[p] \notin Ended
        \/ pc[p] = "idle" /\ pc'[p] \in {"supported", "unload"}
        \/ pc[p] = "supported" /\ pc'[p] = "plan"
        \/ pc[p] = "plan" /\ pc'[p] = "load"
        \/ pc[p] = "load" /\ pc'[p] = "cpus"
    BY <1>1, <1>5 DEF Begin, Supported, Plan, KexecLoad, Unload, Goto, At, Ended
  <2> QED BY <1>2, <1>3, <1>4, <2>1, <2>2, LeftIs
<1>6. CASE ReadCpuList(p)
  <2>1. CASE pc'[p] = "offline" /\ todo'[p] \subseteq Secondary /\ pc[p] = "cpus"
    <3>1. Turns(todo'[p]) \in Nat /\ Turns(todo'[p]) <= Turns(Secondary)
      BY <2>1, TurnsFacts
    <3>2. StepsLeft(p)' = Turns(todo'[p]) + 2 /\ StepsLeft(p) = Turns(Secondary) + 3
      BY <1>3, <2>1, LeftIs
    <3> QED BY <1>2, <3>1, <3>2
  <2>2. CASE pc'[p] = "err" /\ pc[p] = "cpus"
    BY <1>4, <2>2 DEF Ended
  <2>3. todo'[p] \subseteq Secondary
    BY DEF TypeOK
  <2> QED BY <1>1, <1>6, <2>1, <2>2, <2>3 DEF ReadCpuList, Goto, At
<1>7. CASE NextCpu(p)
  <2>1. pc[p] = "offline" /\ StepsLeft(p) = Turns(S) + 2
    BY <1>3, <1>7, LeftIs DEF NextCpu, At
  <2>2. CASE pc'[p] = "reboot"
    BY <1>2, <1>3, <2>1, <2>2, LeftIs
  <2>3. CASE pc'[p] = "err"
    BY <1>4, <2>1, <2>3 DEF Ended
  <2>4. ASSUME NEW c \in S, todo' = [todo EXCEPT ![p] = @ \ {c}], UNCHANGED pc
        PROVE  StepsLeft(p)' < StepsLeft(p)
    <3>1. todo'[p] = S \ {c} /\ pc'[p] = "offline"
      BY <1>1, <2>1, <2>4
    <3>2. StepsLeft(p)' = Turns(S \ {c}) + 2
      BY <1>3, <3>1, LeftIs
    <3>3. Turns(S \ {c}) \in Nat /\ Turns(S) = Turns(S \ {c}) + PollLimit + 2
      BY <1>2
    <3> QED BY <2>1, <3>2, <3>3
  <2>5. CASE pc'[p] = "write" /\ UNCHANGED todo
    BY <1>2, <1>3, <2>1, <2>5, LeftIs
  <2>6. \/ pc'[p] = "reboot" \/ pc'[p] = "err"
        \/ \E c \in S : todo' = [todo EXCEPT ![p] = @ \ {c}] /\ UNCHANGED pc
        \/ pc'[p] = "write" /\ UNCHANGED todo
    BY <1>1, <1>7 DEF NextCpu, Goto
  <2> QED BY <2>2, <2>3, <2>4, <2>5, <2>6
<1>8. CASE WriteOffline(p)
  <2>1. pc[p] = "write" /\ StepsLeft(p) = Turns(S) + 1
    BY <1>3, <1>8, LeftIs DEF WriteOffline, At
  <2>2. pc'[p] = "err" \/ (pc'[p] = "poll" /\ UNCHANGED <<todo, polls>>)
    BY <1>1, <1>8 DEF WriteOffline, Goto, local
  <2>3. CASE pc'[p] = "err"
    BY <1>4, <2>1, <2>3 DEF Ended
  <2>4. CASE pc'[p] = "poll" /\ UNCHANGED <<todo, polls>>
    <3>1. StepsLeft(p)' = Turns(S) - n
      BY <1>3, <2>4, LeftIs
    <3> QED BY <1>1, <1>2, <2>1, <3>1
  <2> QED BY <2>2, <2>3, <2>4
<1>9. CASE Poll(p)
  <2>1. pc[p] = "poll" /\ StepsLeft(p) = Turns(S) - n
    BY <1>3, <1>9, LeftIs DEF Poll, At
  <2>2. target[p] \in S
    BY <2>1 DEF InLoop
  <2>3. \/ pc'[p] = "err"
        \/ pc'[p] = "offline" /\ todo'[p] = S \ {target[p]}
        \/ pc'[p] = "poll" /\ todo'[p] = S /\ polls'[p] = n + 1
    BY <1>1, <1>9, <2>1 DEF Poll, Goto
  <2>4. CASE pc'[p] = "err"
    BY <1>4, <2>1, <2>4 DEF Ended
  <2>5. CASE pc'[p] = "offline" /\ todo'[p] = S \ {target[p]}
    <3>1. StepsLeft(p)' = Turns(S \ {target[p]}) + 2
      BY <1>3, <2>5, LeftIs
    <3>2. /\ Turns(S \ {target[p]}) \in Nat
          /\ Turns(S) = Turns(S \ {target[p]}) + PollLimit + 2
      BY <1>2, <2>2
    <3> QED BY <1>1, <2>1, <3>1, <3>2
  <2>6. CASE pc'[p] = "poll" /\ todo'[p] = S /\ polls'[p] = n + 1
    <3>1. StepsLeft(p)' = Turns(S) - (n + 1)
      BY <1>3, <2>6, LeftIs
    <3> QED BY <1>1, <1>2, <2>1, <3>1
  <2> QED BY <2>3, <2>4, <2>5, <2>6
<1>10. CASE Reboot(p)
  BY <1>1, <1>4, <1>10 DEF Reboot, Goto, At, Ended
<1> QED BY <1>5, <1>6, <1>7, <1>8, <1>9, <1>10 DEF Invocation

\* A step of one invocation is a step of no other.
LEMMA OthersKeepTheirs ==
  ASSUME TypeOK, NEW p \in Proc, Invocation(p), NEW q \in Proc, q # p
  PROVE  pc'[q] = pc[q] /\ todo'[q] = todo[q] /\ polls'[q] = polls[q]
<1> USE DEF TypeOK, Goto
<1>1. CASE Begin(p) \/ Supported(p) \/ Plan(p) \/ KexecLoad(p)
  BY <1>1 DEF Begin, Supported, Plan, KexecLoad, local
<1>2. CASE ReadCpuList(p)
  BY <1>2 DEF ReadCpuList
<1>3. CASE NextCpu(p)
  BY <1>3 DEF NextCpu, local
<1>4. CASE WriteOffline(p) \/ Reboot(p) \/ Unload(p)
  BY <1>4 DEF WriteOffline, Reboot, Unload, local
<1>5. CASE Poll(p)
  BY <1>5 DEF Poll
<1> QED BY <1>1, <1>2, <1>3, <1>4, <1>5 DEF Invocation

\* No step, of whomever, gives an invocation more steps than it had left, and
\* each of its own takes one away: boot() makes at most Turns(Secondary) + 7 of
\* them, however the CPUs answer and whoever interferes.
LEMMA CountedStep ==
  ASSUME TypeOK, TypeOK', InLoop, InLoop', [Next]_vars
  PROVE  StepsCount
<1> SUFFICES ASSUME NEW p \in Proc
             PROVE  /\ StepsLeft(p) \in Nat /\ StepsLeft(p)' <= StepsLeft(p)
                    /\ Invocation(p) => StepsLeft(p)' < StepsLeft(p)
  BY DEF StepsCount
<1>1. StepsLeft(p) \in Nat
  BY LeftIsCounted
<1>2. StepsLeft(p)' \in Nat
  <2>1. /\ pc'[p] \in Steps /\ todo'[p] \subseteq Secondary /\ polls'[p] \in 0 .. PollLimit - 1
        /\ pc'[p] = "poll" => todo'[p] # {}
    BY DEF TypeOK, InLoop
  <2>2. LeftAt(pc'[p], todo'[p], polls'[p]) \in Nat
    BY <2>1, LeftIsNat
  <2> QED BY <2>2 DEF StepsLeft
<1>3. Invocation(p) => StepsLeft(p)' < StepsLeft(p)
  BY StepTaken
<1>4. ASSUME NEW q \in Proc, Invocation(q), q # p PROVE StepsLeft(p)' = StepsLeft(p)
  BY <1>4, OthersKeepTheirs, LeftToOthers
<1>5. ASSUME NEW c \in Secondary, GoesOffline(c) \/ Hotplug(c)
      PROVE  StepsLeft(p)' = StepsLeft(p)
  BY <1>5, LeftToOthers DEF GoesOffline, Hotplug, local
<1>6. ASSUME UNCHANGED vars PROVE StepsLeft(p)' = StepsLeft(p)
  <2>1. UNCHANGED <<pc, todo, polls>>
    BY <1>6 DEF vars, local
  <2> QED BY <2>1, LeftToOthers
<1>7. StepsLeft(p)' < StepsLeft(p) \/ StepsLeft(p)' = StepsLeft(p)
  <2>1. \/ \E q \in Proc : Invocation(q)
        \/ \E c \in Secondary : GoesOffline(c) \/ Hotplug(c)
        \/ UNCHANGED vars
    BY DEF Next, Done
  <2>2. ASSUME NEW q \in Proc, Invocation(q)
        PROVE  StepsLeft(p)' < StepsLeft(p) \/ StepsLeft(p)' = StepsLeft(p)
    BY <1>3, <1>4, <2>2
  <2> QED BY <1>5, <1>6, <2>1, <2>2
<1> QED BY <1>1, <1>2, <1>3, <1>7

\* The bound behind Termination: every invocation has a number of steps left
\* that its own steps decrease and nothing else increases.
THEOREM StepsAreCounted == Spec => EachStepCounts
<1>1. Init => InLoop
  BY DEF Init, InLoop
<1> QED BY <1>1, InLoopStep, CountedStep, HandoffTypes, PTL DEF Spec, EachStepCounts
============================================================================
