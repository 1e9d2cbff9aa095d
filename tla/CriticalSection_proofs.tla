------------------------ MODULE CriticalSection_proofs ------------------------
(***************************************************************************)
(* Proofs about CriticalSection for any set of locks and any depth: IInv   *)
(* is inductive; it gives that no assert fails, that the execution level   *)
(* is right, and that the locks implement SpinLocks.                       *)
(***************************************************************************)
EXTENDS CriticalSection, TLAPS

\* The two assumptions on the constants, under one name.
LEMMA Constants ==
  /\ Target \in [Locks -> 1..2]
  /\ MaxNest \in Nat \ {0} /\ MaxCriticalLevel \in Nat
  /\ 2 * MaxNest <= MaxCriticalLevel
  BY TargetAssumption, NestAssumption

\* What EnterCritical does to the sections of a context.
LEMMA AppendFacts ==
  ASSUME NEW S, NEW s \in Seq(S), NEW e \in S
  PROVE  /\ Append(s, e) \in Seq(S)
         /\ Append(s, e) # <<>>
         /\ Len(Append(s, e)) = Len(s) + 1
         /\ \A i \in 1..Len(s) : Append(s, e)[i] = s[i]
         /\ Append(s, e)[Len(s) + 1] = e
         /\ Last(Append(s, e)) = e
  BY DEF Last

\* A prefix of a sequence.
LEMMA PrefixFacts ==
  ASSUME NEW S, NEW s \in Seq(S), NEW n \in 0..Len(s)
  PROVE  /\ SubSeq(s, 1, n) \in Seq(S)
         /\ Len(SubSeq(s, 1, n)) = n
         /\ \A i \in 1..n : SubSeq(s, 1, n)[i] = s[i]
  OBVIOUS

\* What LeaveCritical does to them.
LEMMA FrontFacts ==
  ASSUME NEW S, NEW s \in Seq(S), s # <<>>
  PROVE  /\ Len(s) \in Nat \ {0}
         /\ Last(s) \in S /\ Last(s) = s[Len(s)]
         /\ Front(s) \in Seq(S)
         /\ Len(Front(s)) = Len(s) - 1
         /\ \A i \in 1..(Len(s) - 1) : Front(s)[i] = s[i]
         /\ (Front(s) = <<>>) <=> (Len(s) = 1)
  <1>1. Len(s) \in Nat \ {0}
    OBVIOUS
  <1>2. Last(s) \in S /\ Last(s) = s[Len(s)]
    BY <1>1 DEF Last
  <1>3. /\ Front(s) \in Seq(S)
        /\ Len(Front(s)) = Len(s) - 1
        /\ \A i \in 1..(Len(s) - 1) : Front(s)[i] = s[i]
    <2>1. Len(s) - 1 \in 0..Len(s)
      BY <1>1
    <2> QED
      BY <2>1, PrefixFacts, Zenon DEF Front
  <1>4. (Front(s) = <<>>) <=> (Len(Front(s)) = 0)
    BY <1>3
  <1> QED
    BY <1>1, <1>2, <1>3, <1>4

\* Levels are execution levels.
LEMMA LevelFacts ==
  ASSUME TypeOK, NEW c \in Contexts
  PROVE  /\ Len(holds[c]) \in Nat
         /\ \A i \in 1..Len(holds[c]) :
                holds[c][i] \in Locks /\ Target[holds[c][i]] \in 1..2
         /\ LevelOf(c) \in 0..2
         /\ \A k \in 1..(Len(holds[c]) + 1) : LevelBefore(c, k) \in 0..2
         /\ LevelOf(c) = LevelBefore(c, Len(holds[c]) + 1)
  <1>1. holds[c] \in Seq(Locks)
    BY DEF TypeOK
  <1>2. /\ Len(holds[c]) \in Nat
        /\ \A i \in 1..Len(holds[c]) :
               holds[c][i] \in Locks /\ Target[holds[c][i]] \in 1..2
    BY <1>1, Constants
  <1>3. \A k \in 1..(Len(holds[c]) + 1) : LevelBefore(c, k) \in 0..2
    BY <1>2 DEF LevelBefore, Contexts
  <1>4. LevelOf(c) = LevelBefore(c, Len(holds[c]) + 1)
    <2>1. CASE holds[c] = <<>>
      BY <2>1 DEF LevelOf, LevelBefore
    <2>2. CASE holds[c] # <<>>
      <3>1. Len(holds[c]) # 0
        BY <1>1, <2>2
      <3> QED
        BY <2>2, <3>1, <1>2 DEF LevelOf, LevelBefore, Last
    <2> QED
      BY <2>1, <2>2
  <1> QED
    BY <1>2, <1>3, <1>4

\* The initial state, with interrupts on and no section entered.
LEMMA InitIInv == Init => IInv
  <1> SUFFICES ASSUME Init PROVE IInv
    OBVIOUS
  <1> USE DEF Init, Contexts
  <1>1. TypeOK
    <2>1. /\ cur \in Contexts /\ mask \in Masks
          /\ under \in [1..2 -> Contexts] /\ spsr \in [1..2 -> Masks]
          /\ nCPSR \in [Contexts -> Masks]
          /\ s_nCPSR \in [0..(MaxCriticalLevel - 1) -> Masks]
      BY DEF Masks
    <2>2. lock \in [Contexts -> Locks]
      OBVIOUS
    <2>3. 0 \in 0..(MaxCriticalLevel - 1) /\ 0 \in 0..MaxCriticalLevel
      BY Constants
    <2>4. holds \in [Contexts -> Seq(Locks)]
      OBVIOUS
    <2> QED
      BY <2>1, <2>2, <2>3, <2>4 DEF TypeOK
  <1> NoAssertFails
    BY DEF NoAssertFails
  <1>2. \A c \in Contexts : holds[c] = <<>> /\ Len(holds[c]) = 0
    OBVIOUS
  <1>3. EntryInv
    BY DEF EntryInv
  <1>4. NestingInv
    BY <1>2, Constants DEF NestingInv, LeavePCs
  <1>5. InterruptedInv
    BY DEF InterruptedInv
  <1>6. MaskInv
    BY <1>2 DEF MaskInv, LevelOf, MaskOf
  <1>7. StackInv
    BY <1>2 DEF StackInv
  <1> QED
    BY <1>1, <1>3, <1>4, <1>5, <1>6, <1>7 DEF IInv

-----------------------------------------------------------------------------
(* EnterCritical.                                                          *)

\* The steps that leave the sections, the level of every context and the
\* interrupted contexts alone keep the levels.
LEMMA SameLevels ==
  ASSUME UNCHANGED holds
  PROVE  /\ \A c : LevelOf(c)' = LevelOf(c)
         /\ \A c, k : LevelBefore(c, k)' = LevelBefore(c, k)
         /\ \A c : Base(c)' = Base(c) /\ Top(c)' = Top(c)
         /\ \A c, l : Holding(c, l)' = Holding(c, l)
  BY DEF LevelOf, LevelBefore, Base, Top, Holding

\* A step of the running context itself leaves entries alone, and interrupted
\* contexts are other contexts.
LEMMA StepKeepsEntries ==
  ASSUME IInv, NEW at, NEW next, Step(at, next), next # "idle", at # "idle",
         next \in {"run"} \cup EnterPCs \cup LeavePCs,
         \A c \in Contexts : c # cur => holds'[c] = holds[c]
  PROVE  /\ pc' \in [Contexts -> {"idle", "run"} \cup EnterPCs \cup LeavePCs]
         /\ pc'[cur] = next
         /\ \A c \in Contexts : c # cur => pc'[c] = pc[c]
         /\ EntryInv'
         /\ InterruptedInv'
  <1> USE DEF IInv, TypeOK, Step, Contexts
  <1>1. /\ pc' \in [Contexts -> {"idle", "run"} \cup EnterPCs \cup LeavePCs]
        /\ pc'[cur] = next
        /\ \A c \in Contexts : c # cur => pc'[c] = pc[c]
    OBVIOUS
  <1>2. EntryInv'
    BY <1>1 DEF EntryInv
  <1>3. \A l \in 1..2 : pc[l] # "idle" => under[l] # cur /\ under[l] \in Contexts
    BY DEF EntryInv
  <1>4. \A c \in Contexts : c # cur => LevelOf(c)' = LevelOf(c)
    BY DEF LevelOf
  <1>5. InterruptedInv'
    <2> SUFFICES ASSUME NEW l \in 1..2, pc'[l] # "idle"
                 PROVE  /\ pc'[under'[l]] \in {"run", "cpsid"}
                        /\ (LevelOf(under[l]) < l)'
                        /\ (spsr[l] = MaskOf(LevelOf(under[l])))'
      BY DEF InterruptedInv
    <2>1. pc[l] # "idle"
      BY <1>1
    <2>2. under'[l] = under[l] /\ spsr'[l] = spsr[l]
      OBVIOUS
    <2>3. LevelOf(under[l])' = LevelOf(under[l])
      BY <1>3, <1>4, <2>1, <2>2 DEF LevelOf
    <2> QED
      BY <1>1, <1>3, <2>1, <2>2, <2>3 DEF InterruptedInv, MaskOf
  <1> QED
    BY <1>1, <1>2, <1>5

\* The sections that have been entered and not left.
Total == Len(holds[0]) + Len(holds[1]) + Len(holds[2])

\* The contexts one by one.
LEMMA ContextsFacts ==
  0 \in Contexts /\ 1 \in Contexts /\ 2 \in Contexts /\ Contexts \subseteq Int
  BY DEF Contexts

\* A change of one of three summands.
LEMMA SumStep ==
  ASSUME NEW x \in 0..2, NEW d \in Int,
         NEW a \in Nat, NEW b \in Nat, NEW c \in Nat
  PROVE  (a + (IF 0 = x THEN d ELSE 0)) + (b + (IF 1 = x THEN d ELSE 0))
           + (c + (IF 2 = x THEN d ELSE 0)) = a + b + c + d
  OBVIOUS

\* A step that enters or leaves one section.
LEMMA TotalStep ==
  ASSUME NEW x \in Contexts, NEW d \in Int,
         Len(holds[0]) \in Nat, Len(holds[1]) \in Nat, Len(holds[2]) \in Nat,
         \A c \in Contexts :
             Len(holds'[c]) = Len(holds[c]) + (IF c = x THEN d ELSE 0)
  PROVE  Total' = Total + d /\ Total \in Nat
  <1>1. /\ Len(holds'[0]) = Len(holds[0]) + (IF 0 = x THEN d ELSE 0)
        /\ Len(holds'[1]) = Len(holds[1]) + (IF 1 = x THEN d ELSE 0)
        /\ Len(holds'[2]) = Len(holds[2]) + (IF 2 = x THEN d ELSE 0)
    BY ContextsFacts, Zenon
  <1>2. x \in 0..2
    BY DEF Contexts
  <1>3. PICK a \in Nat, b \in Nat, c \in Nat :
            a = Len(holds[0]) /\ b = Len(holds[1]) /\ c = Len(holds[2])
    OBVIOUS
  <1>4. Total = a + b + c
    BY <1>3, Zenon DEF Total
  <1>5. Total' = (a + (IF 0 = x THEN d ELSE 0)) + (b + (IF 1 = x THEN d ELSE 0))
                   + (c + (IF 2 = x THEN d ELSE 0))
    BY <1>1, <1>3, Zenon DEF Total
  <1>6. Total' = a + b + c + d
    BY <1>2, <1>5, SumStep
  <1> QED
    BY <1>4, <1>6

\* The running context's sections do not move in the stack when it enters or
\* leaves one.
LEMMA BaseStep ==
  ASSUME NEW x \in Contexts, \A c \in Contexts : c # x => holds'[c] = holds[c]
  PROVE  Base(x)' = Base(x)
  <1>1. ASSUME x = 2 PROVE holds'[0] = holds[0] /\ holds'[1] = holds[1]
    BY <1>1 DEF Contexts
  <1>2. CASE x = 2
    BY <1>1, <1>2 DEF Base
  <1>3. CASE x # 2
    BY <1>3 DEF Base
  <1> QED
    BY <1>2, <1>3

\* One of the contexts below FIQ_LEVEL stays outside of sections.
LEMMA OneSection ==
  ASSUME NEW x \in Contexts, x = 0 => holds[1] = <<>>, x = 1 => holds[0] = <<>>,
         holds[0] = <<>> \/ holds[1] = <<>>,
         \A c \in Contexts : c # x => holds'[c] = holds[c]
  PROVE  holds'[0] = <<>> \/ holds'[1] = <<>>
  BY DEF Contexts

\* Below FIQ_LEVEL only one context has sections, and none lies above it.
LEMMA RunningIsOnTop ==
  ASSUME IInv
  PROVE  /\ cur = 0 => holds[1] = <<>> /\ holds[2] = <<>>
         /\ cur = 1 => holds[0] = <<>> /\ holds[2] = <<>>
         /\ Top(cur) = Len(holds[0]) + Len(holds[1]) + Len(holds[2]) - 1
  <1> USE DEF IInv, Contexts
  <1>1. cur = 0 => holds[1] = <<>> /\ holds[2] = <<>>
    BY DEF EntryInv
  <1>2. ASSUME cur = 1 PROVE holds[0] = <<>> /\ holds[2] = <<>>
    <2>1. LevelOf(0) < 1
      BY <1>2 DEF EntryInv, InterruptedInv
    <2>2. ASSUME holds[0] # <<>> PROVE FALSE
      <3>1. holds[0] \in Seq(Locks)
        BY DEF TypeOK
      <3>2. Target[Last(holds[0])] \in 1..2
        BY <2>2, <3>1, FrontFacts, Constants
      <3> QED
        BY <2>1, <2>2, <3>2 DEF LevelOf
    <2> QED
      BY <1>2, <2>2 DEF EntryInv
  <1>3. Len(holds[0]) \in Nat /\ Len(holds[1]) \in Nat /\ Len(holds[2]) \in Nat
    BY LevelFacts
  <1>4. Len(<<>>) = 0
    OBVIOUS
  <1>5. ASSUME cur = 0 PROVE Top(cur) = Len(holds[0]) + Len(holds[1]) + Len(holds[2]) - 1
    <2>1. Top(cur) = Len(holds[0]) - 1
      BY <1>3, <1>5 DEF Top, Base
    <2>2. Len(holds[1]) = 0 /\ Len(holds[2]) = 0
      BY <1>1, <1>4, <1>5
    <2> QED
      BY <1>3, <2>1, <2>2
  <1>6. ASSUME cur = 1 PROVE Top(cur) = Len(holds[0]) + Len(holds[1]) + Len(holds[2]) - 1
    <2>1. Top(cur) = Len(holds[1]) - 1
      BY <1>3, <1>6 DEF Top, Base
    <2>2. Len(holds[0]) = 0 /\ Len(holds[2]) = 0
      BY <1>2, <1>4, <1>6
    <2> QED
      BY <1>3, <2>1, <2>2
  <1>7. ASSUME cur = 2 PROVE Top(cur) = Len(holds[0]) + Len(holds[1]) + Len(holds[2]) - 1
    BY <1>3, <1>7 DEF Top, Base
  <1> QED
    BY <1>1, <1>2, <1>5, <1>6, <1>7 DEF TypeOK

\* Three counts of which one of the first two is zero.
LEMMA SumBound ==
  ASSUME NEW a \in Nat, NEW b \in Nat, NEW c \in Nat, NEW m \in Nat,
         NEW M \in Nat, a <= m, b <= m, c <= m, a = 0 \/ b = 0, 2 * m <= M
  PROVE  a + b + c <= M
  OBVIOUS

\* The stack never holds more masks than its size.
LEMMA StackBound ==
  ASSUME IInv
  PROVE  Len(holds[0]) + Len(holds[1]) + Len(holds[2]) <= MaxCriticalLevel
  <1>1. \A c \in Contexts : Len(holds[c]) \in Nat /\ Len(holds[c]) <= MaxNest
    BY LevelFacts DEF IInv, NestingInv
  <1>2. /\ Len(holds[0]) \in Nat /\ Len(holds[0]) <= MaxNest
        /\ Len(holds[1]) \in Nat /\ Len(holds[1]) <= MaxNest
        /\ Len(holds[2]) \in Nat /\ Len(holds[2]) <= MaxNest
    BY <1>1 DEF Contexts
  <1>3. Len(holds[0]) = 0 \/ Len(holds[1]) = 0
    BY DEF IInv, StackInv
  <1> QED
    BY <1>2, <1>3, Constants, SumBound

\* The arithmetic of TopIsAbove: an FIQ handler's sections lie above.
LEMMA AboveBelow ==
  ASSUME NEW a \in Nat, NEW b \in Nat, NEW n \in Nat, n # 0, NEW k \in Nat
  PROVE  /\ k <= a => 0 + k - 1 < a + b + n - 1
         /\ k <= b => 0 + k - 1 < a + b + n - 1
         /\ k <= n /\ k # n => a + b + k - 1 < a + b + n - 1
         /\ k <= n /\ k # n => 0 + k - 1 < 0 + n - 1
  OBVIOUS

\* The running context's innermost section is the topmost of all.
LEMMA TopIsAbove ==
  ASSUME IInv, NEW c \in Contexts, NEW k \in 1..Len(holds[c]),
         ~(c = cur /\ k = Len(holds[cur])), holds[cur] # <<>>
  PROVE  Base(c) + k - 1 < Top(cur)
  <1>1. /\ Len(holds[0]) \in Nat /\ Len(holds[1]) \in Nat /\ Len(holds[2]) \in Nat
        /\ Len(<<>>) = 0
    BY LevelFacts, ContextsFacts DEF IInv
  <1>2. cur \in {0, 1, 2} /\ c \in {0, 1, 2} /\ cur \in Contexts
    BY DEF IInv, TypeOK, Contexts
  <1>3. Len(holds[cur]) # 0
    <2>1. holds[cur] \in Seq(Locks)
      BY <1>2 DEF IInv, TypeOK
    <2> QED
      BY <2>1
  <1>4. PICK a \in Nat, b \in Nat, d \in Nat :
            a = Len(holds[0]) /\ b = Len(holds[1]) /\ d = Len(holds[2])
    BY <1>1
  <1>5. k \in Nat /\ k <= Len(holds[c])
    <2>1. Len(holds[c]) \in Nat
      BY <1>1, <1>2
    <2> QED
      BY <2>1
  <1>6. CASE cur = 2
    <2>1. Top(cur) = a + b + d - 1 /\ d # 0
      <3>1. Top(cur) = a + b + d - 1
        BY <1>4, <1>6, Zenon DEF Top, Base
      <3> QED
        BY <1>3, <1>4, <1>6, <3>1
    <2>2. CASE c = 0
      <3>1. Base(c) = 0 /\ k <= a
        BY <1>4, <1>5, <2>2 DEF Base
      <3> QED
        BY <1>5, <2>1, <3>1, AboveBelow
    <2>3. CASE c = 1
      <3>1. Base(c) = 0 /\ k <= b
        BY <1>4, <1>5, <2>3 DEF Base
      <3> QED
        BY <1>5, <2>1, <3>1, AboveBelow
    <2>4. CASE c = 2
      <3>1. Base(c) = a + b
        BY <1>4, <2>4, Zenon DEF Base
      <3>2. k <= d /\ k # d
        BY <1>4, <1>5, <1>6, <2>4
      <3> QED
        BY <1>5, <2>1, <3>1, <3>2, AboveBelow
    <2> QED
      BY <1>2, <2>2, <2>3, <2>4
  <1>7. CASE cur # 2
    <2>1. c = cur
      BY <1>1, <1>2, <1>5, <1>7, RunningIsOnTop
    <2>2. PICK n \in Nat : n = Len(holds[cur])
      BY <1>1, <1>2
    <2>3. Base(c) = 0 /\ Top(cur) = 0 + n - 1
      BY <1>7, <2>1, <2>2 DEF Top, Base
    <2>4. k <= n /\ k # n /\ n # 0
      BY <1>3, <1>5, <2>1, <2>2
    <2> QED
      BY <1>5, <2>3, <2>4, AboveBelow
  <1> QED
    BY <1>6, <1>7

\* The steps at which a section is entered and its mask not in the stack.
Out == {"reserve", "load", "restore"}

\* The mask of the k-th section of a context is where it was stored.
Saved(c, k) ==
    \/ pc[c] \in {"reserve", "store", "restore"} /\ k = Len(holds[c])
    \/ s_nCPSR[Base(c) + k - 1] = MaskOf(LevelBefore(c, k))

\* What StackInv says, in these terms.
LEMMA StackFacts ==
  ASSUME IInv
  PROVE  /\ holds[0] = <<>> \/ holds[1] = <<>>
         /\ Total \in Nat /\ Total <= MaxCriticalLevel
         /\ Top(cur) = Total - 1
         /\ pc[cur] \in Out => s_nCriticalLevel = Total - 1
         /\ pc[cur] \notin Out => s_nCriticalLevel = Total
         /\ pc[cur] \in {"store", "load"} => slot[cur] = Top(cur)
         /\ \A c \in Contexts : \A k \in 1..Len(holds[c]) : Saved(c, k)
  <1>1. StackInv
    BY DEF IInv
  <1>2. Len(holds[0]) \in Nat /\ Len(holds[1]) \in Nat /\ Len(holds[2]) \in Nat
    BY LevelFacts, ContextsFacts DEF IInv
  <1>10. PICK a \in Nat, b \in Nat, d \in Nat :
            a = Len(holds[0]) /\ b = Len(holds[1]) /\ d = Len(holds[2])
    BY <1>2
  <1>11. Total = a + b + d
    BY <1>10, Zenon DEF Total
  <1>3. Total \in Nat
    BY <1>11
  <1>12. Len(holds[0]) + Len(holds[1]) + Len(holds[2]) <= MaxCriticalLevel
    BY StackBound
  <1>4. Total <= MaxCriticalLevel
    BY <1>10, <1>11, <1>12
  <1>13. Top(cur) = Len(holds[0]) + Len(holds[1]) + Len(holds[2]) - 1
    BY RunningIsOnTop
  <1>5. Top(cur) = Total - 1
    BY <1>10, <1>11, <1>13
  <1>6. s_nCriticalLevel = Total - (IF pc[cur] \in Out THEN 1 ELSE 0)
    <2>1. s_nCriticalLevel = Len(holds[0]) + Len(holds[1]) + Len(holds[2])
              - (IF pc[cur] \in {"reserve", "load", "restore"} THEN 1 ELSE 0)
      BY <1>1 DEF StackInv
    <2> QED
      BY <1>10, <1>11, <2>1 DEF Out
  <1>7. \A c \in Contexts : \A k \in 1..Len(holds[c]) : Saved(c, k)
    BY <1>1, Zenon DEF StackInv, Saved
  <1>8. /\ holds[0] = <<>> \/ holds[1] = <<>>
        /\ pc[cur] \in {"store", "load"} => slot[cur] = Top(cur)
    BY <1>1, Zenon DEF StackInv
  <1>9. /\ pc[cur] \in Out => s_nCriticalLevel = Total - 1
        /\ pc[cur] \notin Out => s_nCriticalLevel = Total
    BY <1>3, <1>6
  <1> QED
    BY <1>3, <1>4, <1>5, <1>7, <1>8, <1>9

\* And how a step establishes it.
LEMMA StackInvAfter ==
  ASSUME holds'[0] = <<>> \/ holds'[1] = <<>>,
         Total' \in Nat,
         pc'[cur'] \in Out => s_nCriticalLevel' = Total' - 1,
         pc'[cur'] \notin Out => s_nCriticalLevel' = Total',
         pc'[cur'] \in {"store", "load"} => slot'[cur'] = Top(cur)',
         \A c \in Contexts : \A k \in 1..Len(holds'[c]) : Saved(c, k)'
  PROVE  StackInv'
  <1>1. s_nCriticalLevel' = Total' - (IF pc'[cur'] \in Out THEN 1 ELSE 0)
    OBVIOUS
  <1>2. s_nCriticalLevel' = Len(holds'[0]) + Len(holds'[1]) + Len(holds'[2])
            - (IF pc'[cur'] \in {"reserve", "load", "restore"} THEN 1 ELSE 0)
    <2> DEFINE out == IF pc'[cur'] \in Out THEN 1 ELSE 0
    <2>1. out = (IF pc'[cur'] \in {"reserve", "load", "restore"} THEN 1 ELSE 0)
      BY Zenon DEF Out
    <2>2. Total' = Len(holds'[0]) + Len(holds'[1]) + Len(holds'[2])
      BY Zenon DEF Total
    <2>3. s_nCriticalLevel' = Total' - out
      BY <1>1
    <2> HIDE DEF out
    <2> QED
      BY <2>1, <2>2, <2>3
  <1>3. \A c \in Contexts : \A k \in 1..Len(holds'[c]) :
           \/ pc'[c] \in {"reserve", "store", "restore"} /\ k = Len(holds'[c])
           \/ (s_nCPSR[Base(c) + k - 1] = MaskOf(LevelBefore(c, k)))'
    BY Zenon DEF Saved
  <1> QED
    BY <1>2, <1>3, Zenon DEF StackInv

\* A step that leaves the sections where they are leaves the masks of all but
\* the running context's innermost one where they are.
LEMMA SavedStays ==
  ASSUME IInv, UNCHANGED holds, UNCHANGED s_nCPSR,
         \A c \in Contexts : c # cur => pc'[c] = pc[c],
         NEW c \in Contexts, NEW k \in 1..Len(holds[c]),
         c = cur /\ k = Len(holds[cur]) =>
             \/ pc'[cur] \in {"reserve", "store", "restore"}
             \/ pc[cur] \notin {"reserve", "store", "restore"}
  PROVE  Saved(c, k)'
  <1>1. Saved(c, k)
    BY StackFacts
  <1>2. Base(c)' = Base(c) /\ LevelBefore(c, k)' = LevelBefore(c, k)
    BY SameLevels
  <1>3. MaskOf(LevelBefore(c, k))' = MaskOf(LevelBefore(c, k))
    BY <1>2, Zenon DEF MaskOf
  <1>4. CASE s_nCPSR[Base(c) + k - 1] = MaskOf(LevelBefore(c, k))
    BY <1>2, <1>3, <1>4, Zenon DEF Saved
  <1>5. CASE /\ pc[c] \in {"reserve", "store", "restore"}
             /\ k = Len(holds[c])
    BY <1>1, <1>2, <1>3, <1>5 DEF Saved
  <1> QED
    BY <1>1, <1>4, <1>5 DEF Saved

\* The assert on the mask holds since FIQs are only off on FIQ_LEVEL.
LEMMA EnterCriticalStep ==
  ASSUME IInv, NEW l \in Locks, EnterCritical(l)
  PROVE  IInv'
  <1> USE DEF IInv, Contexts
  <1>1. Step("run", "cpsid") /\ UNCHANGED holds
    BY DEF EnterCritical
  <1>2. /\ pc' \in [Contexts -> {"idle", "run"} \cup EnterPCs \cup LeavePCs]
        /\ pc'[cur] = "cpsid"
        /\ \A c \in Contexts : c # cur => pc'[c] = pc[c]
        /\ EntryInv' /\ InterruptedInv'
    BY <1>1, StepKeepsEntries DEF EnterPCs
  <1>3. /\ \A c : LevelOf(c)' = LevelOf(c)
        /\ \A c, k : LevelBefore(c, k)' = LevelBefore(c, k)
        /\ \A c : Base(c)' = Base(c) /\ Top(c)' = Top(c)
        /\ \A c, k : Holding(c, k)' = Holding(c, k)
    BY <1>1, SameLevels
  <1>4. cur' = cur /\ cur \in Contexts /\ pc[cur] = "run" /\ mask' = mask
    BY <1>1 DEF EnterCritical, Step, TypeOK
  <1>5. TypeOK'
    BY <1>2 DEF TypeOK, EnterCritical, Step, stackVars, Assert
  <1>6. mask = MaskOf(LevelOf(cur)) /\ LevelOf(cur) \in 0..2
    BY <1>4, LevelFacts DEF MaskInv
  <1>7. NoAssertFails'
    <2>1. LevelOf(cur) <= Target[l] /\ Target[l] \in 1..2
      BY Constants DEF EnterCritical
    <2>2. Target[l] = 2 \/ "F" \notin mask
      BY <1>6, <2>1 DEF MaskOf
    <2> QED
      BY <2>2 DEF EnterCritical, Assert, NoAssertFails
  <1>8. NestingInv'
    <2> SUFFICES ASSUME NEW c \in Contexts
                 PROVE  /\ pc'[c] = "cpsid" =>
                               /\ c <= Target[lock'[c]]
                               /\ LevelOf(c) <= Target[lock'[c]]
                               /\ ~Holding(c, lock'[c])
                               /\ Len(holds[c]) < MaxNest
                        /\ pc'[c] # "cpsid" => pc'[c] = pc[c] /\ lock'[c] = lock[c]
      BY <1>1, <1>3, SMTT(60) DEF NestingInv, LeavePCs
    <2>1. CASE c = cur
      BY <1>2, <2>1 DEF EnterCritical, Holding, TypeOK
    <2>2. CASE c # cur
      BY <1>2, <2>2 DEF EnterCritical, NestingInv, TypeOK
    <2> QED
      BY <2>1, <2>2
  <1>9. MaskInv'
    <2>1. \A c \in Contexts : pc'[c] = "cpsid" => nCPSR'[c] = MaskOf(LevelOf(c))
      BY <1>2, <1>6 DEF EnterCritical, MaskInv, TypeOK
    <2> QED
      BY <1>2, <1>3, <1>4, <1>6, <2>1 DEF MaskInv, MaskOf
  <1>10. StackInv'
    BY <1>1, <1>2, <1>3, <1>4, ZenonT(60) DEF StackInv, EnterCritical, stackVars, MaskOf
  <1> QED
    BY <1>2, <1>5, <1>7, <1>8, <1>9, <1>10

\* The section begins: both interrupts are off, and so is whoever lies below.
LEMMA DisableBothStep == IInv /\ DisableBoth => IInv'
  <1> SUFFICES ASSUME IInv, DisableBoth PROVE IInv'
    OBVIOUS
  <1> USE DEF IInv, Contexts
  <1>1. Step("cpsid", "reserve") /\ cur' = cur /\ cur \in Contexts /\ pc[cur] = "cpsid"
    BY DEF DisableBoth, Step, TypeOK
  <1>2. /\ holds' \in [Contexts -> Seq(Locks)]
        /\ \A c \in Contexts : c # cur => holds'[c] = holds[c]
        /\ holds'[cur] = Append(holds[cur], lock[cur])
        /\ holds[cur] \in Seq(Locks) /\ lock[cur] \in Locks
    BY <1>1, AppendFacts DEF DisableBoth, TypeOK
  <1>3. /\ pc' \in [Contexts -> {"idle", "run"} \cup EnterPCs \cup LeavePCs]
        /\ pc'[cur] = "reserve"
        /\ \A c \in Contexts : c # cur => pc'[c] = pc[c]
        /\ EntryInv' /\ InterruptedInv'
    BY <1>1, <1>2, StepKeepsEntries DEF EnterPCs
  <1>4. TypeOK' /\ NoAssertFails'
    BY <1>2, <1>3 DEF TypeOK, DisableBoth, DisabledInEnter, Both, Masks, Step, stackVars, NoAssertFails
  <1> DEFINE n == Len(holds[cur])
  <1>5. /\ Len(holds'[cur]) = n + 1 /\ holds'[cur] # <<>>
        /\ \A i \in 1..n : holds'[cur][i] = holds[cur][i]
        /\ holds'[cur][n + 1] = lock[cur]
        /\ Last(holds'[cur]) = lock[cur]
        /\ n \in Nat
    BY <1>2, AppendFacts, SMTT(60)
  <1>6. \A k \in 1..(n + 1) : LevelBefore(cur, k)' = LevelBefore(cur, k)
    BY <1>1, <1>5, SMTT(60) DEF LevelBefore
  <1>7. /\ cur <= Target[lock[cur]] /\ LevelOf(cur) <= Target[lock[cur]]
        /\ \A i \in 1..n : holds[cur][i] # lock[cur]
        /\ n < MaxNest
    BY <1>1 DEF NestingInv, Holding
  <1>12. \A i, j \in 1..n :
            i < j => /\ Target[holds[cur][i]] <= Target[holds[cur][j]]
                     /\ holds[cur][i] # holds[cur][j]
    BY <1>1 DEF NestingInv
  <1>8. \A i \in 1..n : Target[holds[cur][i]] <= Target[lock[cur]]
    <2>1. CASE n = 0
      BY <2>1
    <2>2. CASE n # 0
      <3>1. LevelOf(cur) = Target[holds[cur][n]]
        BY <1>2, <1>5, <2>2 DEF LevelOf, Last
      <3>3. /\ \A i \in 1..n : Target[holds[cur][i]] \in 1..2
            /\ Target[lock[cur]] \in 1..2
        BY <1>1, <1>2, LevelFacts, Constants
      <3>4. n \in 1..n /\ \A i \in 1..n : i < n \/ i = n
        BY <1>5, <2>2
      <3>2. \A i \in 1..n : Target[holds[cur][i]] <= Target[holds[cur][n]]
        BY <1>12, <3>3, <3>4
      <3> QED
        <4> SUFFICES ASSUME NEW i \in 1..n
                     PROVE  Target[holds[cur][i]] <= Target[lock[cur]]
          OBVIOUS
        <4>1. Target[holds[cur][i]] <= LevelOf(cur)
          BY <3>1, <3>2
        <4>2. LevelOf(cur) <= Target[lock[cur]]
          BY <1>7
        <4>3. /\ Target[holds[cur][i]] \in Int /\ LevelOf(cur) \in Int
              /\ Target[lock[cur]] \in Int
          BY <1>1, <3>3, LevelFacts, SMTT(60)
        <4> QED
          BY <4>1, <4>2, <4>3
    <2> QED
      BY <2>1, <2>2
  <1>9. NestingInv'
    <2> SUFFICES ASSUME NEW c \in Contexts PROVE
          (/\ Len(holds[c]) <= MaxNest
           /\ \A i \in 1..Len(holds[c]) : c <= Target[holds[c][i]]
           /\ \A i, j \in 1..Len(holds[c]) :
                 i < j => /\ Target[holds[c][i]] <= Target[holds[c][j]]
                          /\ holds[c][i] # holds[c][j]
           /\ pc[c] = "cpsid" => /\ c <= Target[lock[c]]
                                 /\ LevelOf(c) <= Target[lock[c]]
                                 /\ ~Holding(c, lock[c])
                                 /\ Len(holds[c]) < MaxNest
           /\ pc[c] \in {"reserve", "store", "cpsie"} =>
                 holds[c] # <<>> /\ Last(holds[c]) = lock[c]
           /\ pc[c] \in LeavePCs => holds[c] # <<>>
           /\ pc[c] = "cpsie" => Target[lock[c]] = 1)'
      BY DEF NestingInv
    <2>1. CASE c # cur
      <3>1. holds'[c] = holds[c] /\ pc'[c] = pc[c] /\ lock' = lock
        BY <1>2, <1>3, <2>1 DEF DisableBoth
      <3> QED
        BY <3>1, SMTT(60) DEF NestingInv, LevelOf, Holding
    <2>2. CASE c = cur
      <3>1. lock' = lock /\ pc'[c] = "reserve"
        BY <1>3, <2>2 DEF DisableBoth
      <3>2. Len(holds'[c]) <= MaxNest
        BY <1>5, <1>7, <2>2, Constants
      <3>3. \A i \in 1..(n + 1) : c <= Target[holds'[cur][i]]
        BY <1>5, <1>7, <2>2, SMTT(60) DEF NestingInv
      <3>4. \A i, j \in 1..(n + 1) :
               i < j => /\ Target[holds'[cur][i]] <= Target[holds'[cur][j]]
                        /\ holds'[cur][i] # holds'[cur][j]
        <4> SUFFICES ASSUME NEW i \in 1..(n + 1), NEW j \in 1..(n + 1), i < j
                     PROVE  /\ Target[holds'[cur][i]] <= Target[holds'[cur][j]]
                            /\ holds'[cur][i] # holds'[cur][j]
          OBVIOUS
        <4>1. i \in 1..n
          BY <1>5
        <4>2. CASE j = n + 1
          BY <1>5, <1>7, <1>8, <4>1, <4>2
        <4>3. CASE j # n + 1
          <5>1. j \in 1..n
            BY <1>5, <4>3
          <5> QED
            BY <1>5, <1>12, <4>1, <5>1
        <4> QED
          BY <4>2, <4>3
      <3> QED
        BY <1>5, <2>2, <3>1, <3>2, <3>3, <3>4 DEF LeavePCs
    <2> QED
      BY <2>1, <2>2
  <1>10. MaskInv'
    <2>1. mask' = Both
      BY DEF DisableBoth, DisabledInEnter
    <2>2. nCPSR[cur] = MaskOf(LevelBefore(cur, n + 1))
      BY <1>1, LevelFacts DEF MaskInv
    <2>3. MaskOf(LevelBefore(cur, Len(holds[cur])))' = MaskOf(LevelBefore(cur, n + 1))
      BY <1>1, <1>5, <1>6 DEF MaskOf
    <2>4. \A c \in Contexts : c # cur => LevelOf(c)' = LevelOf(c)
      BY <1>2 DEF LevelOf
    <2>5. nCPSR' = nCPSR
      BY DEF DisableBoth
    <2> QED
      BY <1>1, <1>3, <2>1, <2>2, <2>3, <2>4, <2>5 DEF MaskInv, MaskOf
  <1>11. StackInv'
    <2>1. UNCHANGED <<stackVars, slot>>
      BY DEF DisableBoth
    <2>2. /\ Len(holds[0]) \in Nat /\ Len(holds[1]) \in Nat /\ Len(holds[2]) \in Nat
          /\ Len(<<>>) = 0
      BY LevelFacts
    <2>3. holds'[0] = <<>> \/ holds'[1] = <<>>
      <3>1. \A c \in Contexts : c # cur => holds'[c] = holds[c]
        BY <1>2
      <3>2. holds[0] = <<>> \/ holds[1] = <<>>
        BY DEF StackInv
      <3> QED
        BY <1>1, <3>1, <3>2, RunningIsOnTop, OneSection, Zenon
    <2>4. Total' = Total + 1 /\ Total \in Nat
      <3>1. \A c \in Contexts : Len(holds'[c]) = Len(holds[c]) + (IF c = cur THEN 1 ELSE 0)
        <4> SUFFICES ASSUME NEW c \in Contexts
                     PROVE  Len(holds'[c]) = Len(holds[c]) + (IF c = cur THEN 1 ELSE 0)
          OBVIOUS
        <4>1. CASE c = cur
          BY <1>5, <4>1
        <4>2. CASE c # cur
          <5>1. holds'[c] = holds[c] /\ Len(holds[c]) \in Nat
            BY <1>2, <4>2, LevelFacts
          <5> QED
            BY <4>2, <5>1
        <4> QED
          BY <4>1, <4>2
      <3> QED
        BY <1>1, <2>2, <3>1, TotalStep, 1 \in Int
    <2>5. s_nCriticalLevel' = Total' - 1
      <3>1. s_nCriticalLevel = Total - 0
        BY <1>1 DEF StackInv, Total
      <3> QED
        BY <2>1, <2>4, <3>1 DEF stackVars
    <2>6. ASSUME NEW c \in Contexts, NEW k \in 1..Len(holds'[c])
          PROVE  \/ pc'[c] \in {"reserve", "store", "restore"} /\ k = Len(holds'[c])
                 \/ (s_nCPSR[Base(c) + k - 1] = MaskOf(LevelBefore(c, k)))'
      <3>1. CASE c = cur /\ k = n + 1
        BY <1>3, <1>5, <3>1
      <3>2. CASE c = cur /\ k # n + 1
        <4>1. k \in 1..n
          BY <1>5, <3>2
        <4>2. Base(c)' = Base(c)
          BY <1>1, <1>2, <3>2, BaseStep
        <4>3. s_nCPSR[Base(c) + k - 1] = MaskOf(LevelBefore(c, k))
          BY <1>1, <3>2, <4>1 DEF StackInv
        <4>4. LevelBefore(c, k)' = LevelBefore(c, k) /\ s_nCPSR' = s_nCPSR
          <5>1. k \in 1..(n + 1)
            BY <1>5, <4>1
          <5> QED
            BY <1>1, <1>6, <2>1, <3>2, <5>1 DEF stackVars, LevelBefore
        <4> QED
          BY <4>2, <4>3, <4>4 DEF MaskOf
      <3>3. CASE c # cur
        <4>1. holds'[c] = holds[c] /\ pc'[c] = pc[c]
          BY <1>2, <1>3, <3>3
        <4>2. c # 2
          BY <1>1, <2>2, <3>3, <4>1, RunningIsOnTop
        <4>3. Base(c)' = Base(c) /\ LevelBefore(c, k)' = LevelBefore(c, k)
          BY <4>1, <4>2 DEF Base, LevelBefore
        <4> QED
          BY <2>1, <4>1, <4>3 DEF StackInv, stackVars, MaskOf
      <3> QED
        BY <3>1, <3>2, <3>3
    <2> QED
      BY <1>1, <1>3, <2>3, <2>5, <2>6 DEF StackInv, Total
  <1> QED
    BY <1>3, <1>4, <1>9, <1>10, <1>11

\* A step inside EnterCritical or LeaveCritical that only touches locals and
\* the stack: what it keeps of the nesting.
LEMMA SameSections ==
  ASSUME IInv, NEW at, NEW next, Step(at, next), next # "cpsid",
         UNCHANGED <<holds, lock>>,
         next \in {"store", "cpsie"} \cup LeavePCs => holds[cur] # <<>>,
         next \in {"store", "cpsie"} => Last(holds[cur]) = lock[cur],
         next = "cpsie" => Target[lock[cur]] = 1,
         next # "reserve",
         \A c \in Contexts : c # cur => pc'[c] = pc[c],
         pc'[cur] = next
  PROVE  NestingInv'
  <1> SUFFICES ASSUME NEW c \in Contexts
               PROVE  /\ pc'[c] = "cpsid" => pc[c] = "cpsid"
                      /\ pc'[c] \in {"reserve", "store", "cpsie"} =>
                             holds[c] # <<>> /\ Last(holds[c]) = lock[c]
                      /\ pc'[c] \in LeavePCs => holds[c] # <<>>
                      /\ pc'[c] = "cpsie" => Target[lock[c]] = 1
    <2>1. /\ \A c : LevelOf(c)' = LevelOf(c)
          /\ \A c, k : Holding(c, k)' = Holding(c, k)
      BY SameLevels
    <2> QED
      BY <2>1 DEF IInv, NestingInv
  <1>1. CASE c = cur
    BY <1>1
  <1>2. CASE c # cur
    BY <1>2 DEF IInv, NestingInv
  <1> QED
    BY <1>1, <1>2

\* There is room for the mask: see StackBound.
LEMMA ReserveSlotStep == IInv /\ ReserveSlot => IInv'
  <1> SUFFICES ASSUME IInv, ReserveSlot PROVE IInv'
    OBVIOUS
  <1> USE DEF IInv
  <1>1. /\ Step("reserve", "store") /\ cur' = cur /\ cur \in Contexts
        /\ pc[cur] = "reserve" /\ UNCHANGED <<mask, lock, nCPSR, holds, s_nCPSR>>
    BY DEF ReserveSlot, Step, TypeOK
  <1>2. /\ pc' \in [Contexts -> {"idle", "run"} \cup EnterPCs \cup LeavePCs]
        /\ pc'[cur] = "store"
        /\ \A c \in Contexts : c # cur => pc'[c] = pc[c]
        /\ EntryInv' /\ InterruptedInv'
    BY <1>1, StepKeepsEntries DEF EnterPCs
  <1>3. /\ \A c : LevelOf(c)' = LevelOf(c)
        /\ \A c, k : LevelBefore(c, k)' = LevelBefore(c, k)
        /\ \A c : Base(c)' = Base(c) /\ Top(c)' = Top(c)
    BY <1>1, SameLevels
  <1>4. /\ s_nCriticalLevel = Total - 1 /\ Total <= MaxCriticalLevel
        /\ Top(cur) = Total - 1 /\ Total \in Nat
        /\ holds[0] = <<>> \/ holds[1] = <<>>
    BY <1>1, StackFacts DEF Out
  <1>5. /\ s_nCriticalLevel < MaxCriticalLevel
        /\ s_nCriticalLevel \in 0..(MaxCriticalLevel - 1)
        /\ s_nCriticalLevel + 1 \in 0..MaxCriticalLevel
        /\ s_nCriticalLevel + 1 = Total
    BY <1>4, Constants DEF TypeOK
  <1>6. /\ halted' = FALSE /\ s_nCriticalLevel' = Total
        /\ slot' = [slot EXCEPT ![cur] = s_nCriticalLevel]
    BY <1>5 DEF ReserveSlot, Assert
  <1>7. TypeOK' /\ NoAssertFails'
    <2>1. slot' \in [Contexts -> 0..(MaxCriticalLevel - 1)]
      BY <1>5, <1>6 DEF TypeOK
    <2>2. s_nCriticalLevel' \in 0..MaxCriticalLevel /\ halted' \in BOOLEAN
      BY <1>5, <1>6
    <2> QED
      BY <1>1, <1>2, <1>6, <2>1, <2>2 DEF TypeOK, Step, NoAssertFails
  <1>8. NestingInv'
    <2>1. holds[cur] # <<>> /\ Last(holds[cur]) = lock[cur]
      BY <1>1 DEF NestingInv
    <2> QED
      BY <1>1, <1>2, <2>1, SameSections DEF LeavePCs
  <1>9. MaskInv'
    BY <1>1, <1>2, <1>3 DEF MaskInv, MaskOf
  <1>10. StackInv'
    <2>1. Total' = Total
      BY <1>1, Zenon DEF Total
    <2>2. slot'[cur] = Top(cur)
      BY <1>1, <1>4, <1>5, <1>6 DEF TypeOK
    <2>3. \A c \in Contexts : \A k \in 1..Len(holds'[c]) : Saved(c, k)'
      BY <1>1, <1>2, SavedStays
    <2>4. pc'[cur'] = "store" /\ Top(cur)' = Top(cur) /\ slot'[cur'] = slot'[cur]
      BY <1>1, <1>2, <1>3
    <2>5. pc'[cur'] \notin Out
      BY <2>4 DEF Out
    <2>6. holds'[0] = <<>> \/ holds'[1] = <<>>
      BY <1>1, <1>4
    <2>7. s_nCriticalLevel' = Total' /\ Total' \in Nat /\ slot'[cur'] = Top(cur)'
      BY <1>4, <1>6, <2>1, <2>2, <2>4
    <2> QED
      BY <2>3, <2>5, <2>6, <2>7, StackInvAfter
  <1> QED
    BY <1>2, <1>7, <1>8, <1>9, <1>10

\* The mask is stored on top of everybody else's.
LEMMA StoreCPSRStep == IInv /\ StoreCPSR => IInv'
  <1> SUFFICES ASSUME IInv, StoreCPSR PROVE IInv'
    OBVIOUS
  <1> USE DEF IInv
  <1> DEFINE next == IF Target[lock[cur]] = 1 THEN "cpsie" ELSE "run"
  <1>1. /\ Step("store", next) /\ cur' = cur /\ cur \in Contexts
        /\ pc[cur] = "store"
        /\ UNCHANGED <<mask, lock, nCPSR, slot, holds, s_nCriticalLevel, halted>>
        /\ s_nCPSR' = [s_nCPSR EXCEPT ![slot[cur]] = nCPSR[cur]]
    BY DEF StoreCPSR, Step, TypeOK, sectionVars
  <1>2. next \in {"cpsie", "run"}
    OBVIOUS
  <1>3. /\ pc' \in [Contexts -> {"idle", "run"} \cup EnterPCs \cup LeavePCs]
        /\ pc'[cur] = next
        /\ \A c \in Contexts : c # cur => pc'[c] = pc[c]
        /\ EntryInv' /\ InterruptedInv'
    <2> HIDE DEF next
    <2> QED
      BY <1>1, <1>2, StepKeepsEntries DEF EnterPCs
  <1>4. /\ \A c : LevelOf(c)' = LevelOf(c)
        /\ \A c, k : LevelBefore(c, k)' = LevelBefore(c, k)
        /\ \A c : Base(c)' = Base(c) /\ Top(c)' = Top(c)
    BY <1>1, SameLevels
  <1>5. holds[cur] # <<>> /\ Last(holds[cur]) = lock[cur]
    BY <1>1 DEF NestingInv
  <1>6. TypeOK' /\ NoAssertFails'
    BY <1>1, <1>3 DEF TypeOK, NoAssertFails, Step
  <1>7. NestingInv'
    BY <1>1, <1>2, <1>3, <1>5, SameSections DEF LeavePCs
  <1>8. MaskInv'
    <2>1. mask = Both
      BY <1>1 DEF MaskInv
    <2>2. ASSUME next = "run" PROVE LevelOf(cur) = 2
      BY <1>1, <1>5, <2>2, Constants DEF LevelOf, TypeOK
    <2> QED
      BY <1>1, <1>2, <1>3, <1>4, <2>1, <2>2 DEF MaskInv, MaskOf
  <1>9. StackInv'
    <2>1. /\ slot[cur] = Top(cur)
          /\ nCPSR[cur] = MaskOf(LevelBefore(cur, Len(holds[cur])))
      BY <1>1, StackFacts DEF MaskInv
    <2>2. ASSUME NEW c \in Contexts, NEW k \in 1..Len(holds'[c])
          PROVE  Saved(c, k)'
      <3>0. k \in 1..Len(holds[c]) /\ k \in Nat /\ holds' = holds
        <4>1. Len(holds[c]) \in Nat
          BY LevelFacts
        <4> QED
          BY <1>1, <4>1
      <3>1. MaskOf(LevelBefore(c, k))' = MaskOf(LevelBefore(c, k)) /\ Base(c)' = Base(c)
        BY <1>4, Zenon DEF MaskOf
      <3>2. CASE c = cur /\ k = Len(holds[cur])
        <4>1. Base(c) + k - 1 = slot[cur]
          BY <2>1, <3>2, Zenon DEF Top
        <4>2. s_nCPSR'[slot[cur]] = nCPSR[cur]
          BY <1>1 DEF TypeOK
        <4>3. nCPSR[cur] = MaskOf(LevelBefore(c, k))
          BY <2>1, <3>2
        <4> QED
          BY <3>1, <4>1, <4>2, <4>3, Zenon DEF Saved
      <3>3. CASE ~(c = cur /\ k = Len(holds[cur]))
        <4>1. Base(c) + k - 1 # slot[cur]
          <5>1. Base(c) + k - 1 < slot[cur]
            BY <1>5, <2>1, <3>0, <3>3, TopIsAbove
          <5>2. slot[cur] \in Int /\ Base(c) + k - 1 \in Int
            <6>1. slot[cur] \in Int
              BY <1>1 DEF TypeOK
            <6>2. Base(c) \in Int
              <7>1. Len(holds[0]) \in Nat /\ Len(holds[1]) \in Nat
                BY LevelFacts, ContextsFacts
              <7> QED
                BY <7>1 DEF Base
            <6> QED
              BY <3>0, <6>1, <6>2
          <5> QED
            BY <5>1, <5>2
        <4>2. s_nCPSR'[Base(c) + k - 1] = s_nCPSR[Base(c) + k - 1]
          <5>1. \A i : i # slot[cur] => s_nCPSR'[i] = s_nCPSR[i]
            BY <1>1 DEF TypeOK
          <5> QED
            BY <4>1, <5>1
        <4>3. Saved(c, k)
          BY <3>0, StackFacts
        <4>4. CASE s_nCPSR[Base(c) + k - 1] = MaskOf(LevelBefore(c, k))
          BY <3>1, <4>2, <4>4, Zenon DEF Saved
        <4>5. CASE /\ pc[c] \in {"reserve", "store", "restore"}
                   /\ k = Len(holds[c])
          <5>1. c # cur
            BY <3>3, <4>5
          <5>2. pc'[c] = pc[c] /\ holds'[c] = holds[c]
            BY <1>3, <3>0, <5>1
          <5> QED
            BY <4>5, <5>2, Zenon DEF Saved
        <4> QED
          BY <4>3, <4>4, <4>5 DEF Saved
      <3> QED
        BY <3>2, <3>3
    <2>3. Total' = Total
      BY <1>1, Zenon DEF Total
    <2>4. s_nCriticalLevel = Total /\ Total \in Nat /\ (holds[0] = <<>> \/ holds[1] = <<>>)
      BY <1>1, StackFacts DEF Out
    <2>5. pc'[cur'] \notin Out /\ pc'[cur'] \notin {"store", "load"}
      <3> HIDE DEF next
      <3> QED
        BY <1>1, <1>2, <1>3 DEF Out
    <2> QED
      BY <1>1, <2>2, <2>3, <2>4, <2>5, StackInvAfter
  <1> QED
    BY <1>3, <1>6, <1>7, <1>8, <1>9

\* What a step that leaves sections and masks in the stack alone needs to show.
LEMMA QuietStackStep ==
  ASSUME IInv, NEW at, NEW next, Step(at, next), cur \in Contexts, pc[cur] = at,
         at \notin {"reserve", "store", "restore"} \/ next \in {"store", "restore"},
         UNCHANGED <<holds, s_nCPSR>>,
         pc'[cur] = next, \A c \in Contexts : c # cur => pc'[c] = pc[c],
         next \in Out => s_nCriticalLevel' = Total - 1,
         next \notin Out => s_nCriticalLevel' = Total,
         next \in {"store", "load"} => slot'[cur] = Total - 1
  PROVE  StackInv'
  <1>1. Total' = Total /\ Top(cur)' = Top(cur) /\ cur' = cur
    <2>1. Total' = Total
      BY Zenon DEF Total
    <2> QED
      BY <2>1, SameLevels DEF Step
  <1>2. \A c \in Contexts : \A k \in 1..Len(holds'[c]) : Saved(c, k)'
    BY SavedStays
  <1>3. /\ Total \in Nat /\ Top(cur) = Total - 1
        /\ holds[0] = <<>> \/ holds[1] = <<>>
    BY StackFacts
  <1>4. holds'[0] = <<>> \/ holds'[1] = <<>>
    BY <1>3
  <1>5. pc'[cur'] = next /\ slot'[cur'] = slot'[cur]
    BY <1>1
  <1> QED
    BY <1>1, <1>2, <1>3, <1>4, <1>5, StackInvAfter

\* FIQs are let in again, in a section of IRQ_LEVEL.
LEMMA EnableFIQsStep == IInv /\ EnableFIQs => IInv'
  <1> SUFFICES ASSUME IInv, EnableFIQs PROVE IInv'
    OBVIOUS
  <1> USE DEF IInv
  <1>1. /\ Step("cpsie", "run") /\ cur' = cur /\ cur \in Contexts
        /\ pc[cur] = "cpsie" /\ mask' = mask \ {"F"}
        /\ UNCHANGED <<lock, nCPSR, slot, holds, s_nCriticalLevel, s_nCPSR, halted>>
    BY DEF EnableFIQs, FIQsEnabled, Step, TypeOK, sectionVars, stackVars
  <1>2. /\ pc' \in [Contexts -> {"idle", "run"} \cup EnterPCs \cup LeavePCs]
        /\ pc'[cur] = "run"
        /\ \A c \in Contexts : c # cur => pc'[c] = pc[c]
        /\ EntryInv' /\ InterruptedInv'
    BY <1>1, StepKeepsEntries
  <1>3. \A c : LevelOf(c)' = LevelOf(c)
    BY <1>1, SameLevels
  <1>4. TypeOK' /\ NoAssertFails'
    <2>1. mask' \in Masks
      BY <1>1 DEF TypeOK, Masks
    <2> QED
      BY <1>1, <1>2, <2>1 DEF TypeOK, Step, NoAssertFails
  <1>5. NestingInv'
    BY <1>1, <1>2, SameSections DEF LeavePCs
  <1>6. MaskInv'
    <2>1. mask = Both
      BY <1>1 DEF MaskInv
    <2>2. LevelOf(cur) = 1
      <3>1. /\ holds[cur] # <<>> /\ Last(holds[cur]) = lock[cur]
            /\ Target[lock[cur]] = 1
        BY <1>1 DEF NestingInv
      <3> QED
        BY <3>1 DEF LevelOf
    <2>3. mask' = MaskOf(LevelOf(cur))
      BY <1>1, <2>1, <2>2 DEF MaskOf, Both
    <2> QED
      BY <1>1, <1>2, <1>3, <2>3 DEF MaskInv, MaskOf
  <1>7. StackInv'
    <2>1. s_nCriticalLevel' = Total
      BY <1>1, StackFacts DEF Out
    <2> QED
      BY <1>1, <1>2, <2>1, QuietStackStep DEF Out
  <1> QED
    BY <1>2, <1>4, <1>5, <1>6, <1>7

-----------------------------------------------------------------------------
(* LeaveCritical.                                                          *)

\* In a section IRQs are off already.
LEMMA LeaveCriticalStep == IInv /\ LeaveCritical => IInv'
  <1> SUFFICES ASSUME IInv, LeaveCritical PROVE IInv'
    OBVIOUS
  <1> USE DEF IInv
  <1>1. /\ Step("run", "pop") /\ cur' = cur /\ cur \in Contexts
        /\ pc[cur] = "run" /\ mask' = mask \cup {"F"} /\ holds[cur] # <<>>
        /\ UNCHANGED <<lock, nCPSR, slot, holds, s_nCriticalLevel, s_nCPSR, halted>>
    BY DEF LeaveCritical, DisabledInLeave, Step, TypeOK, sectionVars, stackVars
  <1>2. /\ pc' \in [Contexts -> {"idle", "run"} \cup EnterPCs \cup LeavePCs]
        /\ pc'[cur] = "pop"
        /\ \A c \in Contexts : c # cur => pc'[c] = pc[c]
        /\ EntryInv' /\ InterruptedInv'
    BY <1>1, StepKeepsEntries DEF LeavePCs
  <1>3. \A c : LevelOf(c)' = LevelOf(c)
    BY <1>1, SameLevels
  <1>4. TypeOK' /\ NoAssertFails'
    <2>1. mask' \in Masks
      BY <1>1 DEF TypeOK, Masks, Both
    <2> QED
      BY <1>1, <1>2, <2>1 DEF TypeOK, Step, NoAssertFails
  <1>5. NestingInv'
    BY <1>1, <1>2, SameSections DEF LeavePCs
  <1>6. MaskInv'
    <2>1. LevelOf(cur) \in 1..2
      <3>1. Last(holds[cur]) \in Locks
        BY <1>1, FrontFacts DEF TypeOK
      <3> QED
        BY <1>1, <3>1, Constants DEF LevelOf
    <2>2. mask = MaskOf(LevelOf(cur))
      BY <1>1 DEF MaskInv
    <2>3. mask' = Both
      BY <1>1, <2>1, <2>2 DEF MaskOf, Both
    <2> QED
      BY <1>1, <1>2, <1>3, <2>3 DEF MaskInv, MaskOf
  <1>7. StackInv'
    <2>1. s_nCriticalLevel' = Total
      BY <1>1, StackFacts DEF Out
    <2> QED
      BY <1>1, <1>2, <2>1, QuietStackStep DEF Out
  <1> QED
    BY <1>2, <1>4, <1>5, <1>6, <1>7

\* Total counts the running context's sections.
LEMMA TotalIsPositive ==
  ASSUME IInv, holds[cur] # <<>>
  PROVE  Total > 0
  <1>1. cur \in {0, 1, 2} /\ cur \in Contexts /\ holds[cur] \in Seq(Locks)
    BY DEF IInv, TypeOK, Contexts
  <1>2. Len(holds[cur]) # 0
    BY <1>1
  <1>3. PICK a \in Nat, b \in Nat, d \in Nat :
            a = Len(holds[0]) /\ b = Len(holds[1]) /\ d = Len(holds[2])
    BY LevelFacts, ContextsFacts DEF IInv
  <1>4. Total = a + b + d
    BY <1>3, Zenon DEF Total
  <1>5. a # 0 \/ b # 0 \/ d # 0
    BY <1>1, <1>2, <1>3
  <1> QED
    BY <1>4, <1>5

\* The topmost mask is popped: it is the running context's.
LEMMA PopSlotStep == IInv /\ PopSlot => IInv'
  <1> SUFFICES ASSUME IInv, PopSlot PROVE IInv'
    OBVIOUS
  <1> USE DEF IInv
  <1>1. /\ Step("pop", "load") /\ cur' = cur /\ cur \in Contexts
        /\ pc[cur] = "pop" /\ UNCHANGED <<mask, lock, nCPSR, holds, s_nCPSR>>
    BY DEF PopSlot, Step, TypeOK
  <1>2. /\ pc' \in [Contexts -> {"idle", "run"} \cup EnterPCs \cup LeavePCs]
        /\ pc'[cur] = "load"
        /\ \A c \in Contexts : c # cur => pc'[c] = pc[c]
        /\ EntryInv' /\ InterruptedInv'
    BY <1>1, StepKeepsEntries DEF LeavePCs
  <1>3. \A c : LevelOf(c)' = LevelOf(c)
    BY <1>1, SameLevels
  <1>4. holds[cur] # <<>>
    BY <1>1 DEF NestingInv, LeavePCs
  <1>5. /\ s_nCriticalLevel = Total /\ Total <= MaxCriticalLevel
        /\ Total \in Nat /\ Total > 0
    BY <1>1, <1>4, StackFacts, TotalIsPositive DEF Out
  <1>6. /\ s_nCriticalLevel > 0
        /\ s_nCriticalLevel - 1 \in 0..(MaxCriticalLevel - 1)
        /\ s_nCriticalLevel - 1 \in 0..MaxCriticalLevel
        /\ s_nCriticalLevel - 1 = Total - 1
    BY <1>5, Constants
  <1>7. /\ halted' = FALSE /\ s_nCriticalLevel' = Total - 1
        /\ slot' = [slot EXCEPT ![cur] = s_nCriticalLevel - 1]
    BY <1>6 DEF PopSlot, Assert
  <1>8. TypeOK' /\ NoAssertFails'
    <2>1. slot' \in [Contexts -> 0..(MaxCriticalLevel - 1)]
      BY <1>6, <1>7 DEF TypeOK
    <2>2. s_nCriticalLevel' \in 0..MaxCriticalLevel /\ halted' \in BOOLEAN
      BY <1>6, <1>7
    <2> QED
      BY <1>1, <1>2, <1>7, <2>1, <2>2 DEF TypeOK, Step, NoAssertFails
  <1>9. NestingInv'
    BY <1>1, <1>2, <1>4, SameSections DEF LeavePCs
  <1>10. MaskInv'
    BY <1>1, <1>2, <1>3 DEF MaskInv, MaskOf
  <1>11. StackInv'
    <2>1. slot'[cur] = Total - 1
      BY <1>1, <1>6, <1>7 DEF TypeOK
    <2> QED
      BY <1>1, <1>2, <1>7, <2>1, QuietStackStep DEF Out
  <1> QED
    BY <1>2, <1>8, <1>9, <1>10, <1>11

\* The mask read back is the one saved when the section began.
LEMMA LoadCPSRStep == IInv /\ LoadCPSR => IInv'
  <1> SUFFICES ASSUME IInv, LoadCPSR PROVE IInv'
    OBVIOUS
  <1> USE DEF IInv
  <1>1. /\ Step("load", "restore") /\ cur' = cur /\ cur \in Contexts
        /\ pc[cur] = "load"
        /\ nCPSR' = [nCPSR EXCEPT ![cur] = s_nCPSR[slot[cur]]]
        /\ UNCHANGED <<mask, lock, slot, holds, s_nCriticalLevel, s_nCPSR, halted>>
    BY DEF LoadCPSR, Step, TypeOK, stackVars
  <1>2. /\ pc' \in [Contexts -> {"idle", "run"} \cup EnterPCs \cup LeavePCs]
        /\ pc'[cur] = "restore"
        /\ \A c \in Contexts : c # cur => pc'[c] = pc[c]
        /\ EntryInv' /\ InterruptedInv'
    BY <1>1, StepKeepsEntries DEF LeavePCs
  <1>3. /\ \A c : LevelOf(c)' = LevelOf(c)
        /\ \A c, k : LevelBefore(c, k)' = LevelBefore(c, k)
    BY <1>1, SameLevels
  <1>4. holds[cur] # <<>>
    BY <1>1 DEF NestingInv, LeavePCs
  <1>5. nCPSR' \in [Contexts -> Masks] /\ nCPSR'[cur] = s_nCPSR[slot[cur]]
    BY <1>1 DEF TypeOK
  <1>6. TypeOK' /\ NoAssertFails'
    BY <1>1, <1>2, <1>5 DEF TypeOK, Step, NoAssertFails
  <1>7. NestingInv'
    BY <1>1, <1>2, <1>4, SameSections DEF LeavePCs
  <1>8. MaskInv'
    <2>1. Len(holds[cur]) \in 1..Len(holds[cur])
      <3>1. holds[cur] \in Seq(Locks)
        BY <1>1 DEF TypeOK
      <3> QED
        BY <1>4, <3>1
    <2>2. Saved(cur, Len(holds[cur]))
      BY <1>1, <2>1, StackFacts
    <2>3. slot[cur] = Base(cur) + Len(holds[cur]) - 1
      <3>1. slot[cur] = Top(cur)
        BY <1>1, StackFacts
      <3> QED
        BY <3>1, Zenon DEF Top
    <2>4. nCPSR'[cur] = MaskOf(LevelBefore(cur, Len(holds[cur])))
      BY <1>1, <1>5, <2>2, <2>3 DEF Saved
    <2>5. MaskOf(LevelBefore(cur, Len(holds[cur])))'
              = MaskOf(LevelBefore(cur, Len(holds[cur])))
      BY <1>1, <1>3 DEF MaskOf
    <2>6. \A c \in Contexts : c # cur => nCPSR'[c] = nCPSR[c]
      BY <1>1 DEF TypeOK
    <2> QED
      BY <1>1, <1>2, <1>3, <2>4, <2>5, <2>6 DEF MaskInv, MaskOf
  <1>9. StackInv'
    <2>1. s_nCriticalLevel' = Total - 1
      BY <1>1, StackFacts DEF Out
    <2> QED
      BY <1>1, <1>2, <2>1, QuietStackStep DEF Out
  <1> QED
    BY <1>2, <1>6, <1>7, <1>8, <1>9

\* The section ends: the running context is back on the level before it.
LEMMA RestoreCPSRStep == IInv /\ RestoreCPSR => IInv'
  <1> SUFFICES ASSUME IInv, RestoreCPSR PROVE IInv'
    OBVIOUS
  <1> USE DEF IInv
  <1>1. /\ Step("restore", "run") /\ cur' = cur /\ cur \in Contexts
        /\ pc[cur] = "restore" /\ mask' = nCPSR[cur]
        /\ UNCHANGED <<lock, nCPSR, slot, s_nCriticalLevel, s_nCPSR, halted>>
    BY DEF RestoreCPSR, Step, TypeOK, stackVars
  <1>2. holds[cur] # <<>> /\ holds[cur] \in Seq(Locks)
    BY <1>1 DEF NestingInv, LeavePCs, TypeOK
  <1>3. /\ holds' \in [Contexts -> Seq(Locks)]
        /\ \A c \in Contexts : c # cur => holds'[c] = holds[c]
        /\ holds'[cur] = Front(holds[cur])
    BY <1>1, <1>2, FrontFacts DEF RestoreCPSR, TypeOK
  <1>4. PICK n \in Nat : n = Len(holds[cur])
    BY <1>2
  <1>5. /\ n # 0 /\ Len(holds'[cur]) = n - 1
        /\ \A i \in 1..(n - 1) : holds'[cur][i] = holds[cur][i]
        /\ holds'[cur] = <<>> <=> n = 1
    BY <1>2, <1>3, <1>4, FrontFacts, ZenonT(60)
  <1>6. /\ pc' \in [Contexts -> {"idle", "run"} \cup EnterPCs \cup LeavePCs]
        /\ pc'[cur] = "run"
        /\ \A c \in Contexts : c # cur => pc'[c] = pc[c]
        /\ EntryInv' /\ InterruptedInv'
    BY <1>1, <1>3, StepKeepsEntries
  <1>7. TypeOK' /\ NoAssertFails'
    BY <1>1, <1>3, <1>6 DEF TypeOK, Step, NoAssertFails
  <1>8. \A k \in 1..(n - 1) : LevelBefore(cur, k)' = LevelBefore(cur, k)
    BY <1>1, <1>5 DEF LevelBefore
  <1>9. LevelOf(cur)' = LevelBefore(cur, n)
    <2>1. CASE n = 1
      BY <1>1, <1>5, <2>1 DEF LevelOf, LevelBefore
    <2>2. CASE n # 1
      <3>1. n - 1 \in 1..(n - 1)
        BY <1>5, <2>2
      <3>2. holds'[cur] # <<>> /\ holds'[cur][n - 1] = holds[cur][n - 1]
        BY <1>5, <2>2, <3>1
      <3>3. Last(holds'[cur]) = holds[cur][n - 1]
        BY <1>5, <3>2 DEF Last
      <3> QED
        BY <1>1, <2>2, <3>2, <3>3, Zenon DEF LevelOf, LevelBefore
    <2> QED
      BY <2>1, <2>2
  <1>10. NestingInv'
    <2> SUFFICES ASSUME NEW c \in Contexts PROVE
          (/\ Len(holds[c]) <= MaxNest
           /\ \A i \in 1..Len(holds[c]) : c <= Target[holds[c][i]]
           /\ \A i, j \in 1..Len(holds[c]) :
                 i < j => /\ Target[holds[c][i]] <= Target[holds[c][j]]
                          /\ holds[c][i] # holds[c][j]
           /\ pc[c] = "cpsid" => /\ c <= Target[lock[c]]
                                 /\ LevelOf(c) <= Target[lock[c]]
                                 /\ ~Holding(c, lock[c])
                                 /\ Len(holds[c]) < MaxNest
           /\ pc[c] \in {"reserve", "store", "cpsie"} =>
                 holds[c] # <<>> /\ Last(holds[c]) = lock[c]
           /\ pc[c] \in LeavePCs => holds[c] # <<>>
           /\ pc[c] = "cpsie" => Target[lock[c]] = 1)'
      BY DEF NestingInv
    <2>1. CASE c # cur
      <3>1. holds'[c] = holds[c] /\ pc'[c] = pc[c] /\ lock' = lock
        BY <1>1, <1>3, <1>6, <2>1
      <3> QED
        BY <3>1 DEF NestingInv, LevelOf, Holding
    <2>2. CASE c = cur
      <3>1. /\ n <= MaxNest
            /\ \A i \in 1..n : c <= Target[holds[cur][i]]
            /\ \A i, j \in 1..n :
                  i < j => /\ Target[holds[cur][i]] <= Target[holds[cur][j]]
                           /\ holds[cur][i] # holds[cur][j]
        BY <1>4, <2>2 DEF NestingInv
      <3>2. \A i \in 1..(n - 1) : i \in 1..n
        OBVIOUS
      <3>3. n - 1 <= MaxNest
        BY <3>1, Constants
      <3>4. /\ Len(holds'[c]) <= MaxNest
            /\ \A i \in 1..Len(holds'[c]) : c <= Target[holds'[c][i]]
        BY <1>5, <2>2, <3>1, <3>2, <3>3
      <3>5. ASSUME NEW i \in 1..(n - 1), NEW j \in 1..(n - 1), i < j
            PROVE  /\ Target[holds'[c][i]] <= Target[holds'[c][j]]
                   /\ holds'[c][i] # holds'[c][j]
        <4>1. holds'[c][i] = holds[cur][i] /\ holds'[c][j] = holds[cur][j]
          BY <1>5, <2>2
        <4> QED
          BY <3>1, <3>2, <3>5, <4>1
      <3>6. /\ pc'[c] \notin {"cpsid", "reserve", "store", "cpsie"}
            /\ pc'[c] \notin LeavePCs
        BY <1>6, <2>2 DEF LeavePCs
      <3>7. Len(holds'[c]) = n - 1
        BY <1>5, <2>2
      <3> QED
        BY <3>4, <3>5, <3>6, <3>7
    <2> QED
      BY <2>1, <2>2
  <1>11. MaskInv'
    <2>1. mask' = MaskOf(LevelBefore(cur, n))
      BY <1>1, <1>4 DEF MaskInv
    <2>2. \A c \in Contexts : c # cur => LevelOf(c)' = LevelOf(c)
      BY <1>3 DEF LevelOf
    <2> QED
      BY <1>1, <1>6, <1>9, <2>1, <2>2 DEF MaskInv, MaskOf
  <1>12. StackInv'
    <2>1. Len(holds[0]) \in Nat /\ Len(holds[1]) \in Nat /\ Len(holds[2]) \in Nat
      BY LevelFacts, ContextsFacts
    <2>2. /\ Total \in Nat /\ s_nCriticalLevel = Total - 1
          /\ holds[0] = <<>> \/ holds[1] = <<>>
      BY <1>1, StackFacts DEF Out
    <2>3. holds'[0] = <<>> \/ holds'[1] = <<>>
      <3>1. /\ cur = 0 => holds[1] = <<>>
            /\ cur = 1 => holds[0] = <<>>
        BY RunningIsOnTop
      <3> QED
        BY <1>1, <1>3, <2>2, <3>1, OneSection, Zenon
    <2>4. Total' = Total - 1 /\ Total' \in Nat
      <3>1. \A c \in Contexts : Len(holds'[c]) = Len(holds[c]) + (IF c = cur THEN -1 ELSE 0)
        <4> SUFFICES ASSUME NEW c \in Contexts
                     PROVE  Len(holds'[c]) = Len(holds[c]) + (IF c = cur THEN -1 ELSE 0)
          OBVIOUS
        <4>1. CASE c = cur
          BY <1>4, <1>5, <4>1
        <4>2. CASE c # cur
          <5>1. holds'[c] = holds[c] /\ Len(holds[c]) \in Nat
            BY <1>3, <4>2, LevelFacts
          <5> QED
            BY <4>2, <5>1
        <4> QED
          BY <4>1, <4>2
      <3>2. -1 \in Int
        OBVIOUS
      <3>3. Total' = Total + (-1)
        BY <1>1, <2>1, <3>1, <3>2, TotalStep
      <3>4. Total > 0
        BY <1>2, TotalIsPositive
      <3> QED
        BY <2>2, <3>3, <3>4
    <2>5. ASSUME NEW c \in Contexts, NEW k \in 1..Len(holds'[c])
          PROVE  Saved(c, k)'
      <3>1. CASE c = cur
        <4>1. k \in 1..(n - 1) /\ k \in 1..n /\ k # n
          BY <1>4, <1>5, <3>1
        <4>2. Base(c)' = Base(c)
          BY <1>1, <1>3, <3>1, BaseStep
        <4>3. s_nCPSR[Base(c) + k - 1] = MaskOf(LevelBefore(c, k))
          <5>1. Saved(c, k)
            BY <1>4, <3>1, <4>1, StackFacts
          <5> QED
            BY <1>4, <3>1, <4>1, <5>1 DEF Saved
        <4>4. LevelBefore(c, k)' = LevelBefore(c, k)
          BY <1>1, <1>8, <3>1, <4>1
        <4> QED
          BY <1>1, <4>2, <4>3, <4>4 DEF Saved, MaskOf
      <3>2. CASE c # cur
        <4>1. holds'[c] = holds[c] /\ pc'[c] = pc[c]
          BY <1>3, <1>6, <3>2
        <4>2. c # 2
          <5>1. ASSUME c = 2 PROVE FALSE
            <6>1. cur = 0 \/ cur = 1
              BY <1>1, <3>2, <5>1 DEF Contexts
            <6>2. holds[2] = <<>>
              BY <6>1, RunningIsOnTop
            <6>3. Len(holds'[c]) = 0
              BY <4>1, <5>1, <6>2
            <6> QED
              BY <6>3
          <5> QED
            BY <5>1
        <4>3. Base(c)' = Base(c) /\ LevelBefore(c, k)' = LevelBefore(c, k)
          BY <4>1, <4>2 DEF Base, LevelBefore
        <4>4. Saved(c, k)
          BY <4>1, StackFacts
        <4> QED
          BY <1>1, <4>1, <4>3, <4>4 DEF Saved, MaskOf
      <3> QED
        BY <3>1, <3>2
    <2>6. pc'[cur'] = "run" /\ s_nCriticalLevel' = Total'
      BY <1>1, <1>6, <2>2, <2>4
    <2> QED
      BY <2>3, <2>4, <2>5, <2>6, StackInvAfter DEF Out
  <1> QED
    BY <1>6, <1>7, <1>10, <1>11, <1>12

-----------------------------------------------------------------------------
(* Interrupts.                                                             *)

\* A context is never on a level below its own.
LEMMA LevelIsAbove ==
  ASSUME IInv, NEW c \in Contexts
  PROVE  c <= LevelOf(c)
  <1>1. CASE holds[c] = <<>>
    BY <1>1 DEF LevelOf, Contexts
  <1>2. CASE holds[c] # <<>>
    <2>1. holds[c] \in Seq(Locks)
      BY DEF IInv, TypeOK
    <2>4. Len(holds[c]) \in Nat \ {0} /\ Last(holds[c]) = holds[c][Len(holds[c])]
      BY <1>2, <2>1, FrontFacts
    <2>2. Len(holds[c]) \in 1..Len(holds[c]) /\ Last(holds[c]) = holds[c][Len(holds[c])]
      BY <2>4
    <2>3. c <= Target[holds[c][Len(holds[c])]]
      BY <2>2 DEF IInv, NestingInv
    <2> QED
      BY <1>2, <2>2, <2>3 DEF LevelOf
  <1> QED
    BY <1>1, <1>2

\* An interrupt only comes upon a context below it that is on a level below
\* it, and outside of the masked part of EnterCritical and LeaveCritical.
LEMMA InterruptFacts ==
  ASSUME IInv, NEW c \in 1..2, Interrupt(c)
  PROVE  /\ cur < c /\ pc[cur] \in {"run", "cpsid"} /\ pc[c] = "idle"
         /\ mask = MaskOf(LevelOf(cur)) /\ LevelOf(cur) < c
         /\ holds[c] = <<>> /\ c # cur
  <1> USE DEF IInv
  <1>1. cur \in Contexts /\ c \in Contexts /\ cur \in 0..2
    BY DEF TypeOK, Contexts
  <1>2. /\ c = 1 => "I" \notin mask
        /\ c = 2 => "F" \notin mask
    BY DEF Interrupt, Enabled
  <1>3. pc[cur] \in {"run", "cpsid"}
    BY <1>2 DEF MaskInv, Both
  <1>4. mask = MaskOf(LevelOf(cur))
    BY <1>3 DEF MaskInv
  <1>5. LevelOf(cur) \in 0..2
    BY <1>1, LevelFacts
  <1>6. LevelOf(cur) < c
    BY <1>2, <1>4, <1>5 DEF MaskOf, Both
  <1>7. cur < c
    BY <1>1, <1>5, <1>6, LevelIsAbove
  <1>8. pc[c] = "idle"
    BY <1>1, <1>7 DEF EntryInv
  <1> QED
    BY <1>1, <1>3, <1>4, <1>6, <1>7, <1>8 DEF EntryInv

\* What entering and leaving a handler keep: no section changes.
LEMMA SwitchKeepsSections ==
  ASSUME IInv, UNCHANGED <<sectionVars, stackVars>>, NEW h \in Contexts,
         holds[h] = <<>>, pc'[h] \in {"idle", "run"},
         \A c \in Contexts : c # h => pc'[c] = pc[c],
         pc[cur] \in {"run", "cpsid"}, pc'[cur'] \in {"run", "cpsid"}
  PROVE  NestingInv' /\ StackInv'
  <1>1. UNCHANGED <<lock, nCPSR, slot, holds, s_nCriticalLevel, s_nCPSR>>
    BY DEF sectionVars, stackVars
  <1>2. NestingInv'
    <2>1. /\ \A c : LevelOf(c)' = LevelOf(c)
          /\ \A c, k : Holding(c, k)' = Holding(c, k)
      BY <1>1, SameLevels
    <2>2. \A c \in Contexts : pc'[c] = pc[c] \/ pc'[c] \in {"idle", "run"}
      OBVIOUS
    <2> QED
      BY <1>1, <2>1, <2>2 DEF IInv, NestingInv, LeavePCs
  <1>3. StackInv'
    <2>1. /\ s_nCriticalLevel = Total /\ Total \in Nat
          /\ holds[0] = <<>> \/ holds[1] = <<>>
          /\ \A c \in Contexts : \A k \in 1..Len(holds[c]) : Saved(c, k)
      BY StackFacts DEF Out
    <2>2. Total' = Total
      BY <1>1, Zenon DEF Total
    <2>3. ASSUME NEW c \in Contexts, NEW k \in 1..Len(holds'[c])
          PROVE  Saved(c, k)'
      <3>1. k \in 1..Len(holds[c]) /\ c # h
        <4>1. Len(<<>>) = 0
          OBVIOUS
        <4> QED
          BY <1>1, <4>1
      <3>2. pc'[c] = pc[c]
        BY <3>1
      <3>3. Saved(c, k) /\ Base(c)' = Base(c) /\ LevelBefore(c, k)' = LevelBefore(c, k)
        BY <1>1, <2>1, <3>1, SameLevels
      <3> QED
        BY <1>1, <3>2, <3>3 DEF Saved, MaskOf
    <2> QED
      BY <1>1, <2>1, <2>2, <2>3, StackInvAfter DEF Out
  <1> QED
    BY <1>2, <1>3

\* A handler is entered with the masks of its own level.
LEMMA InterruptStep ==
  ASSUME IInv, NEW c \in 1..2, Interrupt(c)
  PROVE  IInv'
  <1> USE DEF IInv
  <1>1. /\ cur' = c /\ cur \in Contexts /\ c \in Contexts
        /\ mask' = MaskOnEntry(c)
        /\ under' = [under EXCEPT ![c] = cur]
        /\ spsr' = [spsr EXCEPT ![c] = mask]
        /\ pc' = [pc EXCEPT ![c] = "run"]
        /\ UNCHANGED <<sectionVars, stackVars, halted>>
        /\ UNCHANGED <<lock, nCPSR, slot, holds, s_nCriticalLevel, s_nCPSR>>
    BY DEF Interrupt, TypeOK, Contexts, sectionVars, stackVars
  <1>2. /\ cur < c /\ pc[cur] \in {"run", "cpsid"} /\ pc[c] = "idle"
        /\ mask = MaskOf(LevelOf(cur)) /\ LevelOf(cur) < c
        /\ holds[c] = <<>> /\ c # cur
    BY InterruptFacts
  <1>3. /\ pc' \in [Contexts -> {"idle", "run"} \cup EnterPCs \cup LeavePCs]
        /\ pc'[c] = "run"
        /\ \A d \in Contexts : d # c => pc'[d] = pc[d]
    BY <1>1 DEF TypeOK
  <1>4. /\ under' \in [1..2 -> Contexts] /\ under'[c] = cur
        /\ spsr' \in [1..2 -> Masks] /\ spsr'[c] = mask
        /\ \A l \in 1..2 : l # c => under'[l] = under[l] /\ spsr'[l] = spsr[l]
    BY <1>1 DEF TypeOK
  <1>5. TypeOK' /\ NoAssertFails'
    <2>1. mask' \in Masks
      BY <1>1 DEF TypeOK, Masks, MaskOnEntry, Both
    <2> QED
      BY <1>1, <1>3, <1>4, <2>1 DEF TypeOK, NoAssertFails
  <1>6. EntryInv'
    <2>1. CASE c = 1
      <3>1. cur = 0
        BY <1>1, <1>2, <2>1 DEF Contexts
      <3> QED
        BY <1>1, <1>2, <1>3, <1>4, <2>1, <3>1 DEF EntryInv, Contexts
    <2>2. CASE c = 2
      <3>1. cur = 0 \/ cur = 1
        BY <1>1, <1>2, <2>2 DEF Contexts
      <3> QED
        BY <1>1, <1>2, <1>3, <1>4, <2>2, <3>1 DEF EntryInv, Contexts
    <2> QED
      BY <2>1, <2>2
  <1>7. \A d : LevelOf(d)' = LevelOf(d)
    BY <1>1, SameLevels
  <1>8. InterruptedInv'
    <2> SUFFICES ASSUME NEW l \in 1..2, pc'[l] # "idle"
                 PROVE  /\ pc'[under'[l]] \in {"run", "cpsid"}
                        /\ (LevelOf(under[l]) < l)'
                        /\ (spsr[l] = MaskOf(LevelOf(under[l])))'
      BY DEF InterruptedInv
    <2>1. CASE l = c
      <3>1. under'[l] = cur /\ spsr'[l] = mask /\ pc'[cur] = pc[cur]
        BY <1>1, <1>2, <1>3, <1>4, <2>1
      <3>2. LevelOf(under[l])' = LevelOf(cur)
        BY <1>1, <3>1 DEF LevelOf
      <3> QED
        BY <1>2, <2>1, <3>1, <3>2 DEF MaskOf
    <2>2. CASE l # c
      <3>1. l \in Contexts
        BY DEF Contexts
      <3>2. pc[l] # "idle"
        BY <1>3, <2>2, <3>1
      <3>3. /\ pc[under[l]] \in {"run", "cpsid"} /\ LevelOf(under[l]) < l
            /\ spsr[l] = MaskOf(LevelOf(under[l])) /\ under[l] \in Contexts
        BY <3>2 DEF InterruptedInv, TypeOK
      <3>4. under[l] # c
        BY <1>2, <3>3
      <3>5. LevelOf(under[l])' = LevelOf(under[l])
        BY <1>1, <1>4, <2>2 DEF LevelOf
      <3> QED
        BY <1>3, <1>4, <2>2, <3>3, <3>4, <3>5 DEF MaskOf
    <2> QED
      BY <2>1, <2>2
  <1>9. NestingInv' /\ StackInv'
    BY <1>1, <1>2, <1>3, SwitchKeepsSections
  <1>10. MaskInv'
    <2>1. LevelOf(c)' = c
      BY <1>2, <1>7 DEF LevelOf
    <2>2. mask' = MaskOf(c)
      <3>1. CASE c = 1
        <4>2. LevelOf(cur) \in 0..2
          BY <1>1, LevelFacts
        <4>1. LevelOf(cur) = 0
          BY <1>2, <3>1, <4>2
        <4> QED
          BY <1>1, <1>2, <3>1, <4>1 DEF MaskOf, MaskOnEntry
      <3>2. CASE c = 2
        BY <1>1, <3>2 DEF MaskOf, MaskOnEntry
      <3> QED
        BY <3>1, <3>2
    <2> QED
      BY <1>1, <1>3, <1>7, <2>1, <2>2 DEF MaskInv, MaskOf
  <1> QED
    BY <1>5, <1>6, <1>8, <1>9, <1>10

\* The interrupted context finds the masks of its level.
LEMMA ReturnStep == IInv /\ ReturnFromInterrupt => IInv'
  <1> SUFFICES ASSUME IInv, ReturnFromInterrupt PROVE IInv'
    OBVIOUS
  <1> USE DEF IInv
  <1>1. /\ cur \in 1..2 /\ cur \in Contexts
        /\ cur' = under[cur] /\ mask' = spsr[cur]
        /\ pc[cur] = "run" /\ holds[cur] = <<>>
        /\ pc' = [pc EXCEPT ![cur] = "idle"]
        /\ UNCHANGED <<under, spsr, halted>>
        /\ UNCHANGED <<sectionVars, stackVars>>
        /\ UNCHANGED <<lock, nCPSR, slot, holds, s_nCriticalLevel, s_nCPSR>>
    BY DEF ReturnFromInterrupt, TypeOK, Contexts, sectionVars, stackVars
  <1>2. /\ pc[under[cur]] \in {"run", "cpsid"} /\ LevelOf(under[cur]) < cur
        /\ spsr[cur] = MaskOf(LevelOf(under[cur]))
        /\ under[cur] \in Contexts /\ spsr[cur] \in Masks
    BY <1>1 DEF InterruptedInv, TypeOK
  <1>3. /\ pc' \in [Contexts -> {"idle", "run"} \cup EnterPCs \cup LeavePCs]
        /\ pc'[cur] = "idle"
        /\ \A c \in Contexts : c # cur => pc'[c] = pc[c]
    BY <1>1 DEF TypeOK
  <1>4. under[cur] # cur /\ \A l \in 1..2 : l # cur /\ pc[l] # "idle" => under[l] # cur
    BY <1>1 DEF EntryInv
  <1>5. TypeOK' /\ NoAssertFails'
    BY <1>1, <1>2, <1>3 DEF TypeOK, NoAssertFails
  <1>6. EntryInv'
    <2>1. CASE cur = 1
      BY <1>1, <1>3, <2>1 DEF EntryInv, Contexts
    <2>2. CASE cur = 2
      BY <1>1, <1>3, <2>2 DEF EntryInv, Contexts
    <2> QED
      BY <1>1, <2>1, <2>2
  <1>7. \A d : LevelOf(d)' = LevelOf(d)
    BY <1>1, SameLevels
  <1>8. InterruptedInv'
    <2> SUFFICES ASSUME NEW l \in 1..2, pc'[l] # "idle"
                 PROVE  /\ pc'[under'[l]] \in {"run", "cpsid"}
                        /\ (LevelOf(under[l]) < l)'
                        /\ (spsr[l] = MaskOf(LevelOf(under[l])))'
      BY DEF InterruptedInv
    <2>1. l \in Contexts /\ l # cur
      BY <1>3 DEF Contexts
    <2>2. pc[l] # "idle"
      BY <1>3, <2>1
    <2>3. /\ pc[under[l]] \in {"run", "cpsid"} /\ LevelOf(under[l]) < l
          /\ spsr[l] = MaskOf(LevelOf(under[l])) /\ under[l] \in Contexts
      BY <2>2 DEF InterruptedInv, TypeOK
    <2>4. pc'[under[l]] = pc[under[l]]
      BY <1>3, <1>4, <2>1, <2>2, <2>3
    <2>5. LevelOf(under[l])' = LevelOf(under[l])
      BY <1>1 DEF LevelOf
    <2> QED
      BY <1>1, <2>3, <2>4, <2>5 DEF MaskOf
  <1>9. pc'[cur'] \in {"run", "cpsid"}
    BY <1>1, <1>2, <1>3, <1>4
  <1>10. NestingInv' /\ StackInv'
    BY <1>1, <1>3, <1>9, SwitchKeepsSections
  <1>11. MaskInv'
    <2>1. \A c \in Contexts : pc'[c] = "cpsid" => pc[c] = "cpsid"
      BY <1>3
    <2> QED
      BY <1>1, <1>2, <1>7, <1>9, <2>1 DEF MaskInv, MaskOf
  <1> QED
    BY <1>5, <1>6, <1>8, <1>10, <1>11

\* Every step preserves the invariant.
LEMMA NextIInv == IInv /\ [Next]_vars => IInv'
  <1> SUFFICES ASSUME IInv, [Next]_vars PROVE IInv'
    OBVIOUS
  <1>1. CASE \E l \in Locks : EnterCritical(l)
    BY <1>1, EnterCriticalStep
  <1>2. CASE DisableBoth \/ ReserveSlot \/ StoreCPSR \/ EnableFIQs
    BY <1>2, DisableBothStep, ReserveSlotStep, StoreCPSRStep, EnableFIQsStep
  <1>3. CASE LeaveCritical \/ PopSlot \/ LoadCPSR \/ RestoreCPSR
    BY <1>3, LeaveCriticalStep, PopSlotStep, LoadCPSRStep, RestoreCPSRStep
  <1>4. CASE \E c \in 1..2 : Interrupt(c)
    BY <1>4, InterruptStep
  <1>5. CASE ReturnFromInterrupt
    BY <1>5, ReturnStep
  <1>6. CASE UNCHANGED vars
    <2>1. /\ UNCHANGED <<cur, mask, under, spsr, pc, lock, nCPSR, slot, holds>>
          /\ UNCHANGED <<s_nCriticalLevel, s_nCPSR, halted>>
      BY <1>6 DEF vars, cpuVars, sectionVars, stackVars
    <2>2. TypeOK' /\ NoAssertFails'
      BY <2>1, Zenon DEF IInv, TypeOK, NoAssertFails
    <2>6. EntryInv'
      BY <2>1 DEF IInv, EntryInv
    <2>3. NestingInv'
      <3>1. /\ \A c : LevelOf(c)' = LevelOf(c)
            /\ \A c, k : Holding(c, k)' = Holding(c, k)
        BY <2>1, SameLevels
      <3> QED
        BY <2>1, <3>1 DEF IInv, NestingInv
    <2>7. InterruptedInv'
      BY <2>1 DEF IInv, InterruptedInv, LevelOf, MaskOf
    <2>4. MaskInv'
      BY <2>1 DEF IInv, MaskInv, LevelOf, LevelBefore, MaskOf
    <2>5. StackInv'
      <3>1. Total' = Total /\ \A c : Top(c)' = Top(c)
        BY <2>1, SameLevels, Zenon DEF Total
      <3>2. \A c \in Contexts : \A k \in 1..Len(holds'[c]) : Saved(c, k)'
        BY <2>1, SavedStays
      <3>3. Top(cur)' = Top(cur)
        BY <2>1, <3>1, Zenon DEF Top, Base
      <3> QED
        BY <2>1, <3>1, <3>2, <3>3, StackFacts, StackInvAfter
    <2> QED
      BY <2>2, <2>3, <2>4, <2>5, <2>6, <2>7 DEF IInv
  <1> QED
    BY <1>1, <1>2, <1>3, <1>4, <1>5, <1>6 DEF Next

\* For every set of locks and every depth of nesting: who is interrupted
\* where, with which mask, and what the stack of saved masks holds.
THEOREM IInvHolds == Spec => []IInv
  <1> QED
    BY InitIInv, NextIInv, PTL DEF Spec

\* No assert of EnterCritical and LeaveCritical fails as long as the callers
\* keep to the nesting rule, for every stack that is large enough for two
\* contexts.
THEOREM NoAssertFailsHolds == Spec => []NoAssertFails
  <1>1. IInv => NoAssertFails
    BY DEF IInv
  <1> QED
    BY <1>1, IInvHolds, PTL

\* CurrentExecutionLevel is the level of the running context or of its
\* innermost section, wherever interrupts came.
THEOREM ExecutionLevelIsRightHolds == Spec => []ExecutionLevelIsRight
  <1>1. IInv => ExecutionLevelIsRight
    <2> SUFFICES ASSUME IInv, pc[cur] = "run"
                 PROVE  CurrentExecutionLevel = LevelOf(cur)
      BY DEF ExecutionLevelIsRight
    <2>1. LevelOf(cur) \in 0..2 /\ mask = MaskOf(LevelOf(cur))
      <3>1. cur \in Contexts /\ TypeOK
        BY DEF IInv, TypeOK
      <3> QED
        BY <3>1, LevelFacts DEF IInv, MaskInv
    <2> QED
      BY <2>1 DEF CurrentExecutionLevel, MaskOf, Both
  <1> QED
    BY <1>1, IInvHolds, PTL

-----------------------------------------------------------------------------
(* Refinement.                                                             *)

\* A lock is never above the level its context is on.
LEMMA HeldBelowLevel ==
  ASSUME IInv, NEW c \in Contexts, NEW l \in Locks, Holding(c, l)
  PROVE  /\ holds[c] # <<>>
         /\ c <= Target[l] /\ Target[l] <= LevelOf(c)
  <1>1. PICK i \in 1..Len(holds[c]) : holds[c][i] = l
    BY DEF Holding
  <1>2. holds[c] \in Seq(Locks)
    BY DEF IInv, TypeOK
  <1>3. PICK n \in Nat : n = Len(holds[c])
    BY <1>2
  <1>4. holds[c] # <<>>
    BY <1>1, <1>2
  <1>5. LevelOf(c) = Target[holds[c][n]]
    BY <1>3, <1>4, Zenon DEF LevelOf, Last
  <1>6. /\ c <= Target[l]
        /\ \A j, k \in 1..n : j < k => Target[holds[c][j]] <= Target[holds[c][k]]
    BY <1>1, <1>3 DEF IInv, NestingInv
  <1>7. CASE i = n
    <2>1. Target[l] = LevelOf(c) /\ Target[l] \in 1..2
      BY <1>1, <1>5, <1>7, Constants
    <2> QED
      BY <1>4, <1>6, <2>1
  <1>8. CASE i # n
    <2>1. i \in 1..n /\ n \in 1..n /\ i < n
      BY <1>1, <1>3, <1>8
    <2> QED
      BY <1>1, <1>4, <1>5, <1>6, <2>1
  <1> QED
    BY <1>7, <1>8

\* A context that has been interrupted in a section of a lock is below those
\* that use the lock.
LEMMA InterruptedHolder ==
  ASSUME IInv, NEW c \in Contexts, NEW l \in Locks, Holding(c, l), c # cur
  PROVE  Target[l] < cur
  <1>1. holds[c] # <<>> /\ Target[l] <= LevelOf(c) /\ Target[l] \in 1..2
    BY HeldBelowLevel, Constants
  <1>2. pc[c] # "idle"
    BY <1>1 DEF IInv, EntryInv
  <1>3. LevelOf(c) \in 0..2 /\ cur \in 0..2 /\ c \in 0..2
    <2>1. TypeOK /\ cur \in Contexts
      BY DEF IInv, TypeOK
    <2> QED
      BY <2>1, LevelFacts DEF Contexts
  <1>4. \A k \in 1..2 : pc[k] # "idle" => LevelOf(under[k]) < k
    BY DEF IInv, InterruptedInv
  <1>5. LevelOf(c) < cur
    <2>1. cur # 0
      BY <1>2, <1>3 DEF IInv, EntryInv
    <2>2. CASE cur = 1
      <3>1. c = 0 /\ under[1] = 0 /\ pc[1] # "idle"
        BY <1>2, <1>3, <2>2 DEF IInv, EntryInv
      <3> QED
        BY <1>4, <2>2, <3>1
    <2>3. CASE cur = 2
      <3>1. pc[2] # "idle"
        BY <2>3 DEF IInv, EntryInv
      <3>2. \/ c = under[2]
            \/ c = 0 /\ under[1] = 0 /\ pc[1] # "idle"
        BY <1>2, <1>3, <2>3 DEF IInv, EntryInv
      <3>3. CASE c = under[2]
        BY <1>4, <2>3, <3>1, <3>3
      <3>4. CASE c = 0 /\ under[1] = 0 /\ pc[1] # "idle"
        <4>1. LevelOf(c) < 1
          BY <1>4, <3>4
        <4> QED
          BY <1>3, <2>3, <4>1
      <3> QED
        BY <3>2, <3>3, <3>4
    <2> QED
      BY <1>3, <2>1, <2>2, <2>3
  <1> QED
    BY <1>1, <1>3, <1>5

\* No two contexts are in a section of the same lock.
LEMMA OneHolder ==
  ASSUME IInv, NEW l \in Locks, NEW c \in Contexts, NEW d \in Contexts,
         Holding(c, l), Holding(d, l)
  PROVE  c = d
  <1>1. /\ \A e \in Contexts : Holding(e, l) => holds[e] # <<>> /\ e <= Target[l]
        /\ \A e \in Contexts : Holding(e, l) /\ e # cur => Target[l] < cur
    BY HeldBelowLevel, InterruptedHolder
  <1>2. cur \in 0..2 /\ c \in 0..2 /\ d \in 0..2 /\ Target[l] \in 1..2
    BY Constants DEF IInv, TypeOK, Contexts
  <1>3. holds[2] # <<>> => cur = 2
    BY <1>2 DEF IInv, EntryInv, Contexts
  <1>4. holds[0] = <<>> \/ holds[1] = <<>>
    BY StackFacts
  <1>5. Holding(2, l) => \A e \in Contexts : Holding(e, l) => e = 2
    <2> SUFFICES ASSUME Holding(2, l), NEW e \in Contexts, Holding(e, l), e # 2
                 PROVE  FALSE
      OBVIOUS
    <2>1. cur = 2 /\ 2 <= Target[l]
      BY <1>1, <1>3, ContextsFacts
    <2>2. Target[l] < 2
      BY <1>1, <2>1
    <2> QED
      BY <1>2, <2>1, <2>2
  <1> QED
    BY <1>1, <1>2, <1>4, <1>5

\* Holder in terms of Holding.
HolderInv ==
    \A l \in Locks :
        /\ \A c \in Contexts : Holding(c, l) => Holder[l] = c
        /\ (\A c \in Contexts : ~Holding(c, l)) => Holder[l] = -1

\* Holder names the context that holds the lock, or none.
LEMMA HolderIsHolding == IInv => HolderInv
  <1> SUFFICES ASSUME IInv, NEW l \in Locks
               PROVE  /\ \A c \in Contexts : Holding(c, l) => Holder[l] = c
                      /\ (\A c \in Contexts : ~Holding(c, l)) => Holder[l] = -1
    BY Zenon DEF HolderInv
  <1>1. Holder[l] = IF \E c \in Contexts : Holding(c, l)
                    THEN CHOOSE c \in Contexts : Holding(c, l) ELSE -1
    BY DEF Holder
  <1>2. ASSUME NEW c \in Contexts, Holding(c, l) PROVE Holder[l] = c
    <2>1. Holder[l] \in Contexts /\ Holding(Holder[l], l)
      BY <1>1, <1>2, Zenon
    <2> QED
      BY <1>2, <2>1, OneHolder
  <1> QED
    BY <1>1, <1>2

\* A step that touches no section keeps the holders.
LEMMA SameHolders ==
  ASSUME UNCHANGED holds
  PROVE  Holder' = Holder
  <1>1. \A l : (\E c \in Contexts : Holding(c, l))'
                   <=> \E c \in Contexts : Holding(c, l)
    BY DEF Holding
  <1>2. \A l : (CHOOSE c \in Contexts : Holding(c, l))'
                   = CHOOSE c \in Contexts : Holding(c, l)
    BY DEF Holding
  <1> QED
    BY <1>1, <1>2, Zenon DEF Holder

\* A step that changes the holder of one lock.
LEMMA HolderChange ==
  ASSUME NEW l \in Locks, NEW h, Holder'[l] = h,
         \A m \in Locks : m # l => Holder'[m] = Holder[m]
  PROVE  Holder' = [Holder EXCEPT ![l] = h]
  <1>1. Holder = [m \in Locks |-> Holder[m]] /\ Holder' = [m \in Locks |-> Holder'[m]]
    BY DEF Holder
  <1> QED
    BY <1>1

\* Others' sections stay, and so do the holders of all locks but the one.
LEMMA OtherHolders ==
  ASSUME HolderInv, HolderInv', NEW l \in Locks,
         \A c \in Contexts : \A m \in Locks : m # l => (Holding(c, m)' <=> Holding(c, m))
  PROVE  \A m \in Locks : m # l => Holder'[m] = Holder[m]
  <1> SUFFICES ASSUME NEW m \in Locks, m # l PROVE Holder'[m] = Holder[m]
    OBVIOUS
  <1>1. \A c \in Contexts : Holding(c, m)' <=> Holding(c, m)
    OBVIOUS
  <1>2. CASE \E c \in Contexts : Holding(c, m)
    <2>1. PICK c \in Contexts : Holding(c, m)
      BY <1>2
    <2>2. Holder[m] = c
      BY <2>1 DEF HolderInv
    <2>3. Holder'[m] = c
      <3>1. Holding(c, m)'
        BY <1>1, <2>1
      <3> QED
        BY <3>1 DEF HolderInv
    <2> QED
      BY <2>2, <2>3
  <1>3. CASE \A c \in Contexts : ~Holding(c, m)
    <2>1. Holder[m] = -1
      BY <1>3 DEF HolderInv
    <2>2. \A c \in Contexts : ~Holding(c, m)'
      BY <1>1, <1>3
    <2>3. Holder'[m] = -1
      BY <2>2 DEF HolderInv
    <2> QED
      BY <2>1, <2>3
  <1> QED
    BY <1>2, <1>3

\* cpsid takes a lock that is free.
LEMMA AcquireStep ==
  ASSUME IInv, HolderInv, HolderInv', DisableBoth
  PROVE  \E l \in Locks : SpinLock!Acquire(l)
  <1>0. PICK l \in Locks : l = lock[cur]
    BY DEF IInv, TypeOK
  <1>1. /\ cur \in Contexts /\ l \in Locks /\ pc[cur] = "cpsid" /\ cur' = cur
        /\ holds[cur] \in Seq(Locks)
        /\ holds' = [holds EXCEPT ![cur] = Append(holds[cur], l)]
        /\ holds \in [Contexts -> Seq(Locks)]
    BY <1>0 DEF IInv, TypeOK, DisableBoth, Step
  <1>2. cur <= Target[l] /\ ~Holding(cur, l) /\ cur \in 0..2 /\ Target[l] \in 1..2
    BY <1>0, <1>1, Constants DEF IInv, NestingInv, Contexts
  <1>3. \A c \in Contexts : ~Holding(c, l)
    <2> SUFFICES ASSUME NEW c \in Contexts, Holding(c, l) PROVE FALSE
      OBVIOUS
    <2>1. c # cur
      BY <1>2
    <2>2. Target[l] < cur
      BY <1>1, <2>1, InterruptedHolder
    <2> QED
      BY <1>2, <2>2
  <1>4. Holder[l] = -1
    BY <1>1, <1>3 DEF HolderInv
  <1>5. /\ holds'[cur] = Append(holds[cur], l)
        /\ \A c \in Contexts : c # cur => holds'[c] = holds[c]
    BY <1>1
  <1>6. PICK n \in Nat : n = Len(holds[cur])
    BY <1>1
  <1>7. /\ Len(holds'[cur]) = n + 1 /\ holds'[cur][n + 1] = l
        /\ \A i \in 1..n : holds'[cur][i] = holds[cur][i]
    BY <1>1, <1>5, <1>6, AppendFacts
  <1>8. Holder'[l] = cur
    <2>1. Holding(cur, l)'
      <3>1. n + 1 \in 1..Len(holds'[cur])
        BY <1>7
      <3> QED
        BY <1>1, <1>7, <3>1 DEF Holding
    <2> QED
      BY <1>1, <2>1 DEF HolderInv
  <1>9. \A c \in Contexts : \A m \in Locks : m # l => (Holding(c, m)' <=> Holding(c, m))
    <2> SUFFICES ASSUME NEW c \in Contexts, NEW m \in Locks, m # l
                 PROVE  (\E i \in 1..Len(holds'[c]) : holds'[c][i] = m)
                            <=> (\E i \in 1..Len(holds[c]) : holds[c][i] = m)
      BY DEF Holding
    <2>1. CASE c = cur
      <3>1. \A i \in 1..(n + 1) : i = n + 1 \/ i \in 1..n
        OBVIOUS
      <3>2. \A i \in 1..n : i \in 1..(n + 1)
        OBVIOUS
      <3> QED
        BY <1>6, <1>7, <2>1, <3>1, <3>2
    <2>2. CASE c # cur
      BY <1>5, <2>2
    <2> QED
      BY <2>1, <2>2
  <1>10. Holder' = [Holder EXCEPT ![l] = cur]
    BY <1>1, <1>8, <1>9, OtherHolders, HolderChange
  <1> QED
    BY <1>1, <1>2, <1>4, <1>10 DEF SpinLock!Acquire, SpinLock!Free

\* msr frees the lock of the innermost section.
LEMMA ReleaseStep ==
  ASSUME IInv, HolderInv, HolderInv', RestoreCPSR
  PROVE  \E l \in Locks : SpinLock!Release(l)
  <1>1. /\ cur \in Contexts /\ pc[cur] = "restore" /\ cur' = cur
        /\ holds[cur] \in Seq(Locks) /\ holds[cur] # <<>>
        /\ holds' = [holds EXCEPT ![cur] = Front(holds[cur])]
        /\ holds \in [Contexts -> Seq(Locks)]
    BY DEF IInv, TypeOK, NestingInv, LeavePCs, RestoreCPSR, Step
  <1>2. PICK n \in Nat : n = Len(holds[cur])
    BY <1>1
  <1>3. /\ n # 0 /\ holds[cur][n] \in Locks
        /\ Len(Front(holds[cur])) = n - 1
        /\ \A i \in 1..(n - 1) : Front(holds[cur])[i] = holds[cur][i]
    BY <1>1, <1>2, FrontFacts
  <1>11. PICK l \in Locks : l = holds[cur][n]
    BY <1>3
  <1>4. /\ Len(holds'[cur]) = n - 1
        /\ \A i \in 1..(n - 1) : holds'[cur][i] = holds[cur][i]
        /\ \A c \in Contexts : c # cur => holds'[c] = holds[c]
    BY <1>1, <1>3
  <1>5. Holding(cur, l)
    <2>1. n \in 1..Len(holds[cur])
      BY <1>2, <1>3
    <2> QED
      BY <1>3, <1>11, <2>1 DEF Holding
  <1>6. Holder[l] = cur
    BY <1>1, <1>3, <1>11, <1>5 DEF HolderInv
  <1>7. \A c \in Contexts : ~Holding(c, l)'
    <2> SUFFICES ASSUME NEW c \in Contexts, NEW i \in 1..Len(holds'[c]),
                        holds'[c][i] = l
                 PROVE  FALSE
      BY DEF Holding
    <2>1. CASE c = cur
      <3>1. i \in 1..(n - 1) /\ i \in 1..n /\ n \in 1..n /\ i < n
        BY <1>3, <1>11, <1>4, <2>1
      <3>2. holds[cur][i] # holds[cur][n]
        BY <1>1, <1>2, <3>1 DEF IInv, NestingInv
      <3> QED
        BY <1>3, <1>11, <1>4, <2>1, <3>1, <3>2
    <2>2. CASE c # cur
      <3>1. Holding(c, l)
        BY <1>4, <2>2 DEF Holding
      <3> QED
        BY <1>1, <1>3, <1>11, <1>5, <2>2, <3>1, OneHolder
    <2> QED
      BY <2>1, <2>2
  <1>8. Holder'[l] = -1
    BY <1>3, <1>11, <1>7 DEF HolderInv
  <1>9. \A c \in Contexts : \A m \in Locks : m # l => (Holding(c, m)' <=> Holding(c, m))
    <2> SUFFICES ASSUME NEW c \in Contexts, NEW m \in Locks, m # l
                 PROVE  (\E i \in 1..Len(holds'[c]) : holds'[c][i] = m)
                            <=> (\E i \in 1..Len(holds[c]) : holds[c][i] = m)
      BY DEF Holding
    <2>1. CASE c = cur
      <3>1. \A i \in 1..n : i = n \/ i \in 1..(n - 1)
        OBVIOUS
      <3>2. \A i \in 1..(n - 1) : i \in 1..n
        OBVIOUS
      <3> QED
        BY <1>2, <1>3, <1>11, <1>4, <2>1, <3>1, <3>2
    <2>2. CASE c # cur
      BY <1>4, <2>2
    <2> QED
      BY <2>1, <2>2
  <1>10. Holder' = [Holder EXCEPT ![l] = -1]
    BY <1>3, <1>11, <1>8, <1>9, OtherHolders, HolderChange
  <1> QED
    BY <1>1, <1>3, <1>11, <1>6, <1>10 DEF SpinLock!Release, SpinLock!Free

\* A handler only comes upon sections of locks that it never uses.
LEMMA PreemptStep ==
  ASSUME IInv, HolderInv, NEW c \in 1..2, Interrupt(c)
  PROVE  SpinLock!Preempt(c)
  <1>1. cur < c /\ LevelOf(cur) < c
    BY InterruptFacts
  <1>2. /\ cur' = c /\ UNCHANGED holds /\ cur \in Contexts /\ cur \in 0..2
        /\ LevelOf(cur) \in 0..2
    <2>1. TypeOK /\ cur \in Contexts
      BY DEF IInv, TypeOK
    <2> QED
      BY <2>1, LevelFacts DEF Interrupt, sectionVars, Contexts
  <1>3. ASSUME NEW l \in Locks, Holder[l] # -1 PROVE Target[l] < c
    <2>1. PICK d \in Contexts : Holding(d, l)
      BY <1>3 DEF HolderInv
    <2>2. Target[l] \in 1..2
      BY Constants
    <2>3. CASE d = cur
      <3>1. Target[l] <= LevelOf(cur)
        BY <2>1, <2>3, HeldBelowLevel
      <3> QED
        BY <1>1, <1>2, <2>2, <3>1
    <2>4. CASE d # cur
      <3>1. Target[l] < cur
        BY <2>1, <2>4, InterruptedHolder
      <3> QED
        BY <1>1, <1>2, <2>2, <3>1
    <2> QED
      BY <2>3, <2>4
  <1> QED
    BY <1>1, <1>2, <1>3, SameHolders DEF SpinLock!Preempt, SpinLock!Free

\* A handler that returns has left its sections.
LEMMA GiveBackStep ==
  ASSUME IInv, HolderInv, ReturnFromInterrupt
  PROVE  \E c \in Contexts : SpinLock!Return(c)
  <1>1. /\ cur' = under[cur] /\ UNCHANGED holds /\ cur \in 1..2
        /\ cur \in Contexts /\ under[cur] \in Contexts
        /\ pc[cur] = "run" /\ holds[cur] = <<>>
    BY DEF ReturnFromInterrupt, sectionVars, IInv, TypeOK
  <1>2. under[cur] < cur
    BY <1>1 DEF IInv, EntryInv
  <1>3. ASSUME NEW l \in Locks PROVE Holder[l] # cur
    <2>1. ~Holding(cur, l)
      BY <1>1 DEF Holding
    <2>2. CASE \E d \in Contexts : Holding(d, l)
      BY <2>1, <2>2 DEF HolderInv
    <2>3. CASE \A d \in Contexts : ~Holding(d, l)
      BY <1>1, <2>3 DEF HolderInv
    <2> QED
      BY <2>2, <2>3
  <1> QED
    BY <1>1, <1>2, <1>3, SameHolders DEF SpinLock!Return

\* EnterCritical and LeaveCritical on one stack of masks implement the locks:
\* each has one holder, and who comes between never uses it.
THEOREM RefinesSpinLocks == Spec => SpinLockSpec
  <1>1. Init => SpinLock!Init
    <2> SUFFICES ASSUME Init PROVE SpinLock!Init
      OBVIOUS
    <2>1. cur = 0 /\ \A c \in Contexts : holds[c] = <<>>
      BY DEF Init
    <2>2. \A c \in Contexts : \A l \in Locks : ~Holding(c, l)
      BY <2>1 DEF Holding
    <2>3. Holder = [l \in Locks |-> -1]
      BY <2>2 DEF Holder
    <2> QED
      BY <2>1, <2>3 DEF SpinLock!Init, SpinLock!Free
  <1>2. IInv => HolderInv
    BY HolderIsHolding
  <1>3. ASSUME IInv, HolderInv, HolderInv', [Next]_vars
        PROVE  [SpinLock!Next]_(SpinLock!vars)
    <2>1. CASE DisableBoth
      BY <1>3, <2>1, AcquireStep DEF SpinLock!Next
    <2>2. CASE RestoreCPSR
      BY <1>3, <2>2, ReleaseStep DEF SpinLock!Next
    <2>3. CASE \E c \in 1..2 : Interrupt(c)
      <3>1. PICK c \in 1..2 : SpinLock!Preempt(c)
        BY <1>3, <2>3, PreemptStep
      <3>2. c \in SpinLock!Levels
        BY DEF SpinLock!Levels
      <3> QED
        BY <3>1, <3>2 DEF SpinLock!Next
    <2>4. CASE ReturnFromInterrupt
      BY <1>3, <2>4, GiveBackStep DEF SpinLock!Next, SpinLock!Levels, Contexts
    <2>5. CASE UNCHANGED <<cur, holds>>
      BY <2>5, SameHolders DEF SpinLock!vars
    <2>6. CASE \/ \E l \in Locks : EnterCritical(l)
               \/ ReserveSlot \/ StoreCPSR \/ EnableFIQs
               \/ LeaveCritical \/ PopSlot \/ LoadCPSR \/ UNCHANGED vars
      <3>1. UNCHANGED <<cur, holds>>
        BY <2>6 DEF EnterCritical, ReserveSlot, StoreCPSR, EnableFIQs,
           LeaveCritical, PopSlot, LoadCPSR, Step, vars, cpuVars, sectionVars
      <3> QED
        BY <2>5, <3>1
    <2> QED
      BY <1>3, <2>1, <2>2, <2>3, <2>4, <2>6 DEF Next
  <1> QED
    BY <1>1, <1>2, <1>3, IInvHolds, PTL DEF Spec, SpinLockSpec, SpinLock!Spec
=============================================================================
