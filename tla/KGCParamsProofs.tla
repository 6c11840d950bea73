-------------------------- MODULE KGCParamsProofs --------------------------
(***************************************************************************)
(* Theorems about KGCParams, for any number of crashes, resets and failed  *)
(* accesses to the file and whatever the file held at first.               *)
(***************************************************************************)
EXTENDS KGCParams, TLAPS

InUse == pc = "serving" \/ resetting
Drawing == {"drawS", "drawPub", "truncate", "write"}

\* What memory and the file hold at each point of the program.
MemoryInv ==
    /\ resetting => pc \in Drawing /\ resets > 0
    /\ pc \in {"drawPub", "truncate", "write", "serving"} \/ resetting => s \in Nat
    /\ pc \in {"truncate", "write", "serving"} \/ resetting => pub \in [of : Nat]
    /\ pc \in {"truncate", "write", "serving"} => pub = Pub(s)
    /\ handler # Nil => InUse
    /\ pc = "write" => file = Torn
    /\ pc = "serving" /\ file \in Params => file.s = s
    /\ InUse /\ file \in Params => Valid(file)
    /\ resetting /\ pc # "write" => file = Absent
    /\ pc = "serving" /\ resets = 0 => file \in Params
    /\ resetting /\ pc = "drawS" => s \in retired

\* Without resets, an answer under way was begun with the key in memory.
AnswerInv ==
    /\ resets = 0 /\ handler # Nil =>
          handler.H = pub /\ (handler.s # Nil => handler.s = s)
    /\ AnswersVerify

\* The keys that answers were computed with, also those under way.
Issued(k) == (\E a \in answers : a.s = k) \/ (handler # Nil /\ handler.s = k)

\* Where an issued key is kept.  While the KGC serves it may be in memory;
\* before that it is in the file, and a new key is only drawn when no issued
\* one is.
KeptInv ==
    misreads = 0 /\ (resets = 0 \/ crashes = 0) =>
        \A k \in Nat : Issued(k) =>
            /\ file \in Params => Valid(file)
            /\ InUse => InFile(k) \/ s = k \/ k \in retired
            /\ ~InUse /\ pc \in Drawing => k \in retired
            /\ ~InUse /\ pc \notin Drawing => InFile(k) \/ k \in retired

----------------------------------------------------------------------------
LEMMA NoFile == /\ Absent \notin Params /\ Torn \notin Params /\ Absent # Torn
                /\ Nil \notin Nat
BY ParamsConstants

LEMMA PubInPoints == \A k \in Nat : Pub(k) \in [of : Nat] /\ Pub(k) \in Points
BY DEF Pub, Points

LEMMA ValidFile ==
    ASSUME Valid(file) PROVE file.s \in Nat /\ file.pub = Pub(file.s) /\ file \in Params
BY DEF Valid, Params

----------------------------------------------------------------------------
(* Types and memory.                                                       *)

LEMMA MemoryStart == Init => TypeOK /\ MemoryInv
<1> SUFFICES ASSUME Init PROVE TypeOK /\ MemoryInv
  OBVIOUS
<1>1. file \in {Absent, Torn} \cup Params
  BY PubInPoints DEF Init, Params, Points
<1>2. /\ crashes \in 0 .. MaxCrashes /\ resets \in 0 .. MaxResets
      /\ misreads \in 0 .. MaxMisreads /\ failures \in 0 .. MaxFailures
  BY ParamsConstants DEF Init
<1>3. pc \in Pcs /\ resetting \in BOOLEAN /\ drawn \in Nat
  BY DEF Init, Pcs
<1>4. s \in OrNil(Nat) /\ pub \in OrNil([of : Nat])
      /\ handler \in OrNil([H : [of : Nat], s : OrNil(Nat)])
  BY DEF Init, OrNil
<1>5. TypeOK
  BY <1>1, <1>2, <1>3, <1>4 DEF Init, TypeOK
<1>6. MemoryInv
  BY DEF Init, MemoryInv, InUse, Drawing
<1> QED BY <1>5, <1>6

LEMMA MemoryStep ==
    ASSUME TypeOK, MemoryInv, [Next]_vars PROVE TypeOK' /\ MemoryInv'
<1> USE NoFile DEF TypeOK, MemoryInv, InUse, Drawing, Pcs, OrNil
<1>1. CASE UNCHANGED vars
  BY <1>1 DEF vars, memory, answering, faults, Valid
<1>2. CASE Start
  BY <1>2 DEF Start, memory, answering, faults, Valid
<1>3. CASE Stat
  BY <1>3 DEF Stat, memory, answering, faults, Valid
<1>4. CASE Load
  <2>0. pc = "load" /\ ~resetting /\ handler = Nil
    BY <1>4 DEF Load
  <2>1. CASE Valid(file) /\ s' = file.s /\ pub' = file.pub /\ pc' = "serving"
             /\ UNCHANGED misreads
    <3>1. s' \in Nat /\ pub' = Pub(s') /\ pub' \in [of : Nat] /\ file \in Params
      BY <2>1, ValidFile, PubInPoints
    <3> QED BY <1>4, <2>0, <2>1, <3>1 DEF Load, answering, Valid
  <2>2. CASE pc' = "drawS" /\ UNCHANGED <<memory, misreads>>
    BY <1>4, <2>0, <2>2 DEF Load, answering, memory, Valid
  <2>3. CASE misreads < MaxMisreads /\ misreads' = misreads + 1 /\ pc' = "drawS"
             /\ UNCHANGED memory
    BY <1>4, <2>0, <2>3, ParamsConstants DEF Load, answering, memory, Valid
  <2> QED BY <1>4, <2>1, <2>2, <2>3 DEF Load
<1>5. CASE DrawS
  BY <1>5 DEF DrawS, answering, faults, Valid
<1>6. CASE DrawPub
  BY <1>6, PubInPoints DEF DrawPub, answering, faults, Valid
<1>7. CASE Truncate
  <2>1. CASE pc' = "write" /\ file' = Torn /\ UNCHANGED <<resetting, memory, failures>>
    BY <1>7, <2>1 DEF Truncate, memory, answering, Valid
  <2>2. CASE GiveUp /\ UNCHANGED file
    <3>1. failures' \in 0 .. MaxFailures /\ resets' \in 0 .. MaxResets
        /\ crashes' \in 0 .. MaxCrashes /\ misreads' \in 0 .. MaxMisreads
      BY <1>7, <2>2, ParamsConstants DEF Truncate, GiveUp, memory, answering, Valid
    <3>2. TypeOK'
      BY <1>7, <2>2, <3>1 DEF Truncate, GiveUp, memory, answering, Valid
    <3>3. MemoryInv'
      BY <1>7, <2>2, <3>1 DEF Truncate, GiveUp, memory, answering, Valid
    <3> QED BY <3>2, <3>3
  <2> QED BY <1>7, <2>1, <2>2 DEF Truncate
<1>8. CASE Write
  <2>0. pc = "write" /\ s \in Nat /\ pub = Pub(s) /\ pub \in [of : Nat]
    BY <1>8 DEF Write
  <2>1. CASE /\ file' = [s |-> s, pub |-> pub] /\ pc' = "serving"
             /\ resetting' = FALSE /\ UNCHANGED <<memory, failures>>
    <3>1. file' \in Params /\ file'.s = s /\ file'.pub = Pub(s)
      BY <2>0, <2>1, PubInPoints DEF Params
    <3> QED BY <1>8, <2>0, <2>1, <3>1 DEF Write, memory, answering, Valid
  <2>2. CASE GiveUp /\ UNCHANGED file
    <3>1. failures' \in 0 .. MaxFailures /\ resets' \in 0 .. MaxResets
        /\ crashes' \in 0 .. MaxCrashes /\ misreads' \in 0 .. MaxMisreads
      BY <1>8, <2>0, <2>2, ParamsConstants DEF Write, GiveUp, memory, answering, Valid
    <3>2. TypeOK'
      BY <1>8, <2>0, <2>2, <3>1 DEF Write, GiveUp, memory, answering, Valid
    <3>3. MemoryInv'
      BY <1>8, <2>0, <2>2, <3>1 DEF Write, GiveUp, memory, answering, Valid
    <3> QED BY <3>2, <3>3
  <2> QED BY <1>8, <2>1, <2>2 DEF Write
<1>9. CASE ResetParams
  <2>1. CASE file' = Absent /\ retired' = retired \cup {s} /\ resetting' = TRUE
             /\ pc' = "drawS" /\ UNCHANGED failures
    <3>1. failures' \in 0 .. MaxFailures /\ resets' \in 0 .. MaxResets
        /\ crashes' \in 0 .. MaxCrashes /\ misreads' \in 0 .. MaxMisreads
      BY <1>9, <2>1, ParamsConstants DEF ResetParams, memory, answering, Valid
    <3>2. TypeOK'
      BY <1>9, <2>1, <3>1 DEF ResetParams, memory, answering, Valid
    <3>3. MemoryInv'
      BY <1>9, <2>1, <3>1 DEF ResetParams, memory, answering, Valid
    <3> QED BY <3>2, <3>3
  <2>2. CASE failures < MaxFailures /\ failures' = failures + 1
             /\ UNCHANGED <<pc, resetting, file, retired>>
    BY <1>9, <2>2, ParamsConstants DEF ResetParams, memory, answering, Valid
  <2> QED BY <1>9, <2>1, <2>2 DEF ResetParams
<1>10. CASE Hash
  BY <1>10 DEF Hash, memory, faults, Valid
<1>11. CASE Multiply
  BY <1>11 DEF Multiply, memory, faults, Valid
<1>12. CASE Answer
  BY <1>12 DEF Answer, memory, faults, Valid
<1>13. CASE Crash
  <2>1. failures' \in 0 .. MaxFailures /\ resets' \in 0 .. MaxResets
      /\ crashes' \in 0 .. MaxCrashes /\ misreads' \in 0 .. MaxMisreads
    BY <1>13, ParamsConstants DEF Crash, Valid
  <2>2. TypeOK'
    BY <1>13, <2>1 DEF Crash, Valid
  <2>3. MemoryInv'
    BY <1>13, <2>1 DEF Crash, Valid
  <2> QED BY <2>2, <2>3
<1> QED
  BY <1>1, <1>2, <1>3, <1>4, <1>5, <1>6, <1>7, <1>8, <1>9, <1>10, <1>11, <1>12, <1>13
  DEF Next, Boot, Serve

LEMMA MemoryInvariant == Spec => [](TypeOK /\ MemoryInv)
BY MemoryStart, MemoryStep, PTL DEF Spec

\* What is in memory and in the file has its type at every point: nothing
\* but a file that parses and whose point fits is taken over (kgc.go:104).
THEOREM ParamsType == Spec => []TypeOK
BY MemoryInvariant, PTL

----------------------------------------------------------------------------
(* AnswersVerify.                                                          *)

LEMMA AnswerStep ==
    ASSUME TypeOK, MemoryInv, AnswerInv, [Next]_vars PROVE AnswerInv'
<1> USE NoFile DEF AnswerInv, AnswersVerify
<1>0. resets \in Nat /\ resets' \in Nat /\ (resets' = 0 => resets = 0)
  BY ParamsConstants DEF TypeOK, Next, Boot, Serve, vars, faults, Start, Stat, Load,
     DrawS, DrawPub, Truncate, Write, Hash, Multiply, Answer, ResetParams, Crash
<1> SUFFICES ASSUME resets = 0, resets' = 0 PROVE AnswerInv'
  BY <1>0
<1>1. ~resetting /\ (handler # Nil => pc = "serving")
  BY DEF MemoryInv, InUse
<1>2. \A a \in answers : Verifies(a)
  BY <1>0
<1>3. CASE UNCHANGED <<handler, answers, memory>>
  BY <1>3, <1>2 DEF memory, Verifies
<1>4. CASE Boot
  <2>1. handler = Nil
    BY <1>1, <1>4 DEF Boot, Start, Stat, Load, DrawS, DrawPub, Truncate, Write
  <2>2. UNCHANGED <<handler, answers>>
    BY <1>4 DEF Boot, Start, Stat, Load, DrawS, DrawPub, Truncate, Write, answering
  <2> QED BY <1>2, <2>1, <2>2 DEF Verifies
<1>5. CASE Hash
  BY <1>2, <1>5 DEF Hash, memory, Verifies
<1>6. CASE Multiply
  <2>1. handler.H = pub /\ handler \in [H : [of : Nat], s : OrNil(Nat)]
    BY <1>6 DEF Multiply, TypeOK, OrNil
  <2>2. handler'.H = pub /\ handler'.s = s
    BY <1>6, <2>1 DEF Multiply
  <2> QED BY <1>2, <1>6, <2>2 DEF Multiply, memory, Verifies
<1>7. CASE Answer
  <2>1. handler.H = pub /\ handler.s = s /\ pub = Pub(s)
    BY <1>1, <1>7 DEF Answer, MemoryInv
  <2> QED BY <1>2, <1>7, <2>1 DEF Answer, memory, Verifies
<1>8. CASE ResetParams
  BY <1>8, <1>0 DEF ResetParams
<1>9. CASE Crash
  BY <1>2, <1>9 DEF Crash, Verifies
<1> QED
  BY <1>3, <1>4, <1>5, <1>6, <1>7, <1>8, <1>9 DEF Next, Serve, vars, answering, memory

\* Every answer verifies under the key it was computed with, whatever the
\* file held and whenever the process was killed, unless ResetParams is used
\* (kgc.go:353-363).
THEOREM AnswersAreGood == Spec => []AnswersVerify
<1>1. Init => AnswerInv
  BY DEF Init, AnswerInv, AnswersVerify
<1>2. AnswerInv => AnswersVerify
  BY DEF AnswerInv
<1> QED BY <1>1, <1>2, AnswerStep, MemoryInvariant, PTL DEF Spec

----------------------------------------------------------------------------
(* IssuedKeyKept.                                                          *)

LEMMA KeptStep ==
    ASSUME TypeOK, MemoryInv, KeptInv, [Next]_vars PROVE KeptInv'
<1> USE NoFile DEF InUse, Drawing
<1>0. /\ misreads \in Nat /\ crashes \in Nat /\ resets \in Nat
      /\ misreads' = 0 => misreads = 0
      /\ crashes' = 0 => crashes = 0
      /\ resets' = 0 => resets = 0
  BY ParamsConstants DEF TypeOK, Next, Boot, Serve, vars, faults, Start, Stat, Load,
     DrawS, DrawPub, Truncate, Write, Hash, Multiply, Answer, ResetParams, Crash
<1> SUFFICES ASSUME misreads' = 0, resets' = 0 \/ crashes' = 0, NEW k \in Nat, Issued(k)'
             PROVE  /\ file' \in Params => Valid(file)'
                    /\ InUse' => InFile(k)' \/ s' = k \/ k \in retired'
                    /\ ~InUse' /\ pc' \in Drawing => k \in retired'
                    /\ ~InUse' /\ pc' \notin Drawing => InFile(k)' \/ k \in retired'
  BY DEF KeptInv
<1>k. Issued(k) =>
        /\ file \in Params => Valid(file)
        /\ InUse => InFile(k) \/ s = k \/ k \in retired
        /\ ~InUse /\ pc \in Drawing => k \in retired
        /\ ~InUse /\ pc \notin Drawing => InFile(k) \/ k \in retired
  BY <1>0 DEF KeptInv
<1>1. CASE UNCHANGED vars
  BY <1>1, <1>k DEF vars, memory, answering, Issued, Valid, InFile
<1>2. CASE Start
  BY <1>2, <1>k DEF Start, memory, answering, Issued, Valid, InFile, MemoryInv
<1>3. CASE Stat
  BY <1>3, <1>k DEF Stat, memory, answering, Issued, Valid, InFile, MemoryInv
<1>4. CASE Load
  <2>1. Issued(k) /\ pc = "load" /\ ~resetting /\ UNCHANGED <<resetting, file, retired>>
    BY <1>4 DEF Load, answering, Issued, MemoryInv
  <2>2. InFile(k) \/ k \in retired
    BY <1>k, <2>1
  <2>3. CASE Valid(file) /\ pc' = "serving"
    BY <2>1, <2>2, <2>3 DEF InFile, Valid
  <2>4. CASE ~Valid(file) /\ pc' = "drawS"
    BY <1>k, <2>1, <2>2, <2>4 DEF InFile, Valid
  <2>5. CASE misreads' = misreads + 1
    BY <1>0, <2>5
  <2> QED BY <1>4, <2>3, <2>4, <2>5 DEF Load
<1>5. CASE DrawS
  <2>1. Issued(k) /\ UNCHANGED <<resetting, file, retired>> /\ pc = "drawS"
        /\ pc' = "drawPub"
    BY <1>5 DEF DrawS, answering, Issued
  <2>2. resetting => file = Absent /\ s \in retired
    BY <2>1 DEF MemoryInv
  <2> QED BY <1>k, <2>1, <2>2 DEF InFile, Valid
<1>6. CASE DrawPub
  BY <1>6, <1>k DEF DrawPub, answering, Issued, InFile, Valid
<1>7. CASE Truncate
  <2>1. Issued(k) /\ retired' = retired /\ pc = "truncate"
    BY <1>7 DEF Truncate, answering, Issued
  <2>2. resetting => file = Absent
    BY <2>1 DEF MemoryInv
  <2>3. CASE pc' = "write" /\ file' = Torn /\ UNCHANGED <<resetting, memory>>
    BY <1>k, <2>1, <2>2, <2>3 DEF InFile, memory
  <2>4. CASE GiveUp /\ UNCHANGED file
    BY <1>k, <2>1, <2>2, <2>4 DEF InFile, memory, GiveUp, Valid
  <2> QED BY <1>7, <2>3, <2>4 DEF Truncate
<1>8. CASE Write
  <2>1. Issued(k) /\ retired' = retired /\ pc = "write" /\ file = Torn
        /\ s \in Nat /\ pub \in [of : Nat] /\ pub = Pub(s)
    BY <1>8 DEF Write, answering, Issued, MemoryInv
  <2>2. CASE /\ file' = [s |-> s, pub |-> pub] /\ pc' = "serving"
             /\ resetting' = FALSE /\ UNCHANGED memory
    <3>1. Valid(file)'
      BY <2>1, <2>2, PubInPoints DEF Valid, Params
    <3> QED BY <1>k, <2>1, <2>2, <3>1 DEF InFile, memory
  <2>3. CASE GiveUp /\ UNCHANGED file
    BY <1>k, <2>1, <2>3 DEF InFile, memory, GiveUp
  <2> QED BY <1>8, <2>2, <2>3 DEF Write
<1>9. CASE ResetParams
  <2>1. Issued(k) /\ pc = "serving" /\ s' = s /\ resetting = FALSE
    BY <1>9 DEF ResetParams, memory, answering, Issued, MemoryInv, TypeOK
  <2>2. InFile(k) \/ s = k \/ k \in retired
    BY <1>k, <2>1
  <2>3. file \in Params => file.s = s
    BY <2>1 DEF MemoryInv
  <2>4. CASE file' = Absent /\ retired' = retired \cup {s} /\ resetting' = TRUE
             /\ pc' = "drawS"
    BY <2>1, <2>2, <2>3, <2>4 DEF InFile
  <2>5. CASE UNCHANGED <<pc, resetting, file, retired>>
    BY <1>k, <2>1, <2>5 DEF InFile, Valid
  <2> QED BY <1>9, <2>4, <2>5 DEF ResetParams
<1>10. CASE Hash
  <2>1. Issued(k) /\ UNCHANGED <<pc, resetting, memory, file, retired>>
    BY <1>10 DEF Hash, Issued
  <2> QED BY <1>k, <2>1 DEF memory, InFile, Valid
<1>11. CASE Multiply
  <2>1. /\ UNCHANGED <<pc, resetting, memory, file, retired, answers>>
        /\ handler # Nil /\ handler \in [H : [of : Nat], s : OrNil(Nat)]
        /\ handler' = [handler EXCEPT !.s = s]
    BY <1>11 DEF Multiply, TypeOK, OrNil
  <2>2. handler'.s = s
    BY <2>1
  <2>3. InUse /\ (file \in Params => Valid(file))
    BY <2>1 DEF MemoryInv
  <2>4. CASE s = k
    BY <2>1, <2>3, <2>4 DEF memory, InFile, Valid
  <2>5. CASE Issued(k)
    BY <1>k, <2>1, <2>5 DEF memory, InFile, Valid
  <2> QED BY <2>1, <2>2, <2>4, <2>5 DEF Issued
<1>12. CASE Answer
  <2>1. UNCHANGED <<pc, resetting, memory, file, retired>> /\ Issued(k)
    BY <1>12 DEF Answer, Issued
  <2> QED BY <1>k, <2>1 DEF memory, InFile, Valid
<1>13. CASE Crash
  <2>1. Issued(k) /\ pc' = "down" /\ resetting' = FALSE /\ UNCHANGED <<file, retired>>
    BY <1>13 DEF Crash, Issued
  <2>2. resets = 0
    BY <1>0, <1>13 DEF Crash
  <2>3. ~resetting
    BY <1>0, <2>2 DEF MemoryInv
  <2>4. pc = "serving" => file \in Params /\ file.s = s
    BY <2>2 DEF MemoryInv
  <2> QED BY <1>k, <2>1, <2>3, <2>4 DEF InFile, Valid
<1> QED
  BY <1>1, <1>2, <1>3, <1>4, <1>5, <1>6, <1>7, <1>8, <1>9, <1>10, <1>11, <1>12, <1>13
  DEF Next, Boot, Serve

\* A key that entities hold answers under is never lost without a trace, as
\* long as the file can be read and no crash meets a reset (kgc.go:104, 172).
THEOREM KeysAreKept == Spec => []IssuedKeyKept
<1>1. Init => KeptInv
  BY DEF Init, KeptInv, Issued
<1>2. TypeOK /\ KeptInv => IssuedKeyKept
  <2> SUFFICES ASSUME TypeOK, KeptInv, misreads = 0, resets = 0 \/ crashes = 0,
                      NEW a \in answers
               PROVE  InFile(a.s) \/ s = a.s \/ a.s \in retired
    BY DEF IssuedKeyKept
  <2>1. a.s \in Nat /\ Issued(a.s)
    BY DEF TypeOK, Issued
  <2> QED BY <2>1 DEF KeptInv
<1> QED BY <1>1, <1>2, KeptStep, MemoryInvariant, PTL DEF Spec
============================================================================
