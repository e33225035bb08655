------------------------- MODULE Application_proofs -------------------------
(***************************************************************************)
(* Proofs about Application, for every set of generated applications whose *)
(* beans take only beans constructed before them.                          *)
(***************************************************************************)
EXTENDS Application, SequenceTheorems, NaturalsInduction, WellFoundedInduction, TLAPS

(* The registered cleanups are a stack in construction order, below every  *)
(* bean that was released.                                                 *)
StackInv ==
    /\ \A i, j \in 1 .. Len(cleanups) : i < j => cleanups[i] < cleanups[j]
    /\ \A i \in 1 .. Len(cleanups) : cleanups[i] \in armed \ released
    /\ \A k \in armed \ released : \E i \in 1 .. Len(cleanups) : cleanups[i] = k
    /\ \A i \in 1 .. Len(cleanups), r \in released : cleanups[i] < r

(* What the progress of the command says of the coordinator. *)
PhaseInv ==
    /\ pc \in {"execute", "configure", "construct", "constructed"} =>
         state = "constructed" /\ released = {} /\ ~serving /\ started = 0
    /\ pc = "start" => state = "starting" /\ released = {}
    /\ pc = "running" => state = "ready" /\ released = {}
    /\ pc = "stop" => \/ state \in {"constructed", "ready"} /\ released = {}
                      \/ state \in {"stopped", "failed"}
    /\ pc = "callbacks" => state = "stopping" /\ (stops # << >> => released = {})
    /\ state \in {"stopped", "failed"} => cleanups = << >> /\ ~serving

(* Whatever serves was started by a hook that will be stopped, or is the   *)
(* shell that the runner waits for.                                        *)
ServeInv ==
    /\ serving => released = {}
    /\ pc \in {"start", "running", "stop"} /\ serving =>
         \/ \E n \in 1 .. started : hooks[n].stops
         \/ pc = "running" /\ Applications[app].foreground = "shell"
    /\ pc = "callbacks" /\ serving => \E n \in 1 .. Len(stops) : hooks[stops[n]].stops

(* The replacements are among those of the layers. *)
OverrideInv ==
    /\ pc = "execute" => layers \in Applications[app].layers
    /\ \A k \in DOMAIN overrides : \E ls \in Applications[app].layers : \E i \in 1 .. Len(ls) :
         k \in DOMAIN ls[i].overrides /\ overrides[k] = ls[i].overrides[k]

(* Every bean that came with a cleanup has registered it, and the hooks    *)
(* run over a complete application.                                        *)
BuiltInv ==
    /\ \A k \in 1 .. built : Cleanup(k) # "none" => k \in armed
    /\ pc \in {"execute", "configure"} => built = 0
    /\ pc \in {"constructed", "start"} => built = Len(beans)

(* As long as plugin processes run, the cleanup that contains them is      *)
(* still to come.                                                          *)
PluginInv ==
    /\ plugins = "running" => \E k \in armed \ released : Cleanup(k) = "contain"
    /\ plugins = "escaped" => stopErr

(* What was not finished is recorded as an error, and a daemon is stopped  *)
(* without one only after its context was cancelled.                       *)
ExitInv ==
    /\ mode \in Applications[app].modes \cup {"check", "help", "invalid"}
    /\ exit # "none" => pc = "exited"
    /\ draining # {} => stopErr
    /\ state = "failed" => stopErr
    /\ pc = "callbacks" /\ callback = "failStart" => failed
    /\ mode = "serve" /\ ~failed /\ (pc = "stop" \/ (pc = "callbacks" /\ callback = "stop")) =>
         ctx = "done"
    /\ exit = "success" /\ mode # "help" =>
         /\ ~stopErr /\ state = "stopped"
         /\ mode = "serve" => ctx = "done"

IInv == TypeOK /\ StackInv /\ PhaseInv /\ ServeInv /\ OverrideInv /\ BuiltInv /\ PluginInv /\ ExitInv

-----------------------------------------------------------------------------
USE DEF vars, commandVars, beanVars, hookVars, errorVars

(* A stack without its top. *)
LEMMA PopProperties ==
    ASSUME NEW S, NEW q \in Seq(S), q # << >>
    PROVE  LET r == SubSeq(q, 1, Len(q) - 1) IN
           /\ r \in Seq(S) /\ Len(r) = Len(q) - 1
           /\ \A i \in 1 .. Len(r) : r[i] = q[i]
           /\ Len(q) \in Nat \ {0} /\ q[Len(q)] \in S
<1>1. Len(q) \in Nat \ {0} /\ q[Len(q)] \in S
  BY EmptySeq, LenProperties, ElementOfSeq
<1>2. \A i \in 1 .. Len(q) - 1 : q[i] \in S
  BY <1>1, ElementOfSeq
<1>3. Len(q) - 1 \in Int
  BY <1>1
<1>4. /\ SubSeq(q, 1, Len(q) - 1) \in Seq(S)
      /\ Len(SubSeq(q, 1, Len(q) - 1)) = IF 1 <= Len(q) - 1 THEN Len(q) - 1 - 1 + 1 ELSE 0
      /\ \A i \in 1 .. Len(q) - 1 - 1 + 1 : SubSeq(q, 1, Len(q) - 1)[i] = q[1 + i - 1]
  BY <1>2, <1>3, SubSeqProperties
<1> DEFINE r == SubSeq(q, 1, Len(q) - 1)
<1>5. r \in Seq(S)
  BY <1>4
<1>6. Len(r) = Len(q) - 1
  <2> HIDE DEF r
  <2>1. Len(r) = IF 1 <= Len(q) - 1 THEN Len(q) - 1 - 1 + 1 ELSE 0
    BY <1>4 DEF r
  <2>2. \A m, n \in Nat : n # 0 /\ m = (IF 1 <= n - 1 THEN n - 1 - 1 + 1 ELSE 0) => m = n - 1
    OBVIOUS
  <2>3. Len(r) \in Nat
    BY <1>5, LenProperties
  <2> QED
    BY <1>1, <2>1, <2>2, <2>3
<1>7. \A i \in 1 .. Len(r) : r[i] = q[i]
  <2> HIDE DEF r
  <2>1. \A i \in 1 .. Len(q) - 1 - 1 + 1 : r[i] = q[1 + i - 1]
    BY <1>4 DEF r
  <2> QED
    BY <1>1, <1>6, <2>1
<1> QED
  BY <1>1, <1>5, <1>6, <1>7

(* A cleanup changes only the released beans and the stack. *)
LEMMA CleaningTypes ==
    ASSUME TypeOK, NEW k, NEW how, Cleaning(k, how), draining' \subseteq released'
    PROVE  BeansOK' /\ HooksOK'
<1>1. WithoutLatest \in Seq(armed) /\ k \in armed
  BY PopProperties DEF TypeOK, BeansOK, Cleaning, Latest, WithoutLatest
<1>2. BeansOK'
  BY <1>1 DEF TypeOK, BeansOK, Cleaning, beans
<1>3. HooksOK'
  BY DEF TypeOK, HooksOK, Cleaning, hooks
<1> QED
  BY <1>2, <1>3

(* Only what an action says changes: the type of every variable. *)
LEMMA TypeStep == TypeOK /\ [Next]_vars => TypeOK'
<1> SUFFICES ASSUME TypeOK, [Next]_vars PROVE TypeOK'
  OBVIOUS
<1> USE DEF TypeOK, ProgressOK, FlagsOK, BeansOK, HooksOK, beans, hooks, Exit
<1> DEFINE B == Applications[app].beans
           H == Applications[app].hooks
<1>a. Len(B) \in Nat /\ Len(H) \in Nat
  BY BeansAssumption
<1>1. CASE Usage \/ GeneratedUsage
  BY <1>1 DEF Usage, GeneratedUsage
<1>2. CASE Unavailable \/ Execute \/ RunCommand
  <2>1. /\ UNCHANGED <<commandVars, ctx, stopCtx, state, beanVars, hookVars, callback, errorVars>>
        /\ \/ pc' = "configure" /\ exit' = exit
           \/ pc' = "exited" /\ exit' = "failure"
    <3>1. Compose \/ Refuse
      BY <1>2 DEF Unavailable, Execute, RunCommand
    <3>2. UNCHANGED <<commandVars, ctx, stopCtx, state, beanVars, hookVars, callback, errorVars>>
      BY <1>2 DEF Unavailable, Execute, RunCommand
    <3> QED
      BY <3>1, <3>2 DEF Compose, Refuse
  <2> QED
    BY <2>1 DEF commandVars, beanVars, hookVars, errorVars
<1>3. CASE Configure
  <2>1. CASE RunCallbacks("abort")
    BY <1>3, <2>1, <1>a DEF Configure, RunCallbacks, Backward
  <2>2. CASE ~RunCallbacks("abort")
    BY <1>3, <2>2 DEF Configure
  <2> QED
    BY <2>1, <2>2
<1>4. CASE Construct
  <2>1. ProgressOK'
    BY <1>4 DEF Construct, Register
  <2>2. FlagsOK'
    BY <1>4 DEF Construct, Register
  <2>3. BeansOK'
    <3>1. CASE built = Len(B)
      BY <1>4, <3>1 DEF Construct
    <3>2. CASE built # Len(B) /\ Cleanup(built + 1) = "none"
      <4>1. built' = built + 1 /\ UNCHANGED <<armed, cleanups, released, draining, app>>
        BY <1>4, <3>2 DEF Construct
      <4>2. built' \in 0 .. Len(B)
        BY <4>1, <3>2, <1>a
      <4>3. armed' \subseteq 1 .. built'
        BY <4>1
      <4> QED
        BY <4>1, <4>2, <4>3
    <3>3. CASE built # Len(B) /\ Cleanup(built + 1) # "none"
      <4>1. /\ built' = built + 1 /\ armed' = armed \cup {built + 1}
            /\ cleanups' = Append(cleanups, built + 1)
            /\ UNCHANGED <<released, draining, app>>
        BY <1>4, <3>3 DEF Construct, Register
      <4>2. cleanups \in Seq(armed') /\ built + 1 \in armed'
        BY <4>1, SeqMonotonic
      <4>3. cleanups' \in Seq(armed')
        BY <4>1, <4>2, AppendProperties
      <4> QED
        BY <4>1, <4>3, <1>a, <3>3
    <3> QED
      BY <3>1, <3>2, <3>3
  <2>4. HooksOK'
    BY <1>4, <1>a DEF Construct, Register
  <2> QED
    BY <2>1, <2>2, <2>3, <2>4
<1>5. CASE ConstructFails
  BY <1>5, <1>a DEF ConstructFails, RunCallbacks, Backward
<1>6. CASE Panics
  BY <1>6 DEF Panics
<1>7. CASE Checked
  BY <1>7 DEF Checked
<1>8. CASE Start
  BY <1>8 DEF Start
<1>9. CASE StartHook
  <2>1. ProgressOK'
    BY <1>9 DEF StartHook
  <2>2. FlagsOK'
    BY <1>9 DEF StartHook
  <2>3. BeansOK'
    BY <1>9 DEF StartHook
  <2>4. HooksOK'
    BY <1>9, <1>a DEF StartHook
  <2> QED
    BY <2>1, <2>2, <2>3, <2>4
<1>10. CASE StartFails
  BY <1>10, <1>a DEF StartFails, RunCallbacks, Backward
<1>11. CASE Ready
  <2>1. ProgressOK'
    BY <1>11 DEF Ready
  <2>2. FlagsOK'
    BY <1>11 DEF Ready
  <2>3. BeansOK'
    BY <1>11 DEF Ready
  <2>4. HooksOK'
    BY <1>11, <1>a DEF Ready
  <2> QED
    BY <2>1, <2>2, <2>3, <2>4
<1>12. CASE ForegroundEnds
  <2>1. ProgressOK'
    BY <1>12 DEF ForegroundEnds
  <2>2. FlagsOK'
    BY <1>12 DEF ForegroundEnds
  <2>3. BeansOK'
    BY <1>12 DEF ForegroundEnds
  <2>4. HooksOK'
    BY <1>12, <1>a DEF ForegroundEnds
  <2> QED
    BY <2>1, <2>2, <2>3, <2>4
<1>13. CASE Cancelled
  BY <1>13 DEF Cancelled
<1>14. CASE Ended
  <2>1. ProgressOK'
    BY <1>14 DEF Ended
  <2>2. FlagsOK'
    BY <1>14 DEF Ended
  <2>3. BeansOK'
    BY <1>14 DEF Ended
  <2>4. HooksOK'
    BY <1>14, <1>a DEF Ended
  <2> QED
    BY <2>1, <2>2, <2>3, <2>4
<1>15. CASE Stop
  BY <1>15, <1>a DEF Stop, RunCallbacks, Backward, FreshContext
<1>16. CASE \E drained \in BOOLEAN : StopHook(drained)
  <2> PICK drained \in BOOLEAN : StopHook(drained)
    BY <1>16
  <2>1. ProgressOK'
    BY DEF StopHook
  <2>2. FlagsOK'
    BY DEF StopHook, Returned
  <2>3. BeansOK'
    BY DEF StopHook
  <2>4. HooksOK'
    BY <1>a DEF StopHook
  <2> QED
    BY <2>1, <2>2, <2>3, <2>4
<1>17. CASE CleanupCloses
  <2> PICK k \in armed, ok \in BOOLEAN : Cleaning(k, "close") /\ Returned(ok)
    BY <1>17 DEF CleanupCloses
  <2>1. ProgressOK'
    BY <1>17 DEF CleanupCloses, Cleaning
  <2>2. FlagsOK'
    BY DEF Cleaning, Returned
  <2>3. draining' \subseteq released'
    BY <1>17 DEF CleanupCloses, Cleaning
  <2> QED
    BY <2>1, <2>2, <2>3, CleaningTypes
<1>18. CASE CleanupDrains
  <2> PICK k \in armed, ok \in BOOLEAN : Cleaning(k, "drain") /\ Returned(ok)
    BY <1>18 DEF CleanupDrains
  <2>1. ProgressOK'
    BY <1>18 DEF CleanupDrains, Cleaning
  <2>2. FlagsOK'
    BY DEF Cleaning, Returned
  <2>3. draining' \subseteq released'
    BY <1>18 DEF CleanupDrains, Cleaning
  <2> QED
    BY <2>1, <2>2, <2>3, CleaningTypes
<1>19. CASE CleanupExpires
  <2> PICK k \in armed, ok \in BOOLEAN : Cleaning(k, "drain") /\ Returned(ok)
    BY <1>19 DEF CleanupExpires
  <2>1. ProgressOK'
    BY <1>19 DEF CleanupExpires, Cleaning
  <2>2. FlagsOK'
    BY DEF Cleaning, Returned
  <2>3. draining' \subseteq released'
    BY <1>19 DEF CleanupExpires, Cleaning
  <2> QED
    BY <2>1, <2>2, <2>3, CleaningTypes
<1>20. CASE CleanupContains
  <2> PICK k \in armed, ok \in BOOLEAN : Cleaning(k, "contain") /\ Returned(ok)
    BY <1>20 DEF CleanupContains
  <2>1. ProgressOK'
    BY <1>20 DEF CleanupContains, Cleaning
  <2>2. FlagsOK'
    BY DEF Cleaning, Returned
  <2>3. draining' \subseteq released'
    BY <1>20 DEF CleanupContains, Cleaning
  <2> QED
    BY <2>1, <2>2, <2>3, CleaningTypes
<1>21. CASE CompleteTerminal
  BY <1>21 DEF CompleteTerminal
<1>22. CASE Return \/ ReadyNotWritten
  BY <1>22 DEF Return, ReadyNotWritten
<1>23. CASE Cancel
  BY <1>23 DEF Cancel
<1>24. CASE Expire
  BY <1>24 DEF Expire
<1>25. CASE DrainEnds
  BY <1>25 DEF DrainEnds
<1>26. CASE UNCHANGED vars
  BY <1>26
<1> QED
  BY <1>1, <1>2, <1>3, <1>4, <1>5, <1>6, <1>7, <1>8, <1>9, <1>10, <1>11, <1>12, <1>13, <1>14,
     <1>15, <1>16, <1>17, <1>18, <1>19, <1>20, <1>21, <1>22, <1>23, <1>24, <1>25, <1>26
  DEF Next, Callbacks
(* A cleanup pops the stack: the rest is still below what was released. *)
LEMMA CleaningStack ==
    ASSUME TypeOK, StackInv, NEW k, NEW how, Cleaning(k, how)
    PROVE  StackInv'
<1> DEFINE q == cleanups
           r == SubSeq(cleanups, 1, Len(cleanups) - 1)
<1>1. /\ r \in Seq(armed) /\ Len(r) = Len(q) - 1
      /\ \A i \in 1 .. Len(r) : r[i] = q[i]
      /\ Len(q) \in Nat \ {0} /\ q[Len(q)] \in armed
  BY PopProperties DEF TypeOK, BeansOK, Cleaning
<1>2. /\ cleanups' = r /\ released' = released \cup {k} /\ armed' = armed /\ k = q[Len(q)]
  BY DEF Cleaning, Latest, WithoutLatest
<1>3. /\ \A i, j \in 1 .. Len(q) : i < j => q[i] < q[j]
      /\ \A i \in 1 .. Len(q) : q[i] \in armed \ released
      /\ \A b \in armed \ released : \E i \in 1 .. Len(q) : q[i] = b
      /\ \A i \in 1 .. Len(q), b \in released : q[i] < b
  BY DEF StackInv
<1>n. armed \subseteq Nat
  BY DEF TypeOK, BeansOK
<1> HIDE DEF q, r
<1>4. \A i, j \in 1 .. Len(r) : i < j => r[i] < r[j]
  BY <1>1, <1>3
<1>5. \A i \in 1 .. Len(r) : i < Len(q) /\ r[i] < k
  BY <1>1, <1>2, <1>3
<1>6. ASSUME NEW i \in 1 .. Len(r) PROVE r[i] \in armed' \ released'
  <2>1. i \in 1 .. Len(q) /\ r[i] = q[i]
    BY <1>1
  <2>2. r[i] \in armed \ released
    BY <2>1, <1>3
  <2>3. r[i] \in Nat /\ r[i] < k
    BY <2>2, <1>n, <1>5
  <2>4. r[i] # k
    BY <2>3, <1>2, <1>1, <1>n
  <2> QED
    BY <2>2, <2>4, <1>2
<1>7. ASSUME NEW b \in armed' \ released' PROVE \E i \in 1 .. Len(r) : r[i] = b
  <2>1. PICK i \in 1 .. Len(q) : q[i] = b
    BY <1>2, <1>3, <1>7
  <2>2. i # Len(q)
    BY <2>1, <1>2, <1>7
  <2> QED
    BY <2>1, <2>2, <1>1
<1>8. \A i \in 1 .. Len(r), b \in released' : r[i] < b
  BY <1>1, <1>2, <1>3, <1>5
<1> QED
  BY <1>2, <1>4, <1>6, <1>7, <1>8 DEF StackInv

(* Construction pushes a later bean; nothing else touches the stack. *)
LEMMA StackStep == TypeOK /\ StackInv /\ PhaseInv /\ [Next]_vars => StackInv'
<1> SUFFICES ASSUME TypeOK, StackInv, PhaseInv, [Next]_vars PROVE StackInv'
  OBVIOUS
<1>1. CASE Construct /\ UNCHANGED <<armed, cleanups>>
  BY <1>1 DEF Construct, StackInv
<1>2. CASE Construct /\ ~UNCHANGED <<armed, cleanups>>
  <2> DEFINE k == built + 1
  <2>1. /\ armed' = armed \cup {k} /\ cleanups' = Append(cleanups, k)
        /\ released' = {} /\ released = {}
    BY <1>2 DEF Construct, Register, PhaseInv
  <2>2. armed \subseteq 1 .. built /\ built \in Nat /\ cleanups \in Seq(armed)
    BY BeansAssumption DEF TypeOK, BeansOK
  <2>3. cleanups \in Seq(armed') /\ k \in armed'
    BY <2>1, <2>2, SeqMonotonic
  <2>4. /\ Len(cleanups') = Len(cleanups) + 1
        /\ \A i \in 1 .. Len(cleanups) : cleanups'[i] = cleanups[i]
        /\ cleanups'[Len(cleanups) + 1] = k
        /\ Len(cleanups) \in Nat
    BY <2>1, <2>3, AppendProperties, LenProperties
  <2>5. \A i \in 1 .. Len(cleanups) : cleanups[i] \in armed /\ cleanups[i] < k
    <3> SUFFICES ASSUME NEW i \in 1 .. Len(cleanups)
                 PROVE  cleanups[i] \in armed /\ cleanups[i] < k
      OBVIOUS
    <3>1. cleanups[i] \in armed
      BY <2>2, ElementOfSeq
    <3>2. cleanups[i] \in 1 .. built
      BY <3>1, <2>2
    <3>3. \A n \in 1 .. built : n < k
      BY <2>2
    <3> QED
      BY <3>1, <3>2, <3>3
  <2>6. \A i, j \in 1 .. Len(cleanups') : i < j => cleanups'[i] < cleanups'[j]
    BY <2>4, <2>5 DEF StackInv
  <2>7. \A i \in 1 .. Len(cleanups') : cleanups'[i] \in armed' \ released'
    BY <2>1, <2>4, <2>5
  <2>8. ASSUME NEW b \in armed' \ released' PROVE \E i \in 1 .. Len(cleanups') : cleanups'[i] = b
    <3>1. CASE b = k
      BY <3>1, <2>4
    <3>2. CASE b # k
      <4>1. PICK i \in 1 .. Len(cleanups) : cleanups[i] = b
        BY <3>2, <2>1, <2>8 DEF StackInv
      <4> QED
        BY <4>1, <2>4
    <3> QED
      BY <3>1, <3>2
  <2> QED
    BY <2>1, <2>6, <2>7, <2>8 DEF StackInv
<1>3. CASE CleanupCloses \/ CleanupDrains \/ CleanupExpires \/ CleanupContains
  BY <1>3, CleaningStack DEF CleanupCloses, CleanupDrains, CleanupExpires, CleanupContains
<1>4. CASE UNCHANGED <<armed, cleanups, released>>
  BY <1>4 DEF StackInv
<1> QED
  BY <1>1, <1>2, <1>3, <1>4
  DEF Next, Callbacks, Usage, GeneratedUsage, Unavailable, Execute, RunCommand, Compose, Refuse, Configure,
      ConstructFails, Panics, Checked, Start,
      StartHook, StartFails, Ready, ForegroundEnds, Cancelled, Ended, Stop, StopHook,
      CompleteTerminal, Return, ReadyNotWritten, Cancel, Expire, DrainEnds
(* The coordinator and the command go through their states together. *)
LEMMA PhaseStep == TypeOK /\ PhaseInv /\ ServeInv /\ [Next]_vars => PhaseInv'
<1> SUFFICES ASSUME TypeOK, PhaseInv, ServeInv, [Next]_vars PROVE PhaseInv'
  OBVIOUS
<1> USE DEF PhaseInv, Exit
<1>1. CASE \/ Usage \/ GeneratedUsage \/ Unavailable \/ Execute \/ RunCommand \/ Panics \/ Checked \/ Start
          \/ ForegroundEnds \/ Ended \/ Return \/ ReadyNotWritten \/ Cancel
  BY <1>1 DEF Usage, GeneratedUsage, Unavailable, Execute, RunCommand, Compose, Refuse, Panics, Checked, Start,
              ForegroundEnds, Ended, Return, ReadyNotWritten, Cancel
<1>2. CASE Configure
  BY <1>2 DEF Configure, RunCallbacks
<1>3. CASE Construct
  <2>1. UNCHANGED <<state, released, serving, started, stops>>
    BY <1>3 DEF Construct
  <2>2. pc = "construct" /\ pc' \in {"construct", "constructed"}
    BY <1>3 DEF Construct
  <2> QED
    BY <2>1, <2>2
<1>4. CASE ConstructFails
  BY <1>4 DEF ConstructFails, RunCallbacks
<1>5. CASE StartHook
  BY <1>5 DEF StartHook
<1>6. CASE StartFails
  BY <1>6 DEF StartFails, RunCallbacks
<1>7. CASE Ready
  BY <1>7 DEF Ready
<1>8. CASE Cancelled
  BY <1>8 DEF Cancelled
<1>9. CASE Stop
  BY <1>9 DEF Stop, RunCallbacks
<1>10. CASE \E drained \in BOOLEAN : StopHook(drained)
  BY <1>10 DEF StopHook
<1>11. CASE CleanupCloses \/ CleanupDrains \/ CleanupExpires \/ CleanupContains
  BY <1>11 DEF CleanupCloses, CleanupDrains, CleanupExpires, CleanupContains, Cleaning
<1>12. CASE CompleteTerminal
  <2>1. pc = "callbacks" /\ stops = << >> /\ cleanups' = << >> /\ UNCHANGED <<stops, serving>>
    BY <1>12 DEF CompleteTerminal
  <2>2. ~serving
    BY <2>1 DEF ServeInv
  <2>3. state' \in {"stopped", "failed"} /\ pc' \in {"stop", "exited"}
    BY <1>12 DEF CompleteTerminal
  <2> QED
    BY <2>1, <2>2, <2>3
<1>13. CASE Expire
  BY <1>13 DEF Expire
<1>14. CASE DrainEnds
  BY <1>14 DEF DrainEnds
<1>15. CASE UNCHANGED vars
  BY <1>15
<1> QED
  BY <1>1, <1>2, <1>3, <1>4, <1>5, <1>6, <1>7, <1>8, <1>9, <1>10, <1>11, <1>12, <1>13, <1>14, <1>15
  DEF Next, Callbacks

(* The hooks that are to be stopped are those that were started. *)
LEMMA CallbacksServe ==
    ASSUME TypeOK, NEW who, RunCallbacks(who), UNCHANGED <<serving, released, app>>,
           serving => released = {} /\ \E n \in 1 .. started : hooks[n].stops
    PROVE  ServeInv'
<1>1. /\ started \in Nat /\ started <= Len(hooks)
      /\ pc' = "callbacks" /\ stops' = [i \in 1 .. started |-> started + 1 - i]
  BY BeansAssumption DEF TypeOK, ProgressOK, HooksOK, RunCallbacks, Backward, hooks
<1>2. ASSUME serving PROVE \E m \in 1 .. Len(stops') : hooks'[stops'[m]].stops
  <2>1. PICK n \in 1 .. started : hooks[n].stops
    BY <1>2
  <2>2. /\ started + 1 - n \in 1 .. started
        /\ stops'[started + 1 - n] = n
    BY <1>1
  <2>3. Len(stops') = started
    BY <1>1
  <2> QED
    BY <2>1, <2>2, <2>3 DEF hooks
<1> QED
  BY <1>1, <1>2 DEF ServeInv

(* Nothing is released under a transport or a shell that works. *)
LEMMA ServeStep == TypeOK /\ PhaseInv /\ ServeInv /\ [Next]_vars => ServeInv'
<1> SUFFICES ASSUME TypeOK, PhaseInv, ServeInv, [Next]_vars PROVE ServeInv'
  OBVIOUS
<1> USE DEF ServeInv, Exit
<1>1. CASE \/ Usage \/ GeneratedUsage \/ Unavailable \/ Execute \/ RunCommand \/ Panics \/ Checked \/ Start
          \/ Return \/ ReadyNotWritten
  BY <1>1 DEF Usage, GeneratedUsage, Unavailable, Execute, RunCommand, Compose, Refuse, Panics, Checked, Start,
              Return, ReadyNotWritten, PhaseInv
<1>2. CASE Configure
  <2>1. CASE RunCallbacks("abort")
    BY <2>1, <1>2, CallbacksServe DEF Configure, PhaseInv
  <2>2. CASE ~RunCallbacks("abort")
    BY <2>2, <1>2 DEF Configure, PhaseInv
  <2> QED
    BY <2>1, <2>2
<1>3. CASE Construct
  <2>1. ~serving /\ UNCHANGED serving
    BY <1>3 DEF Construct, PhaseInv
  <2> QED
    BY <2>1
<1>4. CASE ConstructFails
  BY <1>4, CallbacksServe DEF ConstructFails, PhaseInv
<1>5. CASE StartHook
  <2>1. /\ pc = "start" /\ pc' = "start" /\ released' = {} /\ started' = started + 1
        /\ started \in Nat /\ app' = app
    BY <1>5, BeansAssumption DEF StartHook, PhaseInv, TypeOK, ProgressOK, HooksOK, hooks
  <2>2. CASE hooks[started + 1].stops
    BY <2>1, <2>2 DEF hooks
  <2>3. CASE ~hooks[started + 1].stops
    <3>1. serving' = serving
      BY <1>5, <2>1, <2>3 DEF StartHook
    <3> QED
      BY <2>1, <3>1 DEF hooks
  <2> QED
    BY <2>2, <2>3
<1>6. CASE StartFails
  <2>1. serving => released = {} /\ \E n \in 1 .. started : hooks[n].stops
    BY <1>6 DEF StartFails
  <2> QED
    BY <2>1, <1>6, CallbacksServe DEF StartFails
<1>7. CASE Ready
  BY <1>7 DEF Ready, PhaseInv, hooks
<1>8. CASE ForegroundEnds
  BY <1>8 DEF ForegroundEnds
<1>9. CASE Cancelled
  BY <1>9 DEF Cancelled, hooks
<1>10. CASE Ended
  BY <1>10 DEF Ended
<1>11. CASE Stop
  <2>1. serving => released = {} /\ \E n \in 1 .. started : hooks[n].stops
    BY <1>11 DEF Stop
  <2> QED
    BY <2>1, <1>11, CallbacksServe DEF Stop
<1>12. CASE \E drained \in BOOLEAN : StopHook(drained)
  <2> PICK drained \in BOOLEAN : StopHook(drained)
    BY <1>12
  <2>1. /\ pc = "callbacks" /\ pc' = pc /\ released' = released /\ app' = app
        /\ stops \in Seq(1 .. Len(hooks)) /\ stops # << >> /\ stops' = Tail(stops)
    BY DEF StopHook, TypeOK, HooksOK
  <2>2. CASE hooks[Head(stops)].stops
    <3>1. serving' = FALSE
      BY <2>2 DEF StopHook
    <3> QED
      BY <3>1
  <2>3. CASE ~hooks[Head(stops)].stops
    <3>1. serving' = serving
      BY <2>3 DEF StopHook
    <3>2. /\ Len(Tail(stops)) = Len(stops) - 1 /\ Len(stops) \in Nat
          /\ \A i \in 1 .. Len(Tail(stops)) : Tail(stops)[i] = stops[i + 1]
          /\ Head(stops) = stops[1]
      BY <2>1, HeadTailProperties, LenProperties
    <3>3. ASSUME serving PROVE \E m \in 1 .. Len(stops') : hooks[stops'[m]].stops
      <4>1. PICK n \in 1 .. Len(stops) : hooks[stops[n]].stops
        BY <3>3, <2>1
      <4>2. n # 1
        BY <4>1, <3>2, <2>3
      <4>3. n - 1 \in 1 .. Len(stops') /\ stops'[n - 1] = stops[n]
        BY <4>2, <3>2, <2>1
      <4> QED
        BY <4>1, <4>3
    <3> QED
      BY <2>1, <3>1, <3>3 DEF hooks
  <2> QED
    BY <2>2, <2>3
<1>13. CASE CleanupCloses \/ CleanupDrains \/ CleanupExpires \/ CleanupContains
  <2>1. pc = "callbacks" /\ pc' = pc /\ stops = << >> /\ UNCHANGED serving
    BY <1>13 DEF CleanupCloses, CleanupDrains, CleanupExpires, CleanupContains, Cleaning
  <2>2. ~serving
    BY <2>1
  <2> QED
    BY <2>1, <2>2
<1>14. CASE CompleteTerminal
  <2>1. pc = "callbacks" /\ stops = << >> /\ UNCHANGED serving
    BY <1>14 DEF CompleteTerminal
  <2>2. ~serving
    BY <2>1
  <2> QED
    BY <2>1, <2>2
<1>15. CASE Cancel \/ Expire \/ DrainEnds \/ UNCHANGED vars
  BY <1>15 DEF Cancel, Expire, DrainEnds, hooks
<1> QED
  BY <1>1, <1>2, <1>3, <1>4, <1>5, <1>6, <1>7, <1>8, <1>9, <1>10, <1>11, <1>12, <1>13, <1>14, <1>15
  DEF Next, Callbacks

(* A nonempty set of layers has a last one. *)
LEMMA LastLayer ==
    ASSUME NEW n \in Nat, NEW S \in SUBSET (1 .. n), S # {}
    PROVE  \E i \in S : \A j \in S : j <= i
<1> DEFINE T == {n - i : i \in S}
<1>1. T \subseteq Nat /\ T # {}
  <2>1. \A i \in S : n - i \in Nat
    OBVIOUS
  <2>2. PICK i \in S : TRUE
    OBVIOUS
  <2>3. n - i \in T
    BY <2>2
  <2> QED
    BY <2>1, <2>3
<1>2. PICK x \in T : \A y \in T : ~ (<<y, x>> \in OpToRel(<, Nat))
  BY <1>1, NatLessThanWellFounded, WFMin
<1>3. PICK i \in S : x = n - i
  OBVIOUS
<1>4. ASSUME NEW j \in S PROVE j <= i
  <2>1. n - j \in T /\ n - j \in Nat /\ x \in Nat
    BY <1>1
  <2>2. ~ (n - j < x)
    BY <2>1, <1>2 DEF OpToRel
  <2> QED
    BY <2>1, <2>2, <1>3
<1> QED
  BY <1>4

(* A composed replacement is that of one of the layers. *)
LEMMA Composed ==
    ASSUME NEW ls, Len(ls) \in Nat, NEW k \in DOMAIN ComposeBeanOverrides(ls)
    PROVE  \E i \in 1 .. Len(ls) :
              /\ k \in DOMAIN ls[i].overrides
              /\ ComposeBeanOverrides(ls)[k] = ls[i].overrides[k]
<1>1. /\ Setting(ls, k) \in SUBSET (1 .. Len(ls)) /\ Setting(ls, k) # {}
  BY DEF ComposeBeanOverrides, Setting
<1>2. \E i \in Setting(ls, k) : \A j \in Setting(ls, k) : j <= i
  BY <1>1, LastLayer
<1> DEFINE last == CHOOSE i \in Setting(ls, k) : \A j \in Setting(ls, k) : j <= i
<1>3. last \in Setting(ls, k)
  BY <1>2
<1>4. ComposeBeanOverrides(ls)[k] = ls[last].overrides[k]
  BY DEF ComposeBeanOverrides
<1> QED
  BY <1>3, <1>4 DEF Setting

(* Only Compose sets replacements, and it takes them from the layers. *)
LEMMA OverrideStep == TypeOK /\ OverrideInv /\ [Next]_vars => OverrideInv'
<1> SUFFICES ASSUME TypeOK, OverrideInv, [Next]_vars PROVE OverrideInv'
  OBVIOUS
<1>1. CASE Unavailable \/ Execute \/ RunCommand
  <2>1. /\ pc = "execute" /\ pc' # "execute" /\ app' = app
        /\ overrides' = ComposeBeanOverrides(layers) \/ overrides' = overrides
    BY <1>1 DEF Unavailable, Execute, RunCommand, Compose, Refuse, Exit
  <2>2. CASE overrides' = overrides
    BY <2>1, <2>2 DEF OverrideInv
  <2>3. CASE overrides' = ComposeBeanOverrides(layers)
    <3>1. layers \in Applications[app].layers /\ Len(layers) \in Nat
      BY <2>1, LayersAssumption DEF OverrideInv, TypeOK, ProgressOK
    <3> QED
      BY <2>1, <2>3, <3>1, Composed DEF OverrideInv
  <2> QED
    BY <2>1, <2>2, <2>3
<1>2. CASE UNCHANGED <<overrides, layers, app>> /\ (pc' = "execute" => pc = "execute")
  BY <1>2 DEF OverrideInv
<1>3. CASE Construct
  BY <1>3, <1>2 DEF Construct
<1>4. CASE Configure
  BY <1>4, <1>2 DEF Configure, RunCallbacks, Exit
<1>5. CASE CompleteTerminal
  BY <1>5, <1>2 DEF CompleteTerminal, Exit
<1>6. CASE \E drained \in BOOLEAN : StopHook(drained)
  BY <1>6, <1>2 DEF StopHook
<1>7. CASE CleanupCloses \/ CleanupDrains \/ CleanupExpires \/ CleanupContains
  BY <1>7, <1>2 DEF CleanupCloses, CleanupDrains, CleanupExpires, CleanupContains, Cleaning
<1> QED
  BY <1>1, <1>2, <1>3, <1>4, <1>5, <1>6, <1>7
  DEF Next, Callbacks, Usage, GeneratedUsage, Exit, ConstructFails, RunCallbacks, Panics, Checked, Start,
      StartHook, StartFails, Ready, ForegroundEnds, Cancelled, Ended, Stop,
      Return, ReadyNotWritten, Cancel, Expire, DrainEnds

(* The cleanup of a bean is settled when the replacements are composed. *)
LEMMA CleanupStep ==
    ASSUME [Next]_vars, pc # "execute"
    PROVE  /\ UNCHANGED <<app, mode, overrides>>
           /\ \A k : Cleanup(k)' = Cleanup(k)
<1>1. UNCHANGED <<app, mode, overrides>>
  <2>1. CASE CleanupCloses \/ CleanupDrains \/ CleanupExpires \/ CleanupContains
    BY <2>1 DEF CleanupCloses, CleanupDrains, CleanupExpires, CleanupContains, Cleaning
  <2>2. CASE \E drained \in BOOLEAN : StopHook(drained)
    BY <2>2 DEF StopHook
  <2>3. CASE Construct \/ Configure \/ CompleteTerminal
    BY <2>3 DEF Construct, Configure, CompleteTerminal
  <2> QED
    BY <2>1, <2>2, <2>3
    DEF Next, Callbacks, Usage, GeneratedUsage, Unavailable, Execute, RunCommand,
        ConstructFails, Panics, Checked, Start, StartHook,
        StartFails, Ready, ForegroundEnds, Cancelled, Ended, Stop, Return, ReadyNotWritten,
        Cancel, Expire, DrainEnds
<1> QED
  BY <1>1 DEF Cleanup, beans

(* Construction registers what it builds. *)
LEMMA BuiltStep == TypeOK /\ BuiltInv /\ [Next]_vars => BuiltInv'
<1> SUFFICES ASSUME TypeOK, BuiltInv, [Next]_vars PROVE BuiltInv'
  OBVIOUS
<1> USE DEF BuiltInv
<1>a. built \in Nat
  BY BeansAssumption DEF TypeOK, ProgressOK, BeansOK, beans
<1>1. CASE Usage \/ GeneratedUsage \/ Unavailable \/ Execute \/ RunCommand
  <2>1. built = 0 /\ built' = 0 /\ pc' \in {"configure", "exited"}
    BY <1>1 DEF Usage, GeneratedUsage, Unavailable, Execute, RunCommand, Compose, Refuse, Exit
  <2> QED
    BY <2>1
<1>2. CASE Construct
  <2>1. /\ UNCHANGED app /\ \A k : Cleanup(k)' = Cleanup(k)
    BY <1>2, CleanupStep DEF Construct
  <2>2. CASE built = Len(beans)
    <3>1. UNCHANGED <<built, armed>> /\ pc' = "constructed"
      BY <1>2, <2>2 DEF Construct
    <3> QED
      BY <2>1, <2>2, <3>1 DEF beans
  <2>3. CASE built # Len(beans)
    <3>1. /\ built' = built + 1 /\ pc' = "construct"
          /\ Cleanup(built + 1) # "none" => armed' = armed \cup {built + 1}
          /\ armed \subseteq armed'
      BY <1>2, <2>3 DEF Construct
    <3>2. ASSUME NEW k \in 1 .. built', Cleanup(k)' # "none" PROVE k \in armed'
      <4>1. CASE k = built + 1
        BY <4>1, <3>1, <3>2, <2>1
      <4>2. CASE k \in 1 .. built
        BY <4>2, <3>1, <3>2, <2>1
      <4> QED
        BY <4>1, <4>2, <3>1, <1>a
    <3> QED
      BY <3>1, <3>2
  <2> QED
    BY <2>2, <2>3
<1>3. CASE /\ UNCHANGED <<built, armed, app, mode, overrides>>
           /\ pc' \in {"execute", "configure"} => pc' = pc
           /\ pc' \in {"constructed", "start"} => pc \in {"constructed", "start"}
  <2>1. \A k : Cleanup(k)' = Cleanup(k)
    BY <1>3 DEF Cleanup, beans
  <2> QED
    BY <2>1, <1>3 DEF beans
<1>4. CASE Configure
  <2>1. built' = 0
    BY <1>4 DEF Configure
  <2>2. pc' \notin {"execute", "configure", "constructed", "start"}
    BY <1>4 DEF Configure, RunCallbacks, Exit
  <2> QED
    BY <2>1, <2>2
<1>5. CASE CompleteTerminal
  BY <1>5, <1>3 DEF CompleteTerminal, Exit
<1>6. CASE \E drained \in BOOLEAN : StopHook(drained)
  BY <1>6, <1>3 DEF StopHook
<1>7. CASE CleanupCloses \/ CleanupDrains \/ CleanupExpires \/ CleanupContains
  BY <1>7, <1>3 DEF CleanupCloses, CleanupDrains, CleanupExpires, CleanupContains, Cleaning
<1> QED
  BY <1>1, <1>2, <1>3, <1>4, <1>5, <1>6, <1>7
  DEF Next, Callbacks, Exit, ConstructFails, RunCallbacks, Panics, Checked, Start,
      StartHook, StartFails, Ready, ForegroundEnds, Cancelled, Ended, Stop,
      Return, ReadyNotWritten, Cancel, Expire, DrainEnds

(* The host outlives the plugins it contains. *)
LEMMA PluginStep ==
    TypeOK /\ PhaseInv /\ OverrideInv /\ BuiltInv /\ PluginInv /\ [Next]_vars => PluginInv'
<1> SUFFICES ASSUME TypeOK, PhaseInv, OverrideInv, BuiltInv, PluginInv, [Next]_vars PROVE PluginInv'
  OBVIOUS
<1>1. CASE pc = "execute"
  <2>1. /\ UNCHANGED <<plugins, stopErr>>
        /\ built = 0
    BY <1>1 DEF Next, Callbacks, BuiltInv, Usage, GeneratedUsage, Unavailable, Execute, RunCommand, Configure,
        Construct, ConstructFails, Panics, Checked, Start, StartHook,
        StartFails, Ready, ForegroundEnds, Cancelled, Ended, Stop, Return, ReadyNotWritten,
        Cancel, Expire, DrainEnds, StopHook, CleanupCloses, CleanupDrains, CleanupExpires,
        CleanupContains, Cleaning, CompleteTerminal
  <2>2. armed = {}
    BY <2>1 DEF TypeOK, BeansOK
  <2> QED
    BY <2>1, <2>2 DEF PluginInv
<1> SUFFICES ASSUME pc # "execute" PROVE PluginInv'
  BY <1>1
<1>2. /\ UNCHANGED <<app, mode, overrides>> /\ \A k : Cleanup(k)' = Cleanup(k)
  BY CleanupStep
<1>3. CASE /\ armed \subseteq armed' /\ released' = released
           /\ UNCHANGED plugins /\ (stopErr => stopErr')
  BY <1>2, <1>3 DEF PluginInv
<1>4. CASE CleanupCloses \/ CleanupDrains \/ CleanupExpires
  <2>1. PICK k \in armed, how \in {"close", "drain"} : Cleaning(k, how)
    BY <1>4 DEF CleanupCloses, CleanupDrains, CleanupExpires
  <2>2. Cleanup(k) # "contain" /\ released' = released \cup {k} /\ armed' = armed
    BY <2>1 DEF Cleaning
  <2>3. plugins' = plugins /\ (stopErr => stopErr')
    BY <1>4 DEF CleanupCloses, CleanupDrains, CleanupExpires, Returned
  <2> QED
    BY <1>2, <2>2, <2>3 DEF PluginInv
<1>5. CASE CleanupContains
  <2>1. plugins' = "contained" \/ (plugins' = "escaped" /\ stopErr')
    BY <1>5 DEF CleanupContains, Returned
  <2> QED
    BY <2>1 DEF PluginInv
<1>6. CASE StartHook \/ StartFails
  <2>1. /\ pc = "start" /\ UNCHANGED <<armed, released, stopErr>>
        /\ UNCHANGED plugins \/ (plugins' \in {"none", "running"}
              /\ started + 1 \in 1 .. Len(hooks) /\ ~hooks[started + 1].stops)
    <3>1. started \in Nat /\ Len(hooks) \in Nat
      BY BeansAssumption DEF TypeOK, ProgressOK, HooksOK, hooks
    <3> QED
      BY <1>6, <3>1 DEF StartHook, StartFails
  <2>2. CASE UNCHANGED plugins
    BY <1>3, <2>1, <2>2
  <2>3. CASE ~UNCHANGED plugins
    <3>1. PICK k \in 1 .. Len(beans) :
             /\ beans[k].cleanup = "contain"
             /\ \A ls \in Applications[app].layers : \A i \in 1 .. Len(ls) :
                  k \in DOMAIN ls[i].overrides => ls[i].overrides[k] = "contain"
      BY <2>1, <2>3, PluginHostAssumption DEF TypeOK, ProgressOK, hooks, beans
    <3>2. Cleanup(k) = "contain"
      BY <3>1 DEF Cleanup, OverrideInv
    <3>3. k \in armed /\ released = {}
      BY <2>1, <3>1, <3>2 DEF BuiltInv, PhaseInv
    <3> QED
      BY <1>2, <2>1, <2>3, <3>2, <3>3 DEF PluginInv
  <2> QED
    BY <2>2, <2>3
<1>7. CASE Construct
  <2>1. armed \subseteq armed' /\ UNCHANGED <<released, plugins, stopErr>>
    BY <1>7 DEF Construct
  <2> QED
    BY <2>1, <1>3
<1>8. CASE Configure \/ CompleteTerminal
  <2>1. UNCHANGED <<armed, released, plugins>>
    BY <1>8 DEF Configure, CompleteTerminal
  <2>2. stopErr' = stopErr \/ stopErr' = (stopErr \/ callback # "stop")
    BY <1>8 DEF Configure, CompleteTerminal
  <2>3. stopErr => stopErr'
    BY <2>2 DEF TypeOK, FlagsOK
  <2> QED
    BY <2>1, <2>3, <1>3
<1>9. CASE \E drained \in BOOLEAN : StopHook(drained)
  <2>1. PICK drained \in BOOLEAN : StopHook(drained)
    BY <1>9
  <2>2. UNCHANGED <<armed, released, plugins>>
    BY <2>1 DEF StopHook
  <2>3. stopErr' = stopErr \/ \E ok \in BOOLEAN : stopErr' = (stopErr \/ ~ok)
    BY <2>1 DEF StopHook, Returned
  <2>4. stopErr => stopErr'
    BY <2>3 DEF TypeOK, FlagsOK
  <2> QED
    BY <2>2, <2>4, <1>3
<1>10. CASE \/ Usage \/ GeneratedUsage \/ ConstructFails \/ Panics \/ Checked \/ Start
           \/ Ready \/ ForegroundEnds \/ Cancelled \/ Ended \/ Stop
           \/ Return \/ ReadyNotWritten \/ Cancel \/ Expire \/ DrainEnds
  <2>1. UNCHANGED <<armed, released, plugins, stopErr>>
    BY <1>10 DEF Usage, GeneratedUsage, ConstructFails, RunCallbacks, Panics, Checked, Start,
      Ready, ForegroundEnds, Cancelled, Ended, Stop,
      Return, ReadyNotWritten, Cancel, Expire, DrainEnds
  <2> QED
    BY <2>1, <1>3
<1>11. CASE UNCHANGED vars
  <2>1. UNCHANGED <<armed, released, plugins, stopErr>>
    BY <1>11
  <2> QED
    BY <2>1, <1>3
<1>12. CASE Unavailable \/ Execute \/ RunCommand
  BY <1>12 DEF Unavailable, Execute, RunCommand
<1> QED
  BY <1>4, <1>5, <1>6, <1>7, <1>8, <1>9, <1>10, <1>11, <1>12
  DEF Next, Callbacks

(* No error is lost on the way to the exit code. *)
LEMMA ExitStep == TypeOK /\ PhaseInv /\ ExitInv /\ [Next]_vars => ExitInv'
<1> SUFFICES ASSUME TypeOK, PhaseInv, ExitInv, [Next]_vars PROVE ExitInv'
  OBVIOUS
<1> USE DEF ExitInv, Exit
<1>1. CASE Usage \/ GeneratedUsage
  BY <1>1 DEF Usage, GeneratedUsage
<1>2. CASE Unavailable \/ Execute \/ RunCommand
  BY <1>2 DEF Unavailable, Execute, RunCommand, Compose, Refuse
<1>3. CASE Configure \/ ConstructFails
  BY <1>3 DEF Configure, ConstructFails, RunCallbacks
<1>4. CASE Construct
  <2>1. /\ UNCHANGED <<commandVars, exit, ctx, state, draining, callback, errorVars>>
        /\ pc = "construct" /\ pc' \in {"construct", "constructed"}
    BY <1>4 DEF Construct
  <2> QED
    BY <2>1
<1>5. CASE Panics \/ Start \/ StartHook \/ Ready \/ ForegroundEnds
  BY <1>5 DEF Panics, Start, StartHook, Ready, ForegroundEnds
<1>6. CASE Checked
  BY <1>6 DEF Checked
<1>7. CASE StartFails
  BY <1>7 DEF StartFails, RunCallbacks
<1>8. CASE Cancelled
  BY <1>8 DEF Cancelled
<1>9. CASE Ended
  <2>1. mode = "serve" => Applications[app].foreground # "shell"
    BY ModesAssumption DEF TypeOK, ProgressOK
  <2> QED
    BY <1>9, <2>1 DEF Ended
<1>10. CASE Stop
  BY <1>10 DEF Stop, RunCallbacks
<1>11. CASE \E drained \in BOOLEAN : StopHook(drained)
  <2>1. PICK drained \in BOOLEAN : StopHook(drained)
    BY <1>11
  <2>2. UNCHANGED <<commandVars, pc, exit, ctx, state, draining, callback, failed>>
    BY <2>1 DEF StopHook
  <2>3. stopErr' = stopErr \/ \E ok \in BOOLEAN : stopErr' = (stopErr \/ ~ok)
    BY <2>1 DEF StopHook, Returned
  <2>4. pc = "callbacks" /\ (stopErr => stopErr')
    BY <2>1, <2>3 DEF StopHook
  <2> QED
    BY <2>2, <2>4
<1>12. CASE CleanupCloses \/ CleanupDrains \/ CleanupContains
  <2>1. /\ UNCHANGED <<commandVars, pc, exit, ctx, state, draining, callback, failed>>
        /\ pc = "callbacks"
    BY <1>12 DEF CleanupCloses, CleanupDrains, CleanupContains, Cleaning
  <2>2. PICK ok \in BOOLEAN : stopErr' = (stopErr \/ ~ok)
    BY <1>12 DEF CleanupCloses, CleanupDrains, CleanupContains, Returned
  <2>3. stopErr => stopErr'
    BY <2>2
  <2> QED
    BY <2>1, <2>3
<1>13. CASE CleanupExpires
  <2>1. /\ UNCHANGED <<commandVars, pc, exit, ctx, state, callback, failed>>
        /\ pc = "callbacks" /\ stopErr'
    BY <1>13 DEF CleanupExpires, Cleaning, Returned
  <2> QED
    BY <2>1
<1>14. CASE CompleteTerminal
  <2>1. callback \in {"none", "abort", "failStart", "stop"}
    BY DEF TypeOK, ProgressOK
  <2> QED
    BY <1>14, <2>1 DEF CompleteTerminal
<1>15. CASE Return
  BY <1>15 DEF Return
<1>16. CASE ReadyNotWritten \/ Cancel \/ Expire
  BY <1>16 DEF ReadyNotWritten, Cancel, Expire
<1>17. CASE DrainEnds
  BY <1>17 DEF DrainEnds
<1>18. CASE UNCHANGED vars
  BY <1>18
<1> QED
  BY <1>1, <1>2, <1>3, <1>4, <1>5, <1>6, <1>7, <1>8, <1>9, <1>10, <1>11, <1>12, <1>13, <1>14,
     <1>15, <1>16, <1>17, <1>18 DEF Next, Callbacks

(* It holds initially. *)
LEMMA InitInv == Init => IInv
<1> SUFFICES ASSUME Init PROVE IInv
  OBVIOUS
<1>1. TypeOK
  <2>1. Len(beans) \in Nat /\ Len(hooks) \in Nat
    BY BeansAssumption DEF Init, beans, hooks
  <2>2. ProgressOK
    BY BeansAssumption DEF Init, ProgressOK
  <2>3. FlagsOK
    BY DEF Init, FlagsOK
  <2>4. BeansOK
    BY <2>1 DEF Init, BeansOK
  <2>5. HooksOK
    BY <2>1 DEF Init, HooksOK
  <2> QED
    BY <2>2, <2>3, <2>4, <2>5 DEF TypeOK
<1>2. StackInv
  BY DEF Init, StackInv
<1>3. PhaseInv /\ ServeInv
  BY DEF Init, PhaseInv, ServeInv
<1>4. OverrideInv
  BY DEF Init, OverrideInv
<1>5. BuiltInv /\ PluginInv /\ ExitInv
  BY DEF Init, BuiltInv, PluginInv, ExitInv
<1> QED
  BY <1>1, <1>2, <1>3, <1>4, <1>5 DEF IInv

(* The inductive invariant. *)
THEOREM Invariance == Spec => []IInv
<1>1. IInv /\ [Next]_vars => IInv'
  BY TypeStep, StackStep, PhaseStep, ServeStep, OverrideStep, BuiltStep, PluginStep, ExitStep
  DEF IInv
<1> QED
  BY <1>1, InitInv, PTL DEF Spec

(***************************************************************************)
(* Every variable of a generated application keeps its type, whatever its  *)
(* beans and hooks are.                                                    *)
(***************************************************************************)
THEOREM TypeCorrect == Spec => []TypeOK
<1>1. IInv => TypeOK
  BY DEF IInv
<1> QED
  BY <1>1, Invariance, PTL

(***************************************************************************)
(* Reverse cleanup never releases a bean before one built from it, for     *)
(* every generated dependency graph and every failure.                     *)
(***************************************************************************)
THEOREM ReleaseOrder == Spec => []ReleasedAfterDependents
<1>1. IInv => ReleasedAfterDependents
  <2> SUFFICES ASSUME IInv, NEW i \in released, NEW j \in armed, i \in beans[j].uses,
                      j \notin released
               PROVE  FALSE
    BY DEF ReleasedAfterDependents
  <2> USE DEF IInv
  <2>1. j \in 1 .. Len(beans) /\ i \in Nat /\ j \in Nat
    <3>1. Len(beans) \in Nat
      BY BeansAssumption DEF TypeOK, ProgressOK, beans
    <3>2. built \in 0 .. Len(beans) /\ armed \subseteq 1 .. built /\ released \subseteq armed
      BY DEF TypeOK, BeansOK
    <3> QED
      BY <3>1, <3>2
  <2>2. i \in 1 .. j - 1
    BY <2>1, BeansAssumption DEF TypeOK, ProgressOK, beans
  <2>3. j < i
    BY DEF StackInv
  <2> QED
    BY <2>1, <2>2, <2>3
<1> QED
  BY <1>1, Invariance, PTL

(***************************************************************************)
(* A rolled back or stopped application has run every registered cleanup   *)
(* and serves no longer, however many hooks and cleanups failed.           *)
(***************************************************************************)
THEOREM Released == Spec => []EverythingReleased
<1>1. IInv => EverythingReleased
  <2> SUFFICES ASSUME IInv, state \in {"stopped", "failed"}
               PROVE  released = armed /\ cleanups = << >> /\ ~serving
    BY DEF EverythingReleased
  <2>1. cleanups = << >> /\ ~serving
    BY DEF IInv, PhaseInv
  <2>2. \A k \in armed \ released : FALSE
    BY <2>1 DEF IInv, StackInv
  <2>3. released \subseteq armed
    BY DEF IInv, TypeOK, BeansOK
  <2> QED
    BY <2>1, <2>2, <2>3
<1> QED
  BY <1>1, Invariance, PTL

(***************************************************************************)
(* No cleanup runs before the hook that started the transport has stopped  *)
(* it, or the shell has returned.                                          *)
(***************************************************************************)
THEOREM ServedBeansLive == Spec => []ServesOverLiveBeans
<1>1. IInv => ServesOverLiveBeans
  BY DEF IInv, ServeInv, ServesOverLiveBeans
<1> QED
  BY <1>1, Invariance, PTL

(***************************************************************************)
(* A stopped or rolled back application leaves no plugin process running   *)
(* unreported: the host's cleanup is registered before a hook activates    *)
(* plugins and runs whatever else fails.                                   *)
(***************************************************************************)
THEOREM Containment == Spec => []ContainmentNotSkipped
<1>1. IInv => ContainmentNotSkipped
  <2> SUFFICES ASSUME IInv, state \in {"stopped", "failed"}
               PROVE  plugins # "running" /\ (plugins = "escaped" => stopErr)
    BY DEF ContainmentNotSkipped
  <2>1. \A k \in armed \ released : FALSE
    BY DEF IInv, PhaseInv, StackInv
  <2> QED
    BY <2>1 DEF IInv, PluginInv
<1> QED
  BY <1>1, Invariance, PTL

(***************************************************************************)
(* The exit code 0 of a command that served or was checked tells the       *)
(* truth: everything was released, nothing drains, no plugin escaped, and  *)
(* a daemon was told to end.                                               *)
(***************************************************************************)
THEOREM ExitsClean == Spec => []CleanExit
<1>1. IInv => CleanExit
  <2> SUFFICES ASSUME IInv, exit = "success", mode # "help"
               PROVE  /\ state = "stopped" /\ released = armed /\ draining = {}
                      /\ plugins \in {"none", "contained"}
                      /\ mode = "serve" => ctx = "done"
    BY DEF CleanExit
  <2>1. ~stopErr /\ state = "stopped" /\ draining = {} /\ (mode = "serve" => ctx = "done")
    BY DEF IInv, ExitInv
  <2>2. \A k \in armed \ released : FALSE
    BY <2>1 DEF IInv, PhaseInv, StackInv
  <2>3. released = armed
    BY <2>2 DEF IInv, TypeOK, BeansOK
  <2>4. plugins \in {"none", "contained"}
    BY <2>1, <2>2 DEF IInv, PluginInv, TypeOK, ProgressOK
  <2> QED
    BY <2>1, <2>3, <2>4
<1> QED
  BY <1>1, Invariance, PTL
=============================================================================
