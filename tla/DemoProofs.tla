----------------------------- MODULE DemoProofs -----------------------------
(***************************************************************************)
(* Proofs about the demo's backend, for any number of walkers, nodes,      *)
(* clicks and runs.                                                        *)
(***************************************************************************)
EXTENDS Demo, TLAPS

\* A walker is on its topology, and short of its end when it goes on.
Within ==
    \A w \in Walkers :
        /\ at[w] <= End
        /\ pc[w] \in {"enter", "prepare", "moving", "refused", "unwound"} => at[w] < End

Typed == TypeOK /\ Within

LEMMA NodesNat == Nodes \subseteq Nat /\ 0 \in Nodes
BY LastNat DEF Nodes

LEMMA InitTyped == Init => Typed
<1> SUFFICES ASSUME Init PROVE Typed
  OBVIOUS
<1>1. TypeOK
  BY NodesNat DEF Init, TypeOK, PCs
<1>2. Within
  BY LastNat DEF Init, Within, End
<1> QED
  BY <1>1, <1>2 DEF Typed

\* Typed is inductive.
LEMMA TypeStep == ASSUME Typed, [Next]_vars PROVE TypeOK'
<1> USE DEF Typed, TypeOK, PCs, manager, contexts, conveyor, walkers, failures, retains, shown
<1>1. CASE CancelCtx
  BY <1>1 DEF CancelCtx, Click, Free, Same, Goto, Fails, TakeRequest
<1>2. CASE Stop
  BY <1>2 DEF Stop, Click, Free, Same, Goto, Fails, TakeRequest
<1>3. CASE EndRun
  BY <1>3 DEF EndRun, Click, Free, Same, Goto, Fails, TakeRequest
<1>4. CASE ReleaseHold
  BY <1>4 DEF ReleaseHold, Click, Free, Same, Goto, Fails, TakeRequest
<1>5. CASE BeginShutdown
  BY <1>5 DEF BeginShutdown, Click, Free, Same, Goto, Fails, TakeRequest
<1>6. CASE CancelInFlight
  BY <1>6 DEF CancelInFlight, Click, Free, Same, Goto, Fails, TakeRequest
<1>7. ASSUME NEW sc \in Scopes, Run(sc)
      PROVE  TypeOK'
  <2>1. runs' \in Nat /\ clicks' \in Nat
    BY <1>7 DEF Run
  <2>2. held' \in [Nodes \X Walkers -> Nat]
    BY <1>7 DEF Run, FreshRegistries
  <2> QED
    BY <1>7, <2>1, <2>2, ScopesKnown, NodesNat DEF Run, NobodyWalks, FreshRegistries
<1>8. ASSUME NEW no \in Walkers, FailItem(no)
      PROVE  TypeOK'
  BY <1>8 DEF FailItem, Broadcast, Click, Free, Same, Goto, Fails, TakeRequest
<1>9. ASSUME NEW no \in Walkers, FailTask(no)
      PROVE  TypeOK'
  BY <1>9 DEF FailTask, Broadcast, Click, Free, Same, Goto, Fails, TakeRequest
<1>10. ASSUME NEW n \in Nodes, NEW no \in Walkers, RetainItem(n, no)
      PROVE  TypeOK'
  BY <1>10 DEF RetainItem, Request, Click, Free, Same, Goto, Fails, TakeRequest
<1>11. ASSUME NEW n \in Nodes, NEW no \in Walkers, ReleaseItem(n, no)
      PROVE  TypeOK'
  BY <1>11 DEF ReleaseItem, Click, Free, Same, Goto, Fails, TakeRequest
<1>12. ASSUME NEW w \in Walkers, Start(w)
      PROVE  TypeOK'
  BY <1>12 DEF Start, Click, Free, Same, Goto, Fails, TakeRequest
<1>13. ASSUME NEW w \in Walkers, Timer(w)
      PROVE  TypeOK'
  BY <1>13 DEF Timer, Click, Free, Same, Goto, Fails, TakeRequest
<1>14. ASSUME NEW w \in Walkers, Begin(w)
      PROVE  TypeOK'
  BY <1>14, NodesNat DEF Begin, Same, Goto
<1>15. ASSUME NEW w \in Walkers, Arm(w)
      PROVE  TypeOK'
  BY <1>15 DEF Arm, Click, Free, Same, Goto, Fails, TakeRequest
<1>16. ASSUME NEW w \in Walkers, ArmRetain(w)
      PROVE  TypeOK'
  BY <1>16 DEF ArmRetain, Click, Free, Same, Goto, Fails, TakeRequest
<1>17. ASSUME NEW w \in Walkers, Apply(w)
      PROVE  TypeOK'
  BY <1>17 DEF Apply, Click, Free, Same, Goto, Fails, TakeRequest
<1>18. ASSUME NEW w \in Walkers, Test(w)
      PROVE  TypeOK'
  BY <1>18 DEF Test, Slept, Click, Free, Same, Goto, Fails, TakeRequest
<1>19. ASSUME NEW w \in Walkers, Wake(w)
      PROVE  TypeOK'
  BY <1>19 DEF Wake, Click, Free, Same, Goto, Fails, TakeRequest
<1>20. ASSUME NEW w \in Walkers, CtxDone(w)
      PROVE  TypeOK'
  BY <1>20 DEF CtxDone, Click, Free, Same, Goto, Fails, TakeRequest
<1>21. ASSUME NEW w \in Walkers, Look(w)
      PROVE  TypeOK'
  BY <1>21 DEF Look, Slept, Click, Free, Same, Goto, Fails, TakeRequest
<1>22. ASSUME NEW w \in Walkers, Mark(w)
      PROVE  TypeOK'
  BY <1>22 DEF Mark, Click, Free, Same, Goto, Fails, TakeRequest
<1>23. ASSUME NEW w \in Walkers, Enter(w)
      PROVE  TypeOK'
  <2>1. Following(w) \in Nodes
    BY <1>23, LastNat DEF Enter, Within, Following, Nodes, End
  <2> QED
    BY <1>23, <2>1 DEF Enter, Same, Goto, Fails
<1>24. ASSUME NEW w \in Walkers, Prepare(w)
      PROVE  TypeOK'
  <2>1. Following(w) \in Nodes
    BY <1>24, LastNat DEF Prepare, Refused, Within, Following, Nodes, End
  <2>2. NoOf(w) \in Walkers \cup {1}
    BY DEF NoOf
  <2> QED
    BY <1>24, <2>1, <2>2 DEF Prepare, Refused, Same, Goto, Fails
<1>25. ASSUME NEW w \in Walkers, MoveFails(w)
      PROVE  TypeOK'
  BY <1>25 DEF MoveFails, Refused, Click, Free, Same, Goto, Fails, TakeRequest
<1>26. ASSUME NEW w \in Walkers, Admit(w)
      PROVE  TypeOK'
  <2>1. Following(w) \in Nodes
    BY <1>26, LastNat DEF Admit, Within, Following, Nodes, End
  <2> QED
    BY <1>26, <2>1 DEF Admit, Same, Goto, Fails, Following
<1>27. ASSUME NEW w \in Walkers, Admitted(w)
      PROVE  TypeOK'
  BY <1>27 DEF Admitted, Click, Free, Same, Goto, Fails, TakeRequest
<1>28. ASSUME NEW w \in Walkers, Confirm(w)
      PROVE  TypeOK'
  BY <1>28 DEF Confirm, Click, Free, Same, Goto, Fails, TakeRequest
<1>29. ASSUME NEW w \in Walkers, Check(w)
      PROVE  TypeOK'
  BY <1>29 DEF Check, Click, Free, Same, Goto, Fails, TakeRequest
<1>30. ASSUME NEW w \in Walkers, Leave(w)
      PROVE  TypeOK'
  BY <1>30 DEF Leave, Forget, Click, Free, Same, Goto, Fails, TakeRequest
<1>31. ASSUME NEW w \in Walkers, ReleaseBehind(w)
      PROVE  TypeOK'
  BY <1>31 DEF ReleaseBehind, Click, Free, Same, Goto, Fails, TakeRequest
<1>32. ASSUME NEW w \in Walkers, ReleaseAhead(w)
      PROVE  TypeOK'
  BY <1>32 DEF ReleaseAhead, Forget, Click, Free, Same, Goto, Fails, TakeRequest
<1>33. ASSUME NEW w \in Walkers, Return(w)
      PROVE  TypeOK'
  BY <1>33 DEF Return, Click, Free, Same, Goto, Fails, TakeRequest
<1>34. CASE UNCHANGED vars
  BY <1>34 DEF vars
<1> QED
  BY <1>1, <1>2, <1>3, <1>4, <1>5, <1>6, <1>7, <1>8, <1>9, <1>10, <1>11,
     <1>12, <1>13, <1>14, <1>15, <1>16, <1>17, <1>18, <1>19, <1>20, <1>21,
     <1>22, <1>23, <1>24, <1>25, <1>26, <1>27, <1>28, <1>29, <1>30, <1>31,
     <1>32, <1>33, <1>34
  DEF Next, Step, Quiet

LEMMA WithinStep == ASSUME Typed, [Next]_vars PROVE Within'
<1> USE LastNat, FanOutsInside DEF Typed, TypeOK, Within, End, Nodes, manager, contexts, conveyor, walkers, Same, Goto, Fails
<1>1. CASE CancelCtx
  BY <1>1 DEF CancelCtx, NobodyWalks, Following
<1>2. CASE Stop
  BY <1>2 DEF Stop, NobodyWalks, Following
<1>3. CASE EndRun
  BY <1>3 DEF EndRun, NobodyWalks, Following
<1>4. CASE ReleaseHold
  BY <1>4 DEF ReleaseHold, NobodyWalks, Following
<1>5. CASE BeginShutdown
  BY <1>5 DEF BeginShutdown, NobodyWalks, Following
<1>6. CASE CancelInFlight
  BY <1>6 DEF CancelInFlight, NobodyWalks, Following
<1>7. ASSUME NEW sc \in Scopes, Run(sc)
      PROVE  Within'
  BY <1>7 DEF Run, NobodyWalks, Following
<1>8. ASSUME NEW no \in Walkers, FailItem(no)
      PROVE  Within'
  BY <1>8 DEF FailItem, Broadcast, NobodyWalks, Following
<1>9. ASSUME NEW no \in Walkers, FailTask(no)
      PROVE  Within'
  BY <1>9 DEF FailTask, Broadcast, NobodyWalks, Following
<1>10. ASSUME NEW n \in Nodes, NEW no \in Walkers, RetainItem(n, no)
      PROVE  Within'
  BY <1>10 DEF RetainItem, Request, NobodyWalks, Following
<1>11. ASSUME NEW n \in Nodes, NEW no \in Walkers, ReleaseItem(n, no)
      PROVE  Within'
  BY <1>11 DEF ReleaseItem, NobodyWalks, Following
<1>12. ASSUME NEW w \in Walkers, Start(w)
      PROVE  Within'
  BY <1>12 DEF Start, NobodyWalks, Following
<1>13. ASSUME NEW w \in Walkers, Timer(w)
      PROVE  Within'
  BY <1>13 DEF Timer, NobodyWalks, Following
<1>14. ASSUME NEW w \in Walkers, Begin(w)
      PROVE  Within'
  BY <1>14 DEF Begin, NobodyWalks, Following
<1>15. ASSUME NEW w \in Walkers, Arm(w)
      PROVE  Within'
  BY <1>15 DEF Arm, NobodyWalks, Following
<1>16. ASSUME NEW w \in Walkers, ArmRetain(w)
      PROVE  Within'
  BY <1>16 DEF ArmRetain, NobodyWalks, Following
<1>17. ASSUME NEW w \in Walkers, Apply(w)
      PROVE  Within'
  BY <1>17 DEF Apply, NobodyWalks, Following
<1>18. ASSUME NEW w \in Walkers, Test(w)
      PROVE  Within'
  BY <1>18 DEF Test, Slept, NobodyWalks, Following
<1>19. ASSUME NEW w \in Walkers, Wake(w)
      PROVE  Within'
  BY <1>19 DEF Wake, NobodyWalks, Following
<1>20. ASSUME NEW w \in Walkers, CtxDone(w)
      PROVE  Within'
  BY <1>20 DEF CtxDone, NobodyWalks, Following
<1>21. ASSUME NEW w \in Walkers, Look(w)
      PROVE  Within'
  BY <1>21 DEF Look, Slept, NobodyWalks, Following
<1>22. ASSUME NEW w \in Walkers, Mark(w)
      PROVE  Within'
  BY <1>22 DEF Mark, NobodyWalks, Following
<1>23. ASSUME NEW w \in Walkers, Enter(w)
      PROVE  Within'
  BY <1>23 DEF Enter, NobodyWalks, Following
<1>24. ASSUME NEW w \in Walkers, Prepare(w)
      PROVE  Within'
  BY <1>24 DEF Prepare, Refused, NobodyWalks, Following
<1>25. ASSUME NEW w \in Walkers, MoveFails(w)
      PROVE  Within'
  BY <1>25 DEF MoveFails, Refused, NobodyWalks, Following
<1>26. ASSUME NEW w \in Walkers, Admit(w)
      PROVE  Within'
  BY <1>26 DEF Admit, NobodyWalks, Following
<1>27. ASSUME NEW w \in Walkers, Admitted(w)
      PROVE  Within'
  BY <1>27 DEF Admitted, NobodyWalks, Following
<1>28. ASSUME NEW w \in Walkers, Confirm(w)
      PROVE  Within'
  BY <1>28 DEF Confirm, NobodyWalks, Following
<1>29. ASSUME NEW w \in Walkers, Check(w)
      PROVE  Within'
  <2>1. at' = at /\ scope' = scope /\ Last \in Nat
    BY <1>29 DEF Check
  <2>2. pc'[w] \in {"leave", "arm"} \/ at[w] < End
    BY <1>29 DEF Check
  <2>3. \A v \in Walkers : v # w => pc'[v] = pc[v]
    BY <1>29 DEF Check
  <2> QED
    BY <2>1, <2>2, <2>3
<1>30. ASSUME NEW w \in Walkers, Leave(w)
      PROVE  Within'
  BY <1>30 DEF Leave, Forget, NobodyWalks, Following
<1>31. ASSUME NEW w \in Walkers, ReleaseBehind(w)
      PROVE  Within'
  BY <1>31 DEF ReleaseBehind, NobodyWalks, Following
<1>32. ASSUME NEW w \in Walkers, ReleaseAhead(w)
      PROVE  Within'
  BY <1>32 DEF ReleaseAhead, Forget, NobodyWalks, Following
<1>33. ASSUME NEW w \in Walkers, Return(w)
      PROVE  Within'
  BY <1>33 DEF Return, NobodyWalks, Following
<1>34. CASE UNCHANGED vars
  BY <1>34 DEF vars
<1> QED
  BY <1>1, <1>2, <1>3, <1>4, <1>5, <1>6, <1>7, <1>8, <1>9, <1>10, <1>11,
     <1>12, <1>13, <1>14, <1>15, <1>16, <1>17, <1>18, <1>19, <1>20, <1>21,
     <1>22, <1>23, <1>24, <1>25, <1>26, <1>27, <1>28, <1>29, <1>30, <1>31,
     <1>32, <1>33, <1>34
  DEF Next, Step, Quiet

\* Every variable keeps its type, in every run.
THEOREM TypeCorrect == Spec => []TypeOK
<1>1. Typed /\ [Next]_vars => Typed'
  BY TypeStep, WithinStep DEF Typed
<1>2. Typed => TypeOK
  BY DEF Typed
<1> QED
  BY InitTyped, <1>1, <1>2, PTL DEF Spec

-----------------------------------------------------------------------------
(* Clicks *)

\* A failure or a hold asked for after the walker has looked finds it with the
\* channel in hand.
Heard ==
    \A w \in Walkers :
        /\ pc[w] = "asleep" /\ Failed(w) => w \in failClosed
        /\ pc[w] \in {"test", "asleep"} /\ TakesRetains(w) /\ <<at[w], w>> \in requested
              => w \in retClosed

LEMMA HeardStep == ASSUME Typed, Heard, [Next]_vars PROVE Heard'
<1> USE DEF Typed, TypeOK, Heard, Failed, NoOf, HasPath, TakesRetains, manager, contexts, conveyor,
            walkers, failures, retains, Same, Goto, Fails
<1>1. CASE CancelCtx
  BY <1>1 DEF CancelCtx, NobodyWalks, FreshRegistries, Click, TakeRequest
<1>2. CASE Stop
  BY <1>2 DEF Stop, NobodyWalks, FreshRegistries, Click, TakeRequest
<1>3. CASE EndRun
  BY <1>3 DEF EndRun, NobodyWalks, FreshRegistries, Click, TakeRequest
<1>4. CASE ReleaseHold
  BY <1>4 DEF ReleaseHold, NobodyWalks, FreshRegistries, Click, TakeRequest
<1>5. CASE BeginShutdown
  BY <1>5 DEF BeginShutdown, NobodyWalks, FreshRegistries, Click, TakeRequest
<1>6. CASE CancelInFlight
  BY <1>6 DEF CancelInFlight, NobodyWalks, FreshRegistries, Click, TakeRequest
<1>7. ASSUME NEW sc \in Scopes, Run(sc)
      PROVE  Heard'
  BY <1>7 DEF Run, NobodyWalks, FreshRegistries, Click, TakeRequest
<1>8. ASSUME NEW no \in Walkers, FailItem(no)
      PROVE  Heard'
  BY <1>8 DEF FailItem, Broadcast, NobodyWalks, FreshRegistries, Click, TakeRequest
<1>9. ASSUME NEW no \in Walkers, FailTask(no)
      PROVE  Heard'
  BY <1>9 DEF FailTask, Broadcast, NobodyWalks, FreshRegistries, Click, TakeRequest
<1>10. ASSUME NEW n \in Nodes, NEW no \in Walkers, RetainItem(n, no)
      PROVE  Heard'
  BY <1>10 DEF RetainItem, Request, NobodyWalks, FreshRegistries, Click, TakeRequest
<1>11. ASSUME NEW n \in Nodes, NEW no \in Walkers, ReleaseItem(n, no)
      PROVE  Heard'
  BY <1>11 DEF ReleaseItem, NobodyWalks, FreshRegistries, Click, TakeRequest
<1>12. ASSUME NEW w \in Walkers, Start(w)
      PROVE  Heard'
  BY <1>12 DEF Start, NobodyWalks, FreshRegistries, Click, TakeRequest
<1>13. ASSUME NEW w \in Walkers, Timer(w)
      PROVE  Heard'
  BY <1>13 DEF Timer, NobodyWalks, FreshRegistries, Click, TakeRequest
<1>14. ASSUME NEW w \in Walkers, Begin(w)
      PROVE  Heard'
  BY <1>14 DEF Begin, NobodyWalks, FreshRegistries, Click, TakeRequest
<1>15. ASSUME NEW w \in Walkers, Arm(w)
      PROVE  Heard'
  BY <1>15 DEF Arm, NobodyWalks, FreshRegistries, Click, TakeRequest
<1>16. ASSUME NEW w \in Walkers, ArmRetain(w)
      PROVE  Heard'
  BY <1>16 DEF ArmRetain, NobodyWalks, FreshRegistries, Click, TakeRequest
<1>17. ASSUME NEW w \in Walkers, Apply(w)
      PROVE  Heard'
  <2>1. requested' \subseteq requested /\ <<at[w], w>> \notin requested'
    BY <1>17 DEF Apply, TakeRequest
  <2>2. \A v \in Walkers : v # w => pc'[v] = pc[v]
    BY <1>17 DEF Apply
  <2>3. pc'[w] = "test" /\ UNCHANGED <<at, scope, failClosed, retClosed, failItem, failTask>>
    BY <1>17 DEF Apply
  <2> QED
    BY <2>1, <2>2, <2>3
<1>18. ASSUME NEW w \in Walkers, Test(w)
      PROVE  Heard'
  BY <1>18 DEF Test, Slept, NobodyWalks, FreshRegistries, Click, TakeRequest
<1>19. ASSUME NEW w \in Walkers, Wake(w)
      PROVE  Heard'
  BY <1>19 DEF Wake, NobodyWalks, FreshRegistries, Click, TakeRequest
<1>20. ASSUME NEW w \in Walkers, CtxDone(w)
      PROVE  Heard'
  BY <1>20 DEF CtxDone, NobodyWalks, FreshRegistries, Click, TakeRequest
<1>21. ASSUME NEW w \in Walkers, Look(w)
      PROVE  Heard'
  BY <1>21 DEF Look, Slept, NobodyWalks, FreshRegistries, Click, TakeRequest
<1>22. ASSUME NEW w \in Walkers, Mark(w)
      PROVE  Heard'
  BY <1>22 DEF Mark, NobodyWalks, FreshRegistries, Click, TakeRequest
<1>23. ASSUME NEW w \in Walkers, Enter(w)
      PROVE  Heard'
  BY <1>23 DEF Enter, NobodyWalks, FreshRegistries, Click, TakeRequest
<1>24. ASSUME NEW w \in Walkers, Prepare(w)
      PROVE  Heard'
  BY <1>24 DEF Prepare, Refused, NobodyWalks, FreshRegistries, Click, TakeRequest
<1>25. ASSUME NEW w \in Walkers, MoveFails(w)
      PROVE  Heard'
  BY <1>25 DEF MoveFails, Refused, NobodyWalks, FreshRegistries, Click, TakeRequest
<1>26. ASSUME NEW w \in Walkers, Admit(w)
      PROVE  Heard'
  BY <1>26 DEF Admit, NobodyWalks, FreshRegistries, Click, TakeRequest
<1>27. ASSUME NEW w \in Walkers, Admitted(w)
      PROVE  Heard'
  BY <1>27 DEF Admitted, NobodyWalks, FreshRegistries, Click, TakeRequest
<1>28. ASSUME NEW w \in Walkers, Confirm(w)
      PROVE  Heard'
  BY <1>28 DEF Confirm, NobodyWalks, FreshRegistries, Click, TakeRequest
<1>29. ASSUME NEW w \in Walkers, Check(w)
      PROVE  Heard'
  BY <1>29 DEF Check, NobodyWalks, FreshRegistries, Click, TakeRequest
<1>30. ASSUME NEW w \in Walkers, Leave(w)
      PROVE  Heard'
  BY <1>30 DEF Leave, Forget, NobodyWalks, FreshRegistries, Click, TakeRequest
<1>31. ASSUME NEW w \in Walkers, ReleaseBehind(w)
      PROVE  Heard'
  BY <1>31 DEF ReleaseBehind, NobodyWalks, FreshRegistries, Click, TakeRequest
<1>32. ASSUME NEW w \in Walkers, ReleaseAhead(w)
      PROVE  Heard'
  BY <1>32 DEF ReleaseAhead, Forget, NobodyWalks, FreshRegistries, Click, TakeRequest
<1>33. ASSUME NEW w \in Walkers, Return(w)
      PROVE  Heard'
  BY <1>33 DEF Return, NobodyWalks, FreshRegistries, Click, TakeRequest
<1>34. CASE UNCHANGED vars
  BY <1>34 DEF vars
<1> QED
  BY <1>1, <1>2, <1>3, <1>4, <1>5, <1>6, <1>7, <1>8, <1>9, <1>10, <1>11,
     <1>12, <1>13, <1>14, <1>15, <1>16, <1>17, <1>18, <1>19, <1>20, <1>21,
     <1>22, <1>23, <1>24, <1>25, <1>26, <1>27, <1>28, <1>29, <1>30, <1>31,
     <1>32, <1>33, <1>34
  DEF Next, Step, Quiet

\* No click gets lost, whoever is clicked at and whenever.
THEOREM ClicksAreHeard == Spec => []NoLostClick
<1>1. Init => Typed /\ Heard
  BY InitTyped DEF Init, Heard
<1>2. Typed /\ Heard /\ [Next]_vars => Typed' /\ Heard'
  BY TypeStep, WithinStep, HeardStep DEF Typed
<1>3. Heard => NoLostClick
  BY DEF Heard, NoLostClick
<1> QED
  BY <1>1, <1>2, <1>3, PTL DEF Spec

-----------------------------------------------------------------------------
(* Holds *)

\* A key is requested, live or being released, and only one of them; before an
\* item starts its keys can only be requested.
Booked ==
    /\ requested \cap live = {} /\ requested \cap releasing = {} /\ live \cap releasing = {}
    /\ \A n \in Nodes, w \in Walkers :
          pc[w] = "none" =>
              <<n, w>> \notin live \cup releasing /\ held[<<n, w>>] = 0

Holds == Booked /\ HoldsAreReleasable

LEMMA HoldsStep == ASSUME Typed, Holds, [Next]_vars PROVE Holds'
<1> USE DEF Typed, TypeOK, Holds, Booked, HoldsAreReleasable, Alive, PCs, manager, contexts,
            walkers, retains, Same, Goto, Fails
<1>1. CASE CancelCtx
  BY <1>1 DEF CancelCtx, NobodyWalks, FreshRegistries, Click, Free, TakeRequest, Created
<1>2. CASE Stop
  BY <1>2 DEF Stop, NobodyWalks, FreshRegistries, Click, Free, TakeRequest, Created
<1>3. CASE EndRun
  BY <1>3 DEF EndRun, NobodyWalks, FreshRegistries, Click, Free, TakeRequest, Created
<1>4. CASE ReleaseHold
  BY <1>4 DEF ReleaseHold, NobodyWalks, FreshRegistries, Click, Free, TakeRequest, Created
<1>5. CASE BeginShutdown
  BY <1>5 DEF BeginShutdown, NobodyWalks, FreshRegistries, Click, Free, TakeRequest, Created
<1>6. CASE CancelInFlight
  BY <1>6 DEF CancelInFlight, NobodyWalks, FreshRegistries, Click, Free, TakeRequest, Created
<1>7. ASSUME NEW sc \in Scopes, Run(sc)
      PROVE  Holds'
  BY <1>7 DEF Run, NobodyWalks, FreshRegistries, Click, Free, TakeRequest, Created
<1>8. ASSUME NEW no \in Walkers, FailItem(no)
      PROVE  Holds'
  BY <1>8 DEF FailItem, Broadcast, NobodyWalks, FreshRegistries, Click, Free, TakeRequest, Created
<1>9. ASSUME NEW no \in Walkers, FailTask(no)
      PROVE  Holds'
  BY <1>9 DEF FailTask, Broadcast, NobodyWalks, FreshRegistries, Click, Free, TakeRequest, Created
<1>10. ASSUME NEW n \in Nodes, NEW no \in Walkers, RetainItem(n, no)
      PROVE  Holds'
  BY <1>10 DEF RetainItem, Request, NobodyWalks, FreshRegistries, Click, Free, TakeRequest, Created
<1>11. ASSUME NEW n \in Nodes, NEW no \in Walkers, ReleaseItem(n, no)
      PROVE  Holds'
  BY <1>11 DEF ReleaseItem, NobodyWalks, FreshRegistries, Click, Free, TakeRequest, Created
<1>12. ASSUME NEW w \in Walkers, Start(w)
      PROVE  Holds'
  BY <1>12 DEF Start, NobodyWalks, FreshRegistries, Click, Free, TakeRequest, Created
<1>13. ASSUME NEW w \in Walkers, Timer(w)
      PROVE  Holds'
  BY <1>13 DEF Timer, NobodyWalks, FreshRegistries, Click, Free, TakeRequest, Created
<1>14. ASSUME NEW w \in Walkers, Begin(w)
      PROVE  Holds'
  BY <1>14 DEF Begin, NobodyWalks, FreshRegistries, Click, Free, TakeRequest, Created
<1>15. ASSUME NEW w \in Walkers, Arm(w)
      PROVE  Holds'
  BY <1>15 DEF Arm, NobodyWalks, FreshRegistries, Click, Free, TakeRequest, Created
<1>16. ASSUME NEW w \in Walkers, ArmRetain(w)
      PROVE  Holds'
  BY <1>16 DEF ArmRetain, NobodyWalks, FreshRegistries, Click, Free, TakeRequest, Created
<1>17. ASSUME NEW w \in Walkers, Apply(w)
      PROVE  Holds'
  <2> DEFINE k == <<at[w], w>>
  <2>1. CASE k \in requested
    <3>1. /\ requested' = requested \ {k} /\ live' = live \cup {k}
           /\ held' = [held EXCEPT ![k] = @ + 1] /\ releasing' = releasing
           /\ pc[w] = "apply" /\ pc' = [pc EXCEPT ![w] = "test"]
      BY <1>17, <2>1 DEF Apply, TakeRequest
    <3>2. Booked'
      BY <2>1, <3>1
    <3>3. k \in Nodes \X Walkers /\ held'[k] = 1 /\ k \in live' /\ k \notin releasing'
      BY <2>1, <3>1
    <3>4. ASSUME NEW n \in Nodes, NEW v \in Walkers, <<n, v>> # k
           PROVE  /\ held'[<<n, v>>] = held[<<n, v>>]
                  /\ <<n, v>> \in live' <=> <<n, v>> \in live
                  /\ Alive(v)' <=> Alive(v)
      BY <3>1, <3>4
    <3>5. ASSUME NEW n \in Nodes, NEW v \in Walkers, Alive(v)'
           PROVE  held'[<<n, v>>] = (IF <<n, v>> \in live' THEN 1 ELSE 0)
                                    + (IF <<n, v>> \in releasing' THEN 1 ELSE 0)
      <4>1. CASE <<n, v>> = k
        BY <4>1, <3>3
      <4>2. CASE <<n, v>> # k
        BY <4>2, <3>1, <3>4, <3>5
      <4> QED
        BY <4>1, <4>2
    <3>6. HoldsAreReleasable'
      BY <3>5
    <3> QED
      BY <3>2, <3>6
  <2>2. CASE k \notin requested
    BY <1>17, <2>2 DEF Apply, TakeRequest
  <2> QED
    BY <2>1, <2>2
<1>18. ASSUME NEW w \in Walkers, Test(w)
      PROVE  Holds'
  BY <1>18 DEF Test, Slept, NobodyWalks, FreshRegistries, Click, Free, TakeRequest, Created
<1>19. ASSUME NEW w \in Walkers, Wake(w)
      PROVE  Holds'
  BY <1>19 DEF Wake, NobodyWalks, FreshRegistries, Click, Free, TakeRequest, Created
<1>20. ASSUME NEW w \in Walkers, CtxDone(w)
      PROVE  Holds'
  BY <1>20 DEF CtxDone, NobodyWalks, FreshRegistries, Click, Free, TakeRequest, Created
<1>21. ASSUME NEW w \in Walkers, Look(w)
      PROVE  Holds'
  BY <1>21 DEF Look, Slept, NobodyWalks, FreshRegistries, Click, Free, TakeRequest, Created
<1>22. ASSUME NEW w \in Walkers, Mark(w)
      PROVE  Holds'
  BY <1>22 DEF Mark, NobodyWalks, FreshRegistries, Click, Free, TakeRequest, Created
<1>23. ASSUME NEW w \in Walkers, Enter(w)
      PROVE  Holds'
  BY <1>23 DEF Enter, NobodyWalks, FreshRegistries, Click, Free, TakeRequest, Created
<1>24. ASSUME NEW w \in Walkers, Prepare(w)
      PROVE  Holds'
  BY <1>24 DEF Prepare, Refused, NobodyWalks, FreshRegistries, Click, Free, TakeRequest, Created
<1>25. ASSUME NEW w \in Walkers, MoveFails(w)
      PROVE  Holds'
  BY <1>25 DEF MoveFails, Refused, NobodyWalks, FreshRegistries, Click, Free, TakeRequest, Created
<1>26. ASSUME NEW w \in Walkers, Admit(w)
      PROVE  Holds'
  BY <1>26 DEF Admit, NobodyWalks, FreshRegistries, Click, Free, TakeRequest, Created
<1>27. ASSUME NEW w \in Walkers, Admitted(w)
      PROVE  Holds'
  BY <1>27 DEF Admitted, NobodyWalks, FreshRegistries, Click, Free, TakeRequest, Created
<1>28. ASSUME NEW w \in Walkers, Confirm(w)
      PROVE  Holds'
  BY <1>28 DEF Confirm, NobodyWalks, FreshRegistries, Click, Free, TakeRequest, Created
<1>29. ASSUME NEW w \in Walkers, Check(w)
      PROVE  Holds'
  BY <1>29 DEF Check, NobodyWalks, FreshRegistries, Click, Free, TakeRequest, Created
<1>30. ASSUME NEW w \in Walkers, Leave(w)
      PROVE  Holds'
  BY <1>30 DEF Leave, Forget, NobodyWalks, FreshRegistries, Click, Free, TakeRequest, Created
<1>31. ASSUME NEW w \in Walkers, ReleaseBehind(w)
      PROVE  Holds'
  BY <1>31 DEF ReleaseBehind, NobodyWalks, FreshRegistries, Click, Free, TakeRequest, Created
<1>32. ASSUME NEW w \in Walkers, ReleaseAhead(w)
      PROVE  Holds'
  BY <1>32 DEF ReleaseAhead, Forget, NobodyWalks, FreshRegistries, Click, Free, TakeRequest, Created
<1>33. ASSUME NEW w \in Walkers, Return(w)
      PROVE  Holds'
  BY <1>33 DEF Return, NobodyWalks, FreshRegistries, Click, Free, TakeRequest, Created
<1>34. CASE UNCHANGED vars
  BY <1>34 DEF vars
<1> QED
  BY <1>1, <1>2, <1>3, <1>4, <1>5, <1>6, <1>7, <1>8, <1>9, <1>10, <1>11,
     <1>12, <1>13, <1>14, <1>15, <1>16, <1>17, <1>18, <1>19, <1>20, <1>21,
     <1>22, <1>23, <1>24, <1>25, <1>26, <1>27, <1>28, <1>29, <1>30, <1>31,
     <1>32, <1>33, <1>34
  DEF Next, Step, Quiet

\* Whatever is held can be released by a click, and what is shown is held.
THEOREM HoldsReleasable == Spec => []HoldsAreReleasable
<1>1. Init => Typed /\ Holds
  BY InitTyped DEF Init, Holds, Booked, HoldsAreReleasable, Alive
<1>2. Typed /\ Holds /\ [Next]_vars => Typed' /\ Holds'
  BY TypeStep, WithinStep, HoldsStep DEF Typed
<1>3. Holds => HoldsAreReleasable
  BY DEF Holds
<1> QED
  BY <1>1, <1>2, <1>3, PTL DEF Spec

-----------------------------------------------------------------------------
(* Labels *)

\* The entry of the next node is there before the move, the one of the node
\* behind goes after it.
Tagged ==
    \A w \in Walkers :
        /\ pc[w] \in {"none", "begin"} => at[w] = 0
        /\ pc[w] = "admitted" => at[w] > 0
        /\ HasPath /\ pc[w] \in {"prepare", "moving"} => <<at[w] + 1, w>> \in entries

Labels == Tagged /\ OccupantsAreLabelled

LEMMA LabelsStep == ASSUME Typed, Labels, [Next]_vars PROVE Labels'
<1> USE DEF Typed, TypeOK, Labels, Tagged, OccupantsAreLabelled, Walking, Labelled, HasPath, PCs, manager,
            contexts, conveyor, walkers, shown, Same, Goto, Fails
<1>1. CASE CancelCtx
  BY <1>1 DEF CancelCtx, NobodyWalks, FreshRegistries, Following
<1>2. CASE Stop
  BY <1>2 DEF Stop, NobodyWalks, FreshRegistries, Following
<1>3. CASE EndRun
  BY <1>3 DEF EndRun, NobodyWalks, FreshRegistries, Following
<1>4. CASE ReleaseHold
  BY <1>4 DEF ReleaseHold, NobodyWalks, FreshRegistries, Following
<1>5. CASE BeginShutdown
  BY <1>5 DEF BeginShutdown, NobodyWalks, FreshRegistries, Following
<1>6. CASE CancelInFlight
  BY <1>6 DEF CancelInFlight, NobodyWalks, FreshRegistries, Following
<1>7. ASSUME NEW sc \in Scopes, Run(sc)
      PROVE  Labels'
  BY <1>7 DEF Run, NobodyWalks, FreshRegistries, Following
<1>8. ASSUME NEW no \in Walkers, FailItem(no)
      PROVE  Labels'
  BY <1>8 DEF FailItem, Broadcast, NobodyWalks, FreshRegistries, Following
<1>9. ASSUME NEW no \in Walkers, FailTask(no)
      PROVE  Labels'
  BY <1>9 DEF FailTask, Broadcast, NobodyWalks, FreshRegistries, Following
<1>10. ASSUME NEW n \in Nodes, NEW no \in Walkers, RetainItem(n, no)
      PROVE  Labels'
  BY <1>10 DEF RetainItem, Request, NobodyWalks, FreshRegistries, Following
<1>11. ASSUME NEW n \in Nodes, NEW no \in Walkers, ReleaseItem(n, no)
      PROVE  Labels'
  BY <1>11 DEF ReleaseItem, NobodyWalks, FreshRegistries, Following
<1>12. ASSUME NEW w \in Walkers, Start(w)
      PROVE  Labels'
  <2>1. CASE HasPath
    BY <1>12, <2>1 DEF Start, Created
  <2>2. CASE ~HasPath
    BY <1>12, <2>2 DEF Start, Created
  <2> QED
    BY <2>1, <2>2
<1>13. ASSUME NEW w \in Walkers, Timer(w)
      PROVE  Labels'
  BY <1>13 DEF Timer, NobodyWalks, FreshRegistries, Following
<1>14. ASSUME NEW w \in Walkers, Begin(w)
      PROVE  Labels'
  BY <1>14 DEF Begin, NobodyWalks, FreshRegistries, Following
<1>15. ASSUME NEW w \in Walkers, Arm(w)
      PROVE  Labels'
  BY <1>15 DEF Arm, NobodyWalks, FreshRegistries, Following
<1>16. ASSUME NEW w \in Walkers, ArmRetain(w)
      PROVE  Labels'
  BY <1>16 DEF ArmRetain, NobodyWalks, FreshRegistries, Following
<1>17. ASSUME NEW w \in Walkers, Apply(w)
      PROVE  Labels'
  BY <1>17 DEF Apply, NobodyWalks, FreshRegistries, Following
<1>18. ASSUME NEW w \in Walkers, Test(w)
      PROVE  Labels'
  BY <1>18 DEF Test, Slept, NobodyWalks, FreshRegistries, Following
<1>19. ASSUME NEW w \in Walkers, Wake(w)
      PROVE  Labels'
  BY <1>19 DEF Wake, NobodyWalks, FreshRegistries, Following
<1>20. ASSUME NEW w \in Walkers, CtxDone(w)
      PROVE  Labels'
  BY <1>20 DEF CtxDone, NobodyWalks, FreshRegistries, Following
<1>21. ASSUME NEW w \in Walkers, Look(w)
      PROVE  Labels'
  BY <1>21 DEF Look, Slept, NobodyWalks, FreshRegistries, Following
<1>22. ASSUME NEW w \in Walkers, Mark(w)
      PROVE  Labels'
  BY <1>22 DEF Mark, NobodyWalks, FreshRegistries, Following
<1>23. ASSUME NEW w \in Walkers, Enter(w)
      PROVE  Labels'
  BY <1>23 DEF Enter, NobodyWalks, FreshRegistries, Following
<1>24. ASSUME NEW w \in Walkers, Prepare(w)
      PROVE  Labels'
  BY <1>24 DEF Prepare, Refused, NobodyWalks, FreshRegistries, Following
<1>25. ASSUME NEW w \in Walkers, MoveFails(w)
      PROVE  Labels'
  BY <1>25 DEF MoveFails, Refused, NobodyWalks, FreshRegistries, Following
<1>26. ASSUME NEW w \in Walkers, Admit(w)
      PROVE  Labels'
  <2>1. /\ pc[w] = "moving" /\ pc'[w] = "admitted" /\ at'[w] = at[w] + 1
        /\ UNCHANGED <<entries, scope>>
        /\ \A v \in Walkers : v # w => pc'[v] = pc[v] /\ at'[v] = at[v]
        /\ \A v \in Walkers : at[v] \in Nat
    BY <1>26, NodesNat DEF Admit, Following
  <2>2. at'[w] > 0 /\ at'[w] - 1 = at[w]
    BY <2>1
  <2>3. Tagged'
    BY <2>1, <2>2
  <2>4. OccupantsAreLabelled'
    <3> SUFFICES ASSUME HasPath', NEW v \in Walkers
                 PROVE  /\ Walking(v)' => v \in Labelled(at[v])'
                        /\ \A n \in Nodes : v \in Labelled(n)' =>
                              \/ Walking(v)' /\ n = at'[v]
                              \/ pc'[v] \in {"prepare", "moving", "refused", "unwound"}
                                 /\ n = at'[v] + 1
                              \/ pc'[v] = "admitted" /\ n = at'[v] - 1
      OBVIOUS
    <3>1. CASE v = w
      <4>1. <<at'[w], w>> \in entries'
        BY <2>1, <3>1
      <4>2. ASSUME NEW n \in Nodes, <<n, w>> \in entries'
            PROVE  n = at'[w] \/ n = at'[w] - 1
        BY <2>1, <2>2, <3>1, <4>2
      <4> QED
        BY <2>1, <3>1, <4>1, <4>2
    <3>2. CASE v # w
      BY <2>1, <3>2
    <3> QED
      BY <3>1, <3>2
  <2> QED
    BY <2>3, <2>4
<1>27. ASSUME NEW w \in Walkers, Admitted(w)
      PROVE  Labels'
  <2>1. at[w] \in Nat
    BY NodesNat
  <2> QED
    BY <1>27, <2>1 DEF Admitted
<1>28. ASSUME NEW w \in Walkers, Confirm(w)
      PROVE  Labels'
  BY <1>28 DEF Confirm, NobodyWalks, FreshRegistries, Following
<1>29. ASSUME NEW w \in Walkers, Check(w)
      PROVE  Labels'
  BY <1>29 DEF Check, NobodyWalks, FreshRegistries, Following
<1>30. ASSUME NEW w \in Walkers, Leave(w)
      PROVE  Labels'
  BY <1>30 DEF Leave, Forget, NobodyWalks, FreshRegistries, Following
<1>31. ASSUME NEW w \in Walkers, ReleaseBehind(w)
      PROVE  Labels'
  BY <1>31 DEF ReleaseBehind, NobodyWalks, FreshRegistries, Following
<1>32. ASSUME NEW w \in Walkers, ReleaseAhead(w)
      PROVE  Labels'
  BY <1>32 DEF ReleaseAhead, Forget, NobodyWalks, FreshRegistries, Following
<1>33. ASSUME NEW w \in Walkers, Return(w)
      PROVE  Labels'
  BY <1>33 DEF Return, NobodyWalks, FreshRegistries, Following
<1>34. CASE UNCHANGED vars
  BY <1>34 DEF vars
<1> QED
  BY <1>1, <1>2, <1>3, <1>4, <1>5, <1>6, <1>7, <1>8, <1>9, <1>10, <1>11,
     <1>12, <1>13, <1>14, <1>15, <1>16, <1>17, <1>18, <1>19, <1>20, <1>21,
     <1>22, <1>23, <1>24, <1>25, <1>26, <1>27, <1>28, <1>29, <1>30, <1>31,
     <1>32, <1>33, <1>34
  DEF Next, Step, Quiet

\* Every occupant of a node of a branch has its label there.
THEOREM OccupantsLabelled == Spec => []OccupantsAreLabelled
<1>1. Init => Typed /\ Labels
  BY InitTyped DEF Init, Labels, Tagged, OccupantsAreLabelled, Walking, Labelled, HasPath
<1>2. Typed /\ Labels /\ [Next]_vars => Typed' /\ Labels'
  BY TypeStep, WithinStep, LabelsStep DEF Typed
<1>3. Labels => OccupantsAreLabelled
  BY DEF Labels
<1> QED
  BY <1>1, <1>2, <1>3, PTL DEF Spec

-----------------------------------------------------------------------------
(* Marks *)

\* Where w has finished the work of node n.
Done(w, n) ==
    \/ at[w] > n
    \/ at[w] = n /\ pc[w] \in {"enter", "prepare", "moving", "refused", "unwound", "leave", "return",
                              "over"}

Marked == \A w \in Walkers, n \in Nodes : <<n, Occurrence(w)>> \in marks => Done(w, n)

LEMMA MarkedStep == ASSUME Typed, Labels, Marked, [Next]_vars PROVE Marked'
<1> USE NodesNat DEF Typed, TypeOK, Marked, Done, PCs, manager,
            contexts, conveyor, walkers, shown, Same, Goto, Fails
<1>1. CASE CancelCtx
  BY <1>1 DEF CancelCtx, NobodyWalks, FreshRegistries, Following, Occurrence, NoOf, PathOf, HasPath
<1>2. CASE Stop
  BY <1>2 DEF Stop, NobodyWalks, FreshRegistries, Following, Occurrence, NoOf, PathOf, HasPath
<1>3. CASE EndRun
  BY <1>3 DEF EndRun, NobodyWalks, FreshRegistries, Following, Occurrence, NoOf, PathOf, HasPath
<1>4. CASE ReleaseHold
  BY <1>4 DEF ReleaseHold, NobodyWalks, FreshRegistries, Following, Occurrence, NoOf, PathOf, HasPath
<1>5. CASE BeginShutdown
  BY <1>5 DEF BeginShutdown, NobodyWalks, FreshRegistries, Following, Occurrence, NoOf, PathOf, HasPath
<1>6. CASE CancelInFlight
  BY <1>6 DEF CancelInFlight, NobodyWalks, FreshRegistries, Following, Occurrence, NoOf, PathOf, HasPath
<1>7. ASSUME NEW sc \in Scopes, Run(sc)
      PROVE  Marked'
  BY <1>7 DEF Run, NobodyWalks, FreshRegistries, Following, Occurrence, NoOf, PathOf, HasPath
<1>8. ASSUME NEW no \in Walkers, FailItem(no)
      PROVE  Marked'
  BY <1>8 DEF FailItem, Broadcast, NobodyWalks, FreshRegistries, Following, Occurrence, NoOf, PathOf, HasPath
<1>9. ASSUME NEW no \in Walkers, FailTask(no)
      PROVE  Marked'
  BY <1>9 DEF FailTask, Broadcast, NobodyWalks, FreshRegistries, Following, Occurrence, NoOf, PathOf, HasPath
<1>10. ASSUME NEW n \in Nodes, NEW no \in Walkers, RetainItem(n, no)
      PROVE  Marked'
  BY <1>10 DEF RetainItem, Request, NobodyWalks, FreshRegistries, Following, Occurrence, NoOf, PathOf, HasPath
<1>11. ASSUME NEW n \in Nodes, NEW no \in Walkers, ReleaseItem(n, no)
      PROVE  Marked'
  BY <1>11 DEF ReleaseItem, NobodyWalks, FreshRegistries, Following, Occurrence, NoOf, PathOf, HasPath
<1>12. ASSUME NEW w \in Walkers, Start(w)
      PROVE  Marked'
  <2>1. \A v \in Walkers : Occurrence(v)' = Occurrence(v)
    BY <1>12 DEF Start, Occurrence, NoOf, PathOf, HasPath
  <2>2. UNCHANGED <<at, marks>> /\ pc[w] = "none" /\ \A v \in Walkers : v # w => pc'[v] = pc[v]
    BY <1>12 DEF Start, Created
  <2>3. at[w] = 0
    BY <2>2 DEF Labels, Tagged
  <2> QED
    BY <2>1, <2>2, <2>3
<1>13. ASSUME NEW w \in Walkers, Timer(w)
      PROVE  Marked'
  BY <1>13 DEF Timer, NobodyWalks, FreshRegistries, Following, Occurrence, NoOf, PathOf, HasPath
<1>14. ASSUME NEW w \in Walkers, Begin(w)
      PROVE  Marked'
  BY <1>14 DEF Begin, NobodyWalks, FreshRegistries, Following, Occurrence, NoOf, PathOf, HasPath
<1>15. ASSUME NEW w \in Walkers, Arm(w)
      PROVE  Marked'
  BY <1>15 DEF Arm, NobodyWalks, FreshRegistries, Following, Occurrence, NoOf, PathOf, HasPath
<1>16. ASSUME NEW w \in Walkers, ArmRetain(w)
      PROVE  Marked'
  BY <1>16 DEF ArmRetain, NobodyWalks, FreshRegistries, Following, Occurrence, NoOf, PathOf, HasPath
<1>17. ASSUME NEW w \in Walkers, Apply(w)
      PROVE  Marked'
  BY <1>17 DEF Apply, NobodyWalks, FreshRegistries, Following, Occurrence, NoOf, PathOf, HasPath
<1>18. ASSUME NEW w \in Walkers, Test(w)
      PROVE  Marked'
  BY <1>18 DEF Test, Slept, NobodyWalks, FreshRegistries, Following, Occurrence, NoOf, PathOf, HasPath
<1>19. ASSUME NEW w \in Walkers, Wake(w)
      PROVE  Marked'
  BY <1>19 DEF Wake, NobodyWalks, FreshRegistries, Following, Occurrence, NoOf, PathOf, HasPath
<1>20. ASSUME NEW w \in Walkers, CtxDone(w)
      PROVE  Marked'
  BY <1>20 DEF CtxDone, NobodyWalks, FreshRegistries, Following, Occurrence, NoOf, PathOf, HasPath
<1>21. ASSUME NEW w \in Walkers, Look(w)
      PROVE  Marked'
  BY <1>21 DEF Look, Slept, NobodyWalks, FreshRegistries, Following, Occurrence, NoOf, PathOf, HasPath
<1>22. ASSUME NEW w \in Walkers, Mark(w)
      PROVE  Marked'
  BY <1>22 DEF Mark, NobodyWalks, FreshRegistries, Following, Occurrence, NoOf, PathOf, HasPath
<1>23. ASSUME NEW w \in Walkers, Enter(w)
      PROVE  Marked'
  BY <1>23 DEF Enter, NobodyWalks, FreshRegistries, Following, Occurrence, NoOf, PathOf, HasPath
<1>24. ASSUME NEW w \in Walkers, Prepare(w)
      PROVE  Marked'
  BY <1>24 DEF Prepare, Refused, NobodyWalks, FreshRegistries, Following, Occurrence, NoOf, PathOf, HasPath
<1>25. ASSUME NEW w \in Walkers, MoveFails(w)
      PROVE  Marked'
  BY <1>25 DEF MoveFails, Refused, NobodyWalks, FreshRegistries, Following, Occurrence, NoOf, PathOf, HasPath
<1>26. ASSUME NEW w \in Walkers, Admit(w)
      PROVE  Marked'
  <2>1. \A v \in Walkers : Occurrence(v)' = Occurrence(v)
    BY <1>26 DEF Admit, Occurrence, NoOf, PathOf, HasPath
  <2>2. UNCHANGED marks /\ at'[w] = at[w] + 1 /\ \A v \in Walkers : v # w => pc'[v] = pc[v] /\ at'[v] = at[v]
    BY <1>26 DEF Admit, Following
  <2>3. ASSUME NEW v \in Walkers, NEW n \in Nodes, Done(v, n)
       PROVE  Done(v, n)'
    <3>1. CASE v = w
      <4>1. at[w] \in Nat /\ n \in Nat
        OBVIOUS
      <4>2. at[w] >= n
        BY <2>3, <3>1, <4>1
      <4>3. at'[w] > n
        BY <2>2, <4>1, <4>2
      <4> QED
        BY <3>1, <4>3
    <3>2. CASE v # w
      BY <2>2, <2>3, <3>2
    <3> QED
      BY <3>1, <3>2
  <2> QED
    BY <2>1, <2>2, <2>3
<1>27. ASSUME NEW w \in Walkers, Admitted(w)
      PROVE  Marked'
  BY <1>27 DEF Admitted, NobodyWalks, FreshRegistries, Following, Occurrence, NoOf, PathOf, HasPath
<1>28. ASSUME NEW w \in Walkers, Confirm(w)
      PROVE  Marked'
  BY <1>28 DEF Confirm, NobodyWalks, FreshRegistries, Following, Occurrence, NoOf, PathOf, HasPath
<1>29. ASSUME NEW w \in Walkers, Check(w)
      PROVE  Marked'
  BY <1>29 DEF Check, NobodyWalks, FreshRegistries, Following, Occurrence, NoOf, PathOf, HasPath
<1>30. ASSUME NEW w \in Walkers, Leave(w)
      PROVE  Marked'
  BY <1>30 DEF Leave, Forget, NobodyWalks, FreshRegistries, Following, Occurrence, NoOf, PathOf, HasPath
<1>31. ASSUME NEW w \in Walkers, ReleaseBehind(w)
      PROVE  Marked'
  BY <1>31 DEF ReleaseBehind, NobodyWalks, FreshRegistries, Following, Occurrence, NoOf, PathOf, HasPath
<1>32. ASSUME NEW w \in Walkers, ReleaseAhead(w)
      PROVE  Marked'
  BY <1>32 DEF ReleaseAhead, Forget, NobodyWalks, FreshRegistries, Following, Occurrence, NoOf, PathOf, HasPath
<1>33. ASSUME NEW w \in Walkers, Return(w)
      PROVE  Marked'
  BY <1>33 DEF Return, NobodyWalks, FreshRegistries, Following, Occurrence, NoOf, PathOf, HasPath
<1>34. CASE UNCHANGED vars
  BY <1>34 DEF vars, Occurrence, NoOf, PathOf, HasPath
<1> QED
  BY <1>1, <1>2, <1>3, <1>4, <1>5, <1>6, <1>7, <1>8, <1>9, <1>10, <1>11,
     <1>12, <1>13, <1>14, <1>15, <1>16, <1>17, <1>18, <1>19, <1>20, <1>21,
     <1>22, <1>23, <1>24, <1>25, <1>26, <1>27, <1>28, <1>29, <1>30, <1>31,
     <1>32, <1>33, <1>34
  DEF Next, Step, Quiet

\* Whoever is shown as blocked has finished the work of the node.
THEOREM BlockedFinished == Spec => []BlockedHaveFinished
<1>1. Init => Typed /\ Labels /\ Marked
  BY InitTyped DEF Init, Labels, Tagged, OccupantsAreLabelled, Walking, Labelled, HasPath, Marked
<1>2. Typed /\ Labels /\ Marked /\ [Next]_vars => Typed' /\ Labels' /\ Marked'
  BY TypeStep, WithinStep, LabelsStep, MarkedStep DEF Typed
<1>3. Typed /\ Labels /\ Marked => BlockedHaveFinished
  BY DEF Typed, Labels, OccupantsAreLabelled, Walking, Labelled, Marked, Done, BlockedHaveFinished,
         BlockedLeaving, StillBlocked, InBody, Present, Alive
<1> QED
  BY <1>1, <1>2, <1>3, PTL DEF Spec
=============================================================================
